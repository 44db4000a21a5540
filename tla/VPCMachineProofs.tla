--------------------------- MODULE VPCMachineProofs --------------------------
(***************************************************************************)
(* Proofs about VPCMachine, for every set of machines the user may write   *)
(* and every bound on failures, instances and volumes.                     *)
(***************************************************************************)
EXTENDS VPCMachine, TLAPS

----------------------------------------------------------------------------
(* Types.                                                                  *)

Finding == {"network", "source", "create"}
Deletion == {"deleteMembers", "deleteMember", "unbind", "deleteInstance"}
Labels == {"idle", "find", "tag", "provider", "member", "addMember", "loadBalancer", "bind",
           "volumes", "volume", "attach", "patch"} \cup Finding \cup Deletion
InList == {"member", "addMember", "volume", "attach", "deleteMember"}

PoolsOfSpec == {spec.pools[k] : k \in 1..Len(spec.pools)}

\* A list is gone through from its start, and the members in the status are in
\* pools of the spec.
ListInv ==
    /\ pc \notin InList \cup {"patch"} => at = 1 /\ ~flag
    /\ stored.members \subseteq PoolsOfSpec /\ local.members \subseteq PoolsOfSpec

TypeInv == TypeOK /\ ListInv

\* What the bounds are.
LEMMA Bounds == MaxFaults \in Nat /\ MaxInstances \in Nat /\ MaxVolumes \in Nat /\ 1 \in Instances
BY BoundAssumption DEF Instances

\* The lists of pools are short, and name pools.
LEMMA SpecFacts ==
    ASSUME spec \in Specs
    PROVE  /\ spec.controlPlane \in BOOLEAN /\ spec.volumes \in 0..2
           /\ Len(spec.pools) \in 0..2
           /\ \A k \in 1..Len(spec.pools) : spec.pools[k] \in Pools
           /\ (spec.pools = <<>>) <=> (Len(spec.pools) = 0)
           /\ PoolsOfSpec \subseteq Pools
           /\ PoolsOfSpec # {} => Len(spec.pools) # 0
<1>1. spec \in SpecType
  BY SpecAssumption
<1>2. spec.pools \in {<<>>, <<"api">>, <<"extra">>, <<"api", "extra">>}
  BY <1>1 DEF SpecType
<1>. USE DEF PoolsOfSpec
<1>3. CASE spec.pools = <<>>
  BY <1>1, <1>3 DEF SpecType, MaxSlots
<1>4. CASE spec.pools = <<"api">>
  BY <1>1, <1>4 DEF SpecType, MaxSlots, Pools
<1>5. CASE spec.pools = <<"extra">>
  BY <1>1, <1>5 DEF SpecType, MaxSlots, Pools
<1>6. CASE spec.pools = <<"api", "extra">>
  BY <1>1, <1>6 DEF SpecType, MaxSlots, Pools
<1>. QED BY <1>2, <1>3, <1>4, <1>5, <1>6

\* The fault counter stays within its bound.
LEMMA FaultArithmetic ==
    ASSUME faults \in 0..MaxFaults
    PROVE  /\ NoFault => faults' \in 0..MaxFaults
           /\ \A kind : Fault(kind) => faults' \in 0..MaxFaults
BY Bounds DEF NoFault, Fault

Seen == [id : 0..MaxInstances, state : InstanceStates, ip : 0..MaxInstances]

\* Every kind of object the controller writes is well formed.
LEMMA Objects ==
    /\ NewObject \in ObjectType /\ Nothing \in Seen
    /\ TypeOK => /\ MarkReady(local) \in ObjectType /\ MarkReady(local).members = local.members
                 /\ Finalized \in ObjectType /\ Finalized.members = local.members
                 /\ Recorded \in ObjectType /\ Recorded.members = local.members
                 /\ \A i \in Instances : Read(i) \in Seen /\ Read(i).id = i /\ i # 0
<1>1. 0 \in 0..MaxInstances /\ 0 \in 0..MaxVolumes /\ Instances \subseteq 0..MaxInstances
  BY Bounds DEF Instances
<1>2. NewObject \in ObjectType /\ Nothing \in Seen
  BY <1>1 DEF NewObject, ObjectType, Nothing, Ready, InstanceStates, Seen
<1>3. TypeOK => local \in ObjectType /\ seen \in Seen
  BY DEF TypeOK, ControllerTypeOK, Seen
<1>4. TypeOK => /\ MarkReady(local) \in ObjectType /\ MarkReady(local).members = local.members
                /\ Finalized \in ObjectType /\ Finalized.members = local.members
                /\ Recorded \in ObjectType /\ Recorded.members = local.members
  BY <1>3 DEF ObjectType, MarkReady, Finalized, Recorded, Ready, Seen
<1>5. TypeOK => \A i \in Instances : Read(i) \in Seen /\ Read(i).id = i /\ i # 0
  BY <1>1, Bounds DEF Read, Address, TypeOK, CloudTypeOK, Seen, Instances
<1>. QED BY <1>2, <1>4, <1>5

\* Outside of its lists a reconcile is well formed when its copy is.
LEMMA Outside ==
    ASSUME TypeOK, local' \in ObjectType, seen' \in Seen, listed' \subseteq Slots, at' \in Slots,
           flag' \in BOOLEAN, pc' \in Labels \ InList,
           pc' \in {"tag", "provider"} => seen'.id # 0, pc' = "unbind" => local'.id # 0
    PROVE  ControllerTypeOK'
BY DEF ControllerTypeOK, Seen, Labels, InList, Finding, Deletion, Slots, MaxSlots

LEMMA InitTypeInv == Init => TypeInv
<1>. SUFFICES ASSUME Init PROVE TypeInv
  OBVIOUS
<1>. USE Objects, Bounds
<1>3. CloudTypeOK
  BY DEF Init, CloudTypeOK, InstanceStates
<1>4. ApiTypeOK
  BY DEF Init, ApiTypeOK
<1>5. local \in ObjectType /\ seen \in Seen /\ at = 1 /\ flag = FALSE /\ listed = {} /\ pc = "idle"
  BY DEF Init
<1>6. ControllerTypeOK
  <2>1. flag \in BOOLEAN /\ at \in Slots /\ listed \in SUBSET Slots
    <3>1. flag \in BOOLEAN /\ listed \in SUBSET Slots
      BY <1>5, Zenon
    <3>. QED BY <1>5, <3>1 DEF Slots, MaxSlots
  <2>2. local \in ObjectType /\ seen \in [id : 0..MaxInstances, state : InstanceStates, ip : 0..MaxInstances]
    BY <1>5 DEF Seen
  <2>. QED BY <1>5, <2>1, <2>2 DEF ControllerTypeOK
<1>7. ListInv
  BY <1>5 DEF Init, ListInv, NewObject, InList
<1>. QED BY <1>3, <1>4, <1>6, <1>7 DEF Init, TypeOK, TypeInv

\* IBM Cloud and the user.
LEMMA OutsideTypeInv ==
    ASSUME TypeInv,
           \/ Cloud \/ SetOwner \/ SetDataSecretName \/ TogglePause \/ DeleteObject
           \/ ReconcileReturns \/ EnsureFinalizer
    PROVE  TypeInv'
<1>. USE FaultArithmetic, Bounds DEF TypeInv, TypeOK
<1>1. CASE UNCHANGED <<apiVars, ctlVars>> /\ CloudTypeOK' /\ faults' \in 0..MaxFaults
  BY <1>1 DEF ApiTypeOK, ControllerTypeOK, ListInv, PoolsOfSpec, apiVars, ctlVars
<1>2. ASSUME NEW i \in Instances, InstanceProgress(i) PROVE TypeInv'
  BY <1>1, <1>2 DEF InstanceProgress, CloudTypeOK, InstanceStates, poolVars, volumeVars
<1>3. ASSUME NEW i \in Instances, AssignAddress(i) \/ InstanceDisturbed(i) \/ StartInstance(i)
      PROVE  TypeInv'
  BY <1>1, <1>3 DEF AssignAddress, InstanceDisturbed, StartInstance, CloudTypeOK, InstanceStates,
     poolVars, volumeVars
<1>4. ASSUME NEW p \in Pools, LBProgress(p) PROVE TypeInv'
  <2>1. UNCHANGED <<instVars, volumeVars, apiVars, ctlVars, faults>> /\ lbs' \in [Pools -> BOOLEAN]
    BY <1>4 DEF LBProgress, CloudTypeOK
  <2>2. members' \in [Pools -> [0..MaxInstances -> {"absent", "pending", "active"}]]
    <3>. DEFINE applied == [i \in 0..MaxInstances |-> IF members[p][i] = "pending" THEN "active"
                                                      ELSE members[p][i]]
    <3>1. applied \in [0..MaxInstances -> {"absent", "pending", "active"}]
      BY DEF CloudTypeOK
    <3>2. members' = [members EXCEPT ![p] = applied]
      BY <1>4 DEF LBProgress
    <3>. QED BY <3>1, <3>2 DEF CloudTypeOK
  <2>. QED BY <1>1, <2>1, <2>2 DEF CloudTypeOK, instVars, volumeVars
<1>5. ASSUME NEW v \in Volumes, VolumeProgress(v) PROVE TypeInv'
  BY <1>1, <1>5 DEF VolumeProgress, CloudTypeOK, instVars, poolVars
<1>6. CASE SetOwner \/ SetDataSecretName \/ TogglePause \/ DeleteObject \/ ReconcileReturns
           \/ EnsureFinalizer
  <2>1. UNCHANGED <<cloudVars, ctlVars, spec, faults>> /\ ApiTypeOK' /\ stored'.members = stored.members
    BY <1>6 DEF SetOwner, SetDataSecretName, TogglePause, DeleteObject, ReconcileReturns, EnsureFinalizer,
       vars, apiVars, ApiTypeOK, ObjectType
  <2>2. CloudTypeOK'
    BY <2>1 DEF CloudTypeOK, cloudVars, instVars, poolVars, volumeVars
  <2>3. ControllerTypeOK' /\ ListInv'
    BY <2>1 DEF ControllerTypeOK, ListInv, PoolsOfSpec, ctlVars
  <2>. QED BY <2>1, <2>2, <2>3
<1>. QED BY <1>2, <1>3, <1>4, <1>5, <1>6 DEF Cloud

\* The reconcile, up to the pools.
LEMMA InstanceTypeInv ==
    ASSUME TypeInv,
           \/ StartReconcile \/ EnsureInstanceUnique \/ LookUpNetwork \/ LookUpSource
           \/ CreateMachine \/ TagResource \/ RecordInstance
    PROVE  TypeInv'
<1>. USE FaultArithmetic, Objects, SpecFacts DEF TypeInv, TypeOK, Ends
<1>0. seen \in Seen /\ local \in ObjectType /\ stored \in ObjectType /\ spec \in Specs
  BY DEF ControllerTypeOK, ApiTypeOK, Seen
<1>1. CASE UNCHANGED <<cloudVars, apiVars>> /\ ControllerTypeOK' /\ faults' \in 0..MaxFaults /\ ListInv'
  BY <1>1 DEF CloudTypeOK, ApiTypeOK, cloudVars, instVars, poolVars, volumeVars, apiVars
<1>2. CASE StartReconcile
  <2>1. UNCHANGED <<cloudVars, apiVars, seen, listed, at, flag, faults>> /\ local' = stored
        /\ pc = "idle" /\ pc' \in {"find", "patch", "deleteMembers", "deleteInstance"}
    BY <1>2 DEF StartReconcile
  <2>2. ControllerTypeOK' /\ ListInv'
    BY <1>0, <2>1, Outside DEF ListInv, ControllerTypeOK, InList, Labels, Finding, Deletion, PoolsOfSpec,
       apiVars
  <2>. QED BY <1>1, <2>1, <2>2
<1>3. CASE EnsureInstanceUnique
  <2>1. UNCHANGED <<cloudVars, apiVars, listed, at, flag, local>> /\ faults' \in 0..MaxFaults
        /\ \/ pc' \in {"patch", "network"} /\ UNCHANGED seen
           \/ pc' = "tag" /\ \E i \in Instances : seen' = Read(i)
    BY <1>3 DEF EnsureInstanceUnique, FoundInstances
  <2>2. ControllerTypeOK' /\ ListInv'
    BY <1>0, <1>3, <2>1, Outside DEF EnsureInstanceUnique, ListInv, ControllerTypeOK, InList, Labels,
       Finding, Deletion, PoolsOfSpec, apiVars
  <2>. QED BY <1>1, <2>1, <2>2
<1>4. CASE LookUpNetwork \/ LookUpSource
  <2>1. UNCHANGED <<cloudVars, apiVars, seen, listed, at, flag, local>> /\ faults' \in 0..MaxFaults
        /\ pc \in {"network", "source"} /\ pc' \in {"patch", "source", "create"}
    BY <1>4 DEF LookUpNetwork, LookUpSource, LookUp
  <2>2. ControllerTypeOK' /\ ListInv'
    BY <1>0, <2>1, Outside DEF ListInv, ControllerTypeOK, InList, Labels, Finding, Deletion, PoolsOfSpec,
       apiVars
  <2>. QED BY <1>1, <2>1, <2>2
<1>5. CASE CreateMachine
  <2>1. UNCHANGED <<addressed, poolVars, volumeVars, apiVars, listed, at, flag, local>>
        /\ faults' \in 0..MaxFaults /\ pc = "create"
        /\ \/ UNCHANGED <<inst, seen>> /\ pc' = "patch"
           \/ \E i \in Instances :
                /\ inst' = [inst EXCEPT ![i] = "pending"]
                /\ \/ pc' = "tag" /\ seen' = [id |-> i, state |-> "pending", ip |-> 0]
                   \/ pc' = "patch" /\ UNCHANGED seen
    BY <1>5 DEF CreateMachine
  <2>2. CloudTypeOK'
    BY <2>1 DEF CloudTypeOK, InstanceStates, poolVars, volumeVars
  <2>3. seen' \in Seen /\ (pc' = "tag" => seen'.id # 0)
    BY <1>0, <2>1, Bounds DEF InstanceStates, Instances, Seen
  <2>4. ControllerTypeOK' /\ ListInv'
    BY <1>0, <2>1, <2>3, Outside DEF ListInv, ControllerTypeOK, InList, Labels, Finding, Deletion,
       PoolsOfSpec, apiVars
  <2>. QED BY <2>1, <2>2, <2>4 DEF ApiTypeOK, apiVars
<1>6. CASE TagResource
  <2>1. UNCHANGED <<cloudVars, apiVars, seen, listed, at, flag>> /\ faults' \in 0..MaxFaults
        /\ pc = "tag" /\ pc' \in {"patch", "provider"}
        /\ (local' = local \/ local' = [local EXCEPT !.id = seen.id])
    BY <1>6 DEF TagResource
  <2>2. local' \in ObjectType /\ local'.members = local.members /\ seen.id # 0
    BY <1>0, <2>1 DEF ObjectType, Seen, ControllerTypeOK
  <2>3. ControllerTypeOK' /\ ListInv'
    BY <1>0, <2>1, <2>2, Outside DEF ListInv, ControllerTypeOK, InList, Labels, Finding, Deletion,
       PoolsOfSpec, apiVars
  <2>. QED BY <1>1, <2>1, <2>3
<1>7. CASE RecordInstance
  <2>1. UNCHANGED <<cloudVars, apiVars, seen, listed, at, flag>> /\ faults' \in 0..MaxFaults
        /\ pc = "provider" /\ pc' \in {"patch", "member", "loadBalancer", "volumes"}
        /\ (pc' = "member" => spec.pools # <<>>)
    BY <1>7 DEF RecordInstance
  <2>2. local' \in ObjectType /\ local'.members = local.members
    <3>1. ASSUME NEW o \in ObjectType, NEW b \in BOOLEAN
          PROVE  /\ [o EXCEPT !.condition = "false"] \in ObjectType
                 /\ [o EXCEPT !.condition = "false"].members = o.members
                 /\ [o EXCEPT !.ready = FALSE, !.condition = "false", !.failed = b] \in ObjectType
                 /\ [o EXCEPT !.ready = FALSE, !.condition = "false", !.failed = b].members = o.members
      BY DEF ObjectType, Ready
    <3>2. Recorded \in ObjectType /\ Recorded.failed \in BOOLEAN /\ Recorded.members = local.members
      BY DEF ObjectType
    <3>3. \/ local' = local \/ local' = Recorded \/ local' = [Recorded EXCEPT !.condition = "false"]
          \/ local' = [Recorded EXCEPT !.ready = FALSE, !.condition = "false",
                                       !.failed = Recorded.failed \/ seen.state = "failed"]
      BY <1>7 DEF RecordInstance
    <3>. QED BY <1>0, <3>1, <3>2, <3>3
  <2>3. ListInv' /\ at' = 1 /\ Len(spec.pools) \in 0..2
    BY <1>0, <2>1, <2>2 DEF ListInv, InList, PoolsOfSpec, apiVars
  <2>4. ControllerTypeOK'
    BY <1>0, <2>1, <2>2, <2>3 DEF ControllerTypeOK, apiVars
  <2>. QED BY <1>1, <2>1, <2>3, <2>4
<1>. QED BY <1>2, <1>3, <1>4, <1>5, <1>6, <1>7

\* The pools.
LEMMA MemberTypeInv ==
    ASSUME TypeInv,
           CheckPoolMemberExists \/ CreatePoolMember \/ GetLoadBalancer \/ BindPoolMember
    PROVE  TypeInv'
<1>. USE FaultArithmetic, Objects, SpecFacts DEF TypeInv, TypeOK, Ends
<1>0. seen \in Seen /\ local \in ObjectType /\ stored \in ObjectType /\ spec \in Specs
      /\ Len(spec.pools) \in 0..2 /\ at \in 1..2 /\ flag \in BOOLEAN /\ "api" \in Pools
  BY DEF ControllerTypeOK, ApiTypeOK, Seen, Slots, MaxSlots, Pools
<1>01. pc \in {"member", "addMember"} =>
          at \in 1..Len(spec.pools) /\ spec.pools[at] \in Pools /\ spec.pools[at] \in PoolsOfSpec
  <2>1. pc \in {"member", "addMember"} => at \in 1..Len(spec.pools)
    BY <1>0 DEF ControllerTypeOK
  <2>. QED BY <1>0, <2>1 DEF PoolsOfSpec
<1>1. UNCHANGED <<volumeVars, instVars, apiVars, seen, listed>> /\ faults' \in 0..MaxFaults
      /\ pc \in {"member", "addMember", "loadBalancer", "bind"}
  BY DEF CheckPoolMemberExists, CreatePoolMember, GetLoadBalancer, BindPoolMember, cloudVars, AddMember,
     Refused, MemberExists, AfterMember
<1>2. /\ members' \in [Pools -> [0..MaxInstances -> {"absent", "pending", "active"}]]
      /\ lbs' \in [Pools -> BOOLEAN]
  <2>1. ASSUME NEW p \in Pools, NEW ip \in 0..MaxInstances, AddMember(p, ip)
        PROVE  /\ members' \in [Pools -> [0..MaxInstances -> {"absent", "pending", "active"}]]
               /\ lbs' \in [Pools -> BOOLEAN]
    BY <2>1 DEF AddMember, CloudTypeOK
  <2>2. UNCHANGED poolVars \/ \E p \in Pools : \E ip \in 0..MaxInstances : AddMember(p, ip)
    <3>1. local.ip \in 0..MaxInstances /\ seen.ip \in 0..MaxInstances
      BY <1>0 DEF ObjectType, Seen
    <3>. QED BY <1>0, <1>01, <3>1 DEF CheckPoolMemberExists, CreatePoolMember, GetLoadBalancer, BindPoolMember,
             cloudVars
  <2>. QED BY <2>1, <2>2 DEF CloudTypeOK, poolVars
<1>3. local' \in ObjectType /\ local'.members \subseteq PoolsOfSpec
  <2>1. local' = local \/ (pc = "addMember" /\ local' = [local EXCEPT !.members = @ \cup {spec.pools[at]}])
    BY DEF CheckPoolMemberExists, CreatePoolMember, GetLoadBalancer, BindPoolMember
  <2>2. ASSUME NEW p \in Pools
        PROVE  /\ [local EXCEPT !.members = @ \cup {p}] \in ObjectType
               /\ [local EXCEPT !.members = @ \cup {p}].members = local.members \cup {p}
    BY <1>0 DEF ObjectType
  <2>3. local.members \subseteq PoolsOfSpec
    BY <1>0 DEF ListInv
  <2>4. CASE local' = local
    BY <1>0, <2>3, <2>4
  <2>5. CASE pc = "addMember" /\ local' = [local EXCEPT !.members = @ \cup {spec.pools[at]}]
    <3>1. spec.pools[at] \in Pools /\ spec.pools[at] \in PoolsOfSpec
      BY <1>01, <2>5
    <3>. QED BY <2>2, <2>3, <2>5, <3>1
  <2>. QED BY <2>1, <2>4, <2>5
<1>4. at' \in 1..2 /\ flag' \in BOOLEAN /\ pc' \in {"member", "addMember", "bind", "volumes", "patch"}
      /\ (pc' \in {"member", "addMember"} => at' <= Len(spec.pools))
      /\ (pc' \in {"bind", "volumes"} => at' = 1 /\ ~flag')
  <2>1. ASSUME NEW b \in BOOLEAN, AfterMember(b)
        PROVE  /\ at' \in 1..2 /\ flag' \in BOOLEAN /\ pc' \in {"member", "volumes", "patch"}
               /\ pc' = "member" => at' <= Len(spec.pools)
               /\ pc' = "volumes" => at' = 1 /\ ~flag'
    BY <1>0, <2>1 DEF AfterMember
  <2>2. CASE CheckPoolMemberExists
    BY <1>0, <2>1, <2>2 DEF CheckPoolMemberExists, MemberExists, ControllerTypeOK
  <2>3. CASE CreatePoolMember
    BY <1>0, <2>1, <2>3 DEF CreatePoolMember, ControllerTypeOK
  <2>4. CASE GetLoadBalancer \/ BindPoolMember
    BY <1>0, <2>4 DEF GetLoadBalancer, BindPoolMember, ListInv, InList
  <2>. QED BY <2>2, <2>3, <2>4
<1>. QED
  <2>1. ControllerTypeOK'
    BY <1>0, <1>1, <1>3, <1>4 DEF ControllerTypeOK, Seen, apiVars, Slots, MaxSlots
  <2>2. ListInv'
    BY <1>1, <1>3, <1>4 DEF ListInv, InList, PoolsOfSpec, apiVars
  <2>. QED BY <1>1, <1>2, <2>1, <2>2 DEF CloudTypeOK, ApiTypeOK, apiVars, instVars, volumeVars

\* The volumes.
LEMMA VolumeTypeInv ==
    ASSUME TypeInv, GetVolumeAttachments \/ NewVolume \/ GetVolumeState \/ AttachVolume
    PROVE  TypeInv'
<1>. USE FaultArithmetic, Objects, SpecFacts DEF TypeInv, TypeOK, Ends
<1>0. seen \in Seen /\ local \in ObjectType /\ stored \in ObjectType /\ spec \in Specs
      /\ spec.volumes \in 0..2 /\ at \in 1..2 /\ flag \in BOOLEAN /\ listed \subseteq Slots
      /\ local.volumes \in [Slots -> 0..MaxVolumes] /\ Slots = 1..2
  BY DEF ControllerTypeOK, ApiTypeOK, Seen, Slots, MaxSlots, ObjectType
<1>1. UNCHANGED <<instVars, poolVars, apiVars, seen>> /\ faults' \in 0..MaxFaults
      /\ listed' \subseteq Slots
  <2>1. CASE GetVolumeAttachments
    BY <1>0, <2>1 DEF GetVolumeAttachments, cloudVars
  <2>2. CASE NewVolume \/ GetVolumeState \/ AttachVolume
    BY <1>0, <2>2 DEF NewVolume, GetVolumeState, AttachVolume, cloudVars
  <2>. QED BY <2>1, <2>2
<1>2. /\ volumes' \in [Volumes -> {"none", "pending", "available", "attached", "failed", "gone"}]
      /\ attached' \in [Slots -> 0..MaxVolumes]
  <2>1. UNCHANGED volumeVars
        \/ (\E w \in Volumes : CreateVolume(at, w))
        \/ (/\ volumes' = [volumes EXCEPT ![local.volumes[at]] = "attached"]
            /\ attached' = [attached EXCEPT ![at] = local.volumes[at]])
    BY DEF GetVolumeAttachments, NewVolume, GetVolumeState, AttachVolume, cloudVars
  <2>2. local.volumes[at] \in 0..MaxVolumes
    BY <1>0
  <2>. QED BY <2>1, <2>2 DEF CloudTypeOK, volumeVars, CreateVolume
\* What a volume leaves behind.
<1>3. ASSUME NEW o \in ObjectType, NEW b \in BOOLEAN, o.members \subseteq PoolsOfSpec,
             o.id = local.id, local.id # 0, AfterVolume(o, b)
      PROVE  /\ local' \in ObjectType /\ local'.members \subseteq PoolsOfSpec
             /\ at' \in 1..2 /\ flag' \in BOOLEAN /\ pc' \in {"volume", "patch"}
             /\ pc' = "volume" => at' <= spec.volumes /\ local'.id # 0
  <2>1. MarkReady(o) \in ObjectType /\ MarkReady(o).members = o.members
    BY DEF MarkReady, ObjectType, Ready
  <2>. QED BY <1>0, <1>3, <2>1 DEF AfterVolume
<1>4. /\ local' \in ObjectType /\ local'.members \subseteq PoolsOfSpec
      /\ at' \in 1..2 /\ flag' \in BOOLEAN /\ pc' \in {"volume", "attach", "patch"}
      /\ pc' \in {"volume", "attach"} => at' <= spec.volumes /\ local'.id # 0
      /\ pc' = "attach" => local'.volumes[at'] # 0
  <2>1. CASE GetVolumeAttachments
    <3>1. at' = at /\ flag' = flag /\ at = 1
          /\ pc' \in {"volume", "patch"} /\ local' \in {local, stored, MarkReady(local)}
          /\ (pc' = "volume" => local' = stored /\ stored.id \in Instances /\ spec.volumes > 0)
      BY <2>1 DEF GetVolumeAttachments, FoundInstances, ListInv, InList
    <3>2. pc' = "volume" => local'.id # 0
      BY <3>1, Bounds DEF Instances
    <3>. QED BY <1>0, <3>1, <3>2 DEF ListInv
  <2>2. pc \in {"volume", "attach"} => local.id # 0 /\ local.members \subseteq PoolsOfSpec /\ at <= spec.volumes
    BY DEF ControllerTypeOK, ListInv
  <2>3. CASE NewVolume
    <3>1. ASSUME NEW w \in Volumes
          PROVE  /\ [local EXCEPT !.volumes[at] = w] \in ObjectType
                 /\ [local EXCEPT !.volumes[at] = w].members = local.members
                 /\ [local EXCEPT !.volumes[at] = w].id = local.id
      <4>. DEFINE written == [local.volumes EXCEPT ![at] = w]
      <4>1. written \in [Slots -> 0..MaxVolumes]
        BY <1>0, Bounds DEF Volumes
      <4>2. [local EXCEPT !.volumes[at] = w] = [local EXCEPT !.volumes = written]
        OBVIOUS
      <4>. HIDE DEF written
      <4>. QED BY <1>0, <4>1, <4>2 DEF ObjectType
    <3>. QED BY <1>0, <1>3, <2>2, <2>3, <3>1 DEF NewVolume
  <2>4. CASE GetVolumeState
    BY <1>0, <1>3, <2>2, <2>4 DEF GetVolumeState
  <2>5. CASE AttachVolume
    BY <1>0, <1>3, <2>2, <2>5 DEF AttachVolume
  <2>. QED BY <2>1, <2>3, <2>4, <2>5
<1>. QED
  <2>1. ControllerTypeOK'
    BY <1>0, <1>1, <1>4 DEF ControllerTypeOK, Seen, apiVars
  <2>2. ListInv'
    BY <1>1, <1>4 DEF ListInv, InList, PoolsOfSpec, apiVars
  <2>. QED BY <1>1, <1>2, <2>1, <2>2 DEF CloudTypeOK, ApiTypeOK, apiVars, instVars, poolVars

\* The deletion.
LEMMA DeleteTypeInv ==
    ASSUME TypeInv, DeletePoolMembers \/ DeletePoolMember \/ UnbindPoolMember \/ DeleteMachine
    PROVE  TypeInv'
<1>. USE FaultArithmetic, Objects, SpecFacts DEF TypeInv, TypeOK, Ends
<1>0. seen \in Seen /\ local \in ObjectType /\ spec \in Specs /\ Len(spec.pools) \in 0..2
      /\ at \in 1..2 /\ flag \in BOOLEAN /\ "api" \in Pools /\ Slots = 1..2
  BY DEF ControllerTypeOK, ApiTypeOK, Seen, Slots, MaxSlots, Pools
<1>1. UNCHANGED <<addressed, volumeVars, apiVars, listed>> /\ faults' \in 0..MaxFaults
  BY DEF DeletePoolMembers, DeletePoolMember, UnbindPoolMember, DeleteMachine, cloudVars, instVars, poolVars,
     RemoveMember, Refused
<1>2. inst' \in [Instances -> InstanceStates]
  BY DEF DeletePoolMembers, DeletePoolMember, UnbindPoolMember, DeleteMachine, cloudVars, instVars,
     CloudTypeOK, InstanceStates
<1>3. /\ members' \in [Pools -> [0..MaxInstances -> {"absent", "pending", "active"}]]
      /\ lbs' \in [Pools -> BOOLEAN]
  <2>1. ASSUME NEW p \in Pools, NEW ip \in 0..MaxInstances, RemoveMember(p, ip)
        PROVE  /\ members' \in [Pools -> [0..MaxInstances -> {"absent", "pending", "active"}]]
               /\ lbs' \in [Pools -> BOOLEAN]
    BY <2>1 DEF RemoveMember, CloudTypeOK
  <2>2. seen.ip \in 0..MaxInstances
    BY <1>0 DEF Seen
  <2>3. UNCHANGED poolVars \/ \E p \in Pools : RemoveMember(p, seen.ip)
    <3>1. pc = "deleteMember" => at \in 1..Len(spec.pools)
      BY <1>0 DEF ControllerTypeOK
    <3>. QED BY <1>0, <3>1 DEF DeletePoolMembers, DeletePoolMember, UnbindPoolMember, DeleteMachine, cloudVars
  <2>. QED BY <2>1, <2>2, <2>3 DEF CloudTypeOK, poolVars
<1>4. local' \in ObjectType /\ local'.members = local.members /\ (pc' # "patch" => local' = local)
  BY <1>0 DEF DeletePoolMembers, DeletePoolMember, UnbindPoolMember, DeleteMachine
<1>5. seen' \in Seen
  BY <1>0 DEF DeletePoolMembers, DeletePoolMember, UnbindPoolMember, DeleteMachine, FoundInstances
<1>6. /\ at' \in 1..2 /\ flag' \in BOOLEAN /\ pc' \in {"deleteMember", "unbind", "deleteInstance", "patch"}
      /\ pc' \in {"unbind", "deleteInstance"} => at' = 1 /\ ~flag'
      /\ pc' = "deleteMember" => at' <= Len(spec.pools)
      /\ pc' \in {"unbind", "deleteMember"} => local.id # 0
  <2>1. CASE DeletePoolMembers
    <3>1. at' = 1 /\ ~flag' /\ flag' \in BOOLEAN
          /\ pc' \in {"deleteMember", "unbind", "deleteInstance", "patch"}
          /\ (pc' = "deleteMember" => local.members # {})
          /\ (pc' # "patch" => local.id \in Instances)
      BY <1>0, <2>1 DEF DeletePoolMembers, ListInv, InList, FoundInstances
    <3>2. pc' # "patch" => local.id # 0
      BY <3>1, Bounds DEF Instances
    <3>3. pc' = "deleteMember" => Len(spec.pools) # 0
      BY <1>0, <3>1 DEF ListInv
    <3>. QED BY <1>0, <3>1, <3>2, <3>3
  <2>2. CASE DeletePoolMember
    <3>1. at <= Len(spec.pools) /\ local.id # 0
      BY <2>2 DEF DeletePoolMember, ControllerTypeOK
    <3>2. ASSUME NEW b \in BOOLEAN, AfterDelete(b)
          PROVE  /\ at' \in 1..2 /\ flag' \in BOOLEAN
                 /\ pc' \in {"deleteMember", "deleteInstance", "patch"}
                 /\ pc' = "deleteInstance" => at' = 1 /\ ~flag'
                 /\ pc' = "deleteMember" => at' <= Len(spec.pools)
      BY <1>0, <3>1, <3>2 DEF AfterDelete
    <3>3. \/ at' = at /\ flag' = flag /\ pc' = "patch"
          \/ AfterDelete(FALSE)
          \/ AfterDelete(spec.pools[at] \in local.members /\ members[spec.pools[at]][seen.ip] # "absent")
      BY <2>2 DEF DeletePoolMember
    <3>. QED BY <1>0, <3>1, <3>2, <3>3
  <2>3. CASE UnbindPoolMember \/ DeleteMachine
    BY <1>0, <2>3 DEF UnbindPoolMember, DeleteMachine, ListInv, InList
  <2>. QED BY <2>1, <2>2, <2>3
<1>. QED
  <2>1. ControllerTypeOK'
    BY <1>0, <1>1, <1>4, <1>5, <1>6 DEF ControllerTypeOK, Seen, apiVars
  <2>2. ListInv'
    BY <1>1, <1>4, <1>6 DEF ListInv, InList, PoolsOfSpec, apiVars
  <2>. QED BY <1>1, <1>2, <1>3, <2>1, <2>2 DEF CloudTypeOK, ApiTypeOK, apiVars, volumeVars

\* The patch, complete or not.
LEMMA PatchTypeInv ==
    ASSUME TypeInv, Patch \/ Crash
    PROVE  TypeInv'
<1>. USE FaultArithmetic, Objects DEF TypeInv, TypeOK
<1>1. UNCHANGED <<cloudVars, spec, gate, bootstrap>> /\ faults' \in 0..MaxFaults
      /\ Forget /\ phase' \in {phase, "gone"}
      /\ (stored' = stored \/ \E parts \in SUBSET PatchParts : stored' = Patched(parts))
  BY DEF Patch, Crash, apiVars
<1>2. stored' \in ObjectType /\ stored'.members \in {stored.members, local.members}
  <2>1. stored \in ObjectType /\ local \in ObjectType
    BY DEF ApiTypeOK, ControllerTypeOK
  <2>2. ASSUME NEW parts \in SUBSET PatchParts
        PROVE  Patched(parts) \in ObjectType /\ Patched(parts).members \in {stored.members, local.members}
    BY <2>1 DEF Patched, ObjectType, Ready
  <2>. QED BY <1>1, <2>1, <2>2
<1>3. ControllerTypeOK'
  <2>1. local' \in ObjectType /\ seen' \in Seen /\ pc' = "idle"
    BY <1>1 DEF Forget
  <2>2. listed' \in SUBSET Slots /\ at' \in Slots /\ flag' \in BOOLEAN
    <3>1. listed' = {} /\ at' = 1 /\ flag' = FALSE
      BY <1>1 DEF Forget
    <3>2. flag' \in BOOLEAN /\ listed' \in SUBSET Slots
      BY <3>1, Zenon
    <3>. QED BY <3>1, <3>2 DEF Slots, MaxSlots
  <2>. QED BY <2>1, <2>2 DEF ControllerTypeOK, Seen
<1>4. ListInv'
  BY <1>1, <1>2 DEF ListInv, Forget, NewObject, PoolsOfSpec, InList
<1>5. ApiTypeOK'
  BY <1>1, <1>2 DEF ApiTypeOK
<1>6. CloudTypeOK'
  BY <1>1 DEF CloudTypeOK, cloudVars, instVars, poolVars, volumeVars
<1>. QED BY <1>1, <1>3, <1>4, <1>5, <1>6

LEMMA NextTypeInv == TypeInv /\ [Next]_vars => TypeInv'
<1>. SUFFICES ASSUME TypeInv, [Next]_vars PROVE TypeInv'
  OBVIOUS
<1>1. CASE UNCHANGED vars
  BY <1>1, OutsideTypeInv DEF vars, TypeInv, TypeOK, CloudTypeOK, ApiTypeOK, ControllerTypeOK, ListInv,
     PoolsOfSpec, cloudVars, instVars, poolVars, volumeVars, apiVars, ctlVars
<1>. QED
  BY <1>1, OutsideTypeInv, InstanceTypeInv, MemberTypeInv, VolumeTypeInv, DeleteTypeInv, PatchTypeInv
  DEF Next, Steps, NormalSteps, DeleteSteps

\* Type correctness: whatever the user writes and whatever fails, the status
\* only names pools of the spec, and no list is read beyond its end.
THEOREM TypeCorrect == Spec => []TypeOK
<1>. QED BY InitTypeInv, NextTypeInv, PTL DEF Spec, TypeInv

----------------------------------------------------------------------------
(* The invariants.                                                         *)

Normal == {"find", "tag", "provider", "member", "addMember", "loadBalancer", "bind",
           "volumes", "volume", "attach"} \cup Finding

\* There is one instance of the name, and none while one is about to be made.
SoleInv ==
    /\ \A i, j \in Instances : Exists(i) /\ Exists(j) => i = j
    /\ pc \in Finding => \A i \in Instances : ~Exists(i)

Made(i) == i # 0 => inst[i] # "none"
Outlived(i, j) == i \notin {0, j} => inst[i] = "gone"

\* The provider ID a patch may write, and the instance it comes from, are of
\* instances that were made, and what they replace is gone.
ProviderInv ==
    /\ Made(stored.provider) /\ Made(local.provider) /\ Made(seen.id)
    /\ pc # "idle" => Outlived(stored.provider, local.provider)
    /\ pc \in {"tag", "provider"} => Outlived(stored.provider, seen.id)

\* Only an instance that has its address is a member of a pool.
AddressInv ==
    /\ seen.ip \in addressed \cup {0}
    /\ \A p \in Pools : \A i \in Instances : members[p][i] # "absent" => i \in addressed
    /\ pc \in {"member", "addMember"} => local.ip = seen.ip

Active(k) == members[spec.pools[k]][seen.ip] = "active"
Serves ==
    IF spec.pools = <<>>
    THEN spec.controlPlane => seen.ip # 0 /\ members["api"][seen.ip] # "absent"
    ELSE \A k \in 1..Len(spec.pools) : Active(k)

\* The members that a reconcile has gone through are active, or it is flagged;
\* only when all are does a machine become ready.
ServeInv ==
    /\ pc \in {"loadBalancer", "bind"} => spec.pools = <<>>
    /\ pc \in {"member", "addMember"} /\ ~flag => \A k \in 1..(at - 1) : Active(k)
    /\ pc \in {"volumes", "volume", "attach"} => Serves
    /\ pc \notin {"idle", "patch"} /\ local.ready => stored.ready
    /\ pc = "patch" /\ local.ready => stored.ready \/ Serves

\* An object under reconcile keeps its finalizer, a deletion works on what is
\* persisted, and only a deletion gives the finalizer up.
FinalizerInv ==
    /\ ~stored.finalizer /\ phase # "gone" => pc = "idle" /\ stored = NewObject
    /\ phase = "gone" => pc = "idle"
    /\ pc \in Normal => local.finalizer
    /\ pc \in Deletion => phase = "deleting" /\ local = stored
    /\ pc = "patch" /\ ~local.finalizer =>
         phase = "deleting" /\ local = [stored EXCEPT !.finalizer = FALSE]

Released(p, i) == members[p][i] = "absent"

\* Nothing that is recorded is left behind.
Left ==
    stored.id # 0 =>
    /\ inst[stored.id] \in {"deleting", "gone"}
    /\ spec.controlPlane => \A p \in RecordedPools : Released(p, stored.id)

\* Every step of the deletion stands for what the ones before it have done.
LeftInv ==
    /\ pc \in {"deleteMember", "unbind"} =>
         seen.ip = stored.id \/ \A p \in Pools : Released(p, stored.id)
    /\ pc = "deleteMember" =>
         /\ stored.members # {}
         /\ ~flag => \A k \in 1..(at - 1) :
                        spec.pools[k] \in stored.members => Released(spec.pools[k], stored.id)
    /\ pc = "unbind" => stored.members = {}
    /\ pc = "deleteInstance" /\ spec.controlPlane /\ stored.id # 0 =>
         \A p \in RecordedPools : Released(p, stored.id)
    /\ pc = "patch" /\ ~local.finalizer => Left
    /\ phase = "gone" => Left

----------------------------------------------------------------------------
(* What steps have in common.                                              *)

\* Steps that touch none of what the invariants are about.
LEMMA Quiet ==
    ASSUME \/ SetOwner \/ SetDataSecretName \/ TogglePause \/ ReconcileReturns \/ UNCHANGED vars
    PROVE  UNCHANGED <<inst, addressed, members, spec, stored, phase, local, seen, at, flag, pc>>
BY DEF SetOwner, SetDataSecretName, TogglePause, ReconcileReturns, vars, cloudVars, instVars, poolVars,
   apiVars, ctlVars

\* IBM Cloud neither makes an instance nor removes a member.
LEMMA CloudKeeps ==
    ASSUME TypeInv, Cloud
    PROVE  /\ UNCHANGED <<spec, stored, phase, local, seen, at, flag, pc>>
           /\ \A i \in Instances : /\ inst'[i] = "none" <=> inst[i] = "none"
                                   /\ inst[i] = "gone" => inst'[i] = "gone"
                                   /\ inst[i] = "deleting" => inst'[i] \in {"deleting", "gone"}
           /\ addressed \subseteq addressed'
           /\ \A p \in Pools : \A i \in 0..MaxInstances :
                /\ members'[p][i] = "absent" <=> members[p][i] = "absent"
                /\ members[p][i] = "active" => members'[p][i] = "active"
<1>0. inst \in [Instances -> InstanceStates]
      /\ members \in [Pools -> [0..MaxInstances -> {"absent", "pending", "active"}]]
  BY DEF TypeInv, TypeOK, CloudTypeOK
<1>1. UNCHANGED <<spec, stored, phase, local, seen, at, flag, pc>>
  BY DEF Cloud, InstanceProgress, AssignAddress, InstanceDisturbed, StartInstance, LBProgress, VolumeProgress,
     apiVars, ctlVars
<1>2. ASSUME NEW i \in Instances,
             InstanceProgress(i) \/ AssignAddress(i) \/ InstanceDisturbed(i) \/ StartInstance(i)
      PROVE  /\ \A j \in Instances : /\ inst'[j] = "none" <=> inst[j] = "none"
                                     /\ inst[j] = "gone" => inst'[j] = "gone"
                                     /\ inst[j] = "deleting" => inst'[j] \in {"deleting", "gone"}
             /\ addressed \subseteq addressed' /\ members' = members
  BY <1>0, <1>2 DEF InstanceProgress, AssignAddress, InstanceDisturbed, StartInstance, poolVars, Exists
<1>3. ASSUME NEW p \in Pools, LBProgress(p)
      PROVE  /\ UNCHANGED <<inst, addressed>>
             /\ \A q \in Pools : \A i \in 0..MaxInstances :
                  /\ members'[q][i] = "absent" <=> members[q][i] = "absent"
                  /\ members[q][i] = "active" => members'[q][i] = "active"
  <2>. DEFINE applied == [i \in 0..MaxInstances |-> IF members[p][i] = "pending" THEN "active"
                                                    ELSE members[p][i]]
  <2>1. members' = [members EXCEPT ![p] = applied] /\ UNCHANGED <<inst, addressed>>
    BY <1>3 DEF LBProgress, instVars
  <2>2. \A q \in Pools : members'[q] = IF q = p THEN applied ELSE members[q]
    BY <1>0, <2>1
  <2>. QED BY <1>0, <2>1, <2>2
<1>4. ASSUME NEW v \in Volumes, VolumeProgress(v) PROVE UNCHANGED <<inst, addressed, members>>
  BY <1>4 DEF VolumeProgress, instVars, poolVars
<1>. QED BY <1>0, <1>1, <1>2, <1>3, <1>4 DEF Cloud

\* An instance is made once, and a deletion is not taken back.
LEMMA InstanceKeeps ==
    ASSUME TypeInv, [Next]_vars
    PROVE  \A i \in Instances : /\ inst[i] # "none" => inst'[i] # "none"
                                /\ inst[i] = "gone" => inst'[i] = "gone"
                                /\ inst[i] = "deleting" => inst'[i] \in {"deleting", "gone"}
<1>0. inst \in [Instances -> InstanceStates]
  BY DEF TypeInv, TypeOK, CloudTypeOK
<1>1. CASE Cloud
  BY <1>1, CloudKeeps
<1>2. CASE CreateMachine \/ DeleteMachine
  BY <1>0, <1>2 DEF CreateMachine, DeleteMachine, FoundInstances, Exists
<1>3. CASE UNCHANGED inst
  BY <1>3
<1>4. CASE SetOwner \/ SetDataSecretName \/ TogglePause \/ ReconcileReturns \/ UNCHANGED vars
  BY <1>3, <1>4, Quiet
<1>5. CASE DeleteObject \/ EnsureFinalizer \/ StartReconcile \/ Patch \/ Crash
  BY <1>3, <1>5 DEF DeleteObject, EnsureFinalizer, StartReconcile, Patch, Crash, cloudVars, instVars
<1>6. CASE NormalSteps /\ ~CreateMachine
  BY <1>3, <1>6 DEF NormalSteps, EnsureInstanceUnique, LookUpNetwork, LookUpSource, LookUp, TagResource,
     RecordInstance, CheckPoolMemberExists, CreatePoolMember, GetLoadBalancer, BindPoolMember,
     GetVolumeAttachments, NewVolume, GetVolumeState, AttachVolume, cloudVars, instVars
<1>7. CASE DeletePoolMembers \/ DeletePoolMember \/ UnbindPoolMember
  BY <1>3, <1>7 DEF DeletePoolMembers, DeletePoolMember, UnbindPoolMember, cloudVars, instVars
<1>. QED BY <1>1, <1>2, <1>4, <1>5, <1>6, <1>7 DEF Next, Steps, DeleteSteps

----------------------------------------------------------------------------
(* The instance and its provider ID.                                       *)

\* ensureInstanceUnique comes before CreateMachine, and nobody else creates.
LEMMA SoleStep ==
    ASSUME TypeInv, SoleInv, [Next]_vars
    PROVE  SoleInv'
<1>0. inst \in [Instances -> InstanceStates]
  BY DEF TypeInv, TypeOK, CloudTypeOK
<1>. USE DEF SoleInv, Exists, Finding
<1>1. CASE Cloud
  BY <1>1, CloudKeeps, InstanceKeeps
<1>2. CASE UNCHANGED inst /\ (pc' \in Finding => pc \in Finding)
  BY <1>2
<1>3. CASE SetOwner \/ SetDataSecretName \/ TogglePause \/ ReconcileReturns \/ UNCHANGED vars
  BY <1>2, <1>3, Quiet
<1>4. CASE DeleteObject \/ EnsureFinalizer \/ StartReconcile \/ Patch \/ Crash
  BY <1>2, <1>4 DEF DeleteObject, EnsureFinalizer, StartReconcile, Patch, Crash, Forget, cloudVars, instVars,
     ctlVars
<1>5. CASE EnsureInstanceUnique
  BY <1>5 DEF EnsureInstanceUnique, FoundInstances, Ends, cloudVars, instVars
<1>6. CASE CreateMachine
  <2>1. CASE UNCHANGED inst /\ pc' = "patch"
    BY <2>1
  <2>2. ASSUME NEW i \in Instances, inst' = [inst EXCEPT ![i] = "pending"], pc' \in {"tag", "patch"}
        PROVE  SoleInv'
    <3>1. \A j \in Instances : j # i => inst'[j] = inst[j]
      BY <1>0, <2>2
    <3>2. pc = "create"
      BY <1>6 DEF CreateMachine
    <3>. QED BY <2>2, <3>1, <3>2
  <2>. QED BY <1>6, <2>1, <2>2 DEF CreateMachine, Ends
<1>7. CASE LookUpNetwork \/ LookUpSource
  BY <1>2, <1>7 DEF LookUpNetwork, LookUpSource, LookUp, Ends, cloudVars, instVars
<1>8. CASE TagResource \/ RecordInstance \/ CheckPoolMemberExists \/ CreatePoolMember \/ GetLoadBalancer
           \/ BindPoolMember
  BY <1>2, <1>8 DEF TagResource, RecordInstance, CheckPoolMemberExists, MemberExists, CreatePoolMember,
     GetLoadBalancer, BindPoolMember, AfterMember, Ends, cloudVars, instVars
<1>9. CASE GetVolumeAttachments \/ NewVolume \/ GetVolumeState \/ AttachVolume
  BY <1>2, <1>9 DEF GetVolumeAttachments, NewVolume, GetVolumeState, AttachVolume, AfterVolume, Ends,
     cloudVars, instVars
<1>10. CASE DeletePoolMembers \/ DeletePoolMember \/ UnbindPoolMember
  BY <1>2, <1>10 DEF DeletePoolMembers, DeletePoolMember, UnbindPoolMember, AfterDelete, cloudVars, instVars
<1>11. CASE DeleteMachine
  BY <1>0, <1>11 DEF DeleteMachine, FoundInstances, Ends
<1>. QED BY <1>1, <1>3, <1>4, <1>5, <1>6, <1>7, <1>8, <1>9, <1>10, <1>11
         DEF Next, Steps, NormalSteps, DeleteSteps

\* The object is written by two steps.
LEMMA OnlyPatchesWrite ==
    ASSUME Next PROVE stored' = stored \/ EnsureFinalizer \/ Patch
BY DEF Next, Cloud, Steps, NormalSteps, DeleteSteps, InstanceProgress, AssignAddress, InstanceDisturbed,
   StartInstance, LBProgress, VolumeProgress, SetOwner, SetDataSecretName, TogglePause, DeleteObject,
   ReconcileReturns, StartReconcile, Crash, EnsureInstanceUnique, LookUpNetwork, LookUpSource, LookUp,
   CreateMachine, TagResource, RecordInstance, CheckPoolMemberExists, CreatePoolMember, GetLoadBalancer,
   BindPoolMember, GetVolumeAttachments, NewVolume, GetVolumeState, AttachVolume, DeletePoolMembers,
   DeletePoolMember, UnbindPoolMember, DeleteMachine, apiVars, vars

\* A patch writes each field from one of two objects.
LEMMA PatchedFields ==
    ASSUME Patch
    PROVE  /\ stored'.provider \in {stored.provider, local.provider}
           /\ stored'.id \in {stored.id, local.id} /\ stored'.members \in {stored.members, local.members}
           /\ stored'.finalizer \in {stored.finalizer, local.finalizer}
           /\ Forget /\ UNCHANGED <<cloudVars, spec>>
BY DEF Patch, Patched

\* The ID that is written is of the one instance there is, so the one it
\* replaces is gone.
LEMMA ProviderStep ==
    ASSUME TypeInv, SoleInv, ProviderInv, [Next]_vars
    PROVE  ProviderInv'
<1>0. /\ \A i \in Instances : inst[i] # "none" => inst'[i] # "none"
      /\ \A i \in Instances : inst[i] = "gone" => inst'[i] = "gone"
      /\ stored.provider \in 0..MaxInstances /\ local.provider \in 0..MaxInstances /\ seen.id \in 0..MaxInstances
      /\ Instances = 1..MaxInstances /\ MaxInstances \in Nat
  BY InstanceKeeps, Bounds DEF TypeInv, TypeOK, ApiTypeOK, ControllerTypeOK, ObjectType, Instances
<1>. USE DEF Made, Outlived
\* What was made or outlived still is.
<1>1. ASSUME NEW i \in 0..MaxInstances PROVE /\ Made(i) /\ i # 0 => inst'[i] # "none"
                                             /\ \A j : Outlived(i, j) /\ i \notin {0, j} => inst'[i] = "gone"
  BY <1>0
<1>2. CASE /\ stored'.provider = stored.provider /\ local'.provider = local.provider /\ seen' = seen
           /\ (pc' # "idle" => pc # "idle") /\ (pc' \in {"tag", "provider"} => pc \in {"tag", "provider"})
  BY <1>0, <1>1, <1>2 DEF ProviderInv
<1>3. CASE Cloud \/ SetOwner \/ SetDataSecretName \/ TogglePause \/ ReconcileReturns \/ UNCHANGED vars
  BY <1>2, <1>3, Quiet, CloudKeeps
<1>4. CASE DeleteObject \/ EnsureFinalizer
  <2>1. stored'.provider = stored.provider
    BY <1>4 DEF DeleteObject, EnsureFinalizer, TypeInv, TypeOK, ApiTypeOK, ObjectType
  <2>. QED BY <1>2, <1>4, <2>1 DEF DeleteObject, EnsureFinalizer, ctlVars
<1>5. CASE StartReconcile
  BY <1>0, <1>1, <1>5 DEF StartReconcile, ProviderInv, cloudVars, instVars, apiVars
<1>6. CASE Patch \/ Crash
  <2>1. local'.provider = 0 /\ seen'.id = 0 /\ pc' = "idle"
    BY <1>6 DEF Patch, Crash, Forget, NewObject, Nothing
  <2>2. stored'.provider \in {stored.provider, local.provider}
    BY <1>6, PatchedFields DEF Crash, apiVars
  <2>. QED BY <1>0, <2>1, <2>2, <1>1 DEF ProviderInv
<1>7. CASE EnsureInstanceUnique
  <2>1. UNCHANGED <<stored, local, inst>> /\ pc = "find"
    BY <1>7 DEF EnsureInstanceUnique, Ends, cloudVars, instVars, apiVars
  <2>2. CASE UNCHANGED seen /\ pc' \in {"network", "patch"}
    BY <1>2, <2>1, <2>2
  <2>3. ASSUME NEW i \in Instances, Exists(i), seen' = Read(i), pc' = "tag" PROVE ProviderInv'
    <3>1. seen'.id = i /\ inst[i] # "none"
      BY <2>3 DEF Read, Exists
    <3>2. Outlived(stored.provider, i)
      BY <1>0, <2>3 DEF SoleInv, ProviderInv, Exists
    <3>. QED BY <2>1, <2>3, <3>1, <3>2 DEF ProviderInv
  <2>. QED BY <1>7, <2>2, <2>3 DEF EnsureInstanceUnique, FoundInstances, Ends
<1>8. CASE CreateMachine
  <2>1. UNCHANGED <<stored, local>> /\ pc = "create"
    BY <1>8 DEF CreateMachine, Ends, apiVars
  <2>2. CASE UNCHANGED seen /\ pc' = "patch"
    BY <1>2, <2>1, <2>2
  <2>3. ASSUME NEW i \in Instances, inst[i] = "none", inst' = [inst EXCEPT ![i] = "pending"],
               seen' = [id |-> i, state |-> "pending", ip |-> 0], pc' = "tag"
        PROVE  ProviderInv'
    <3>1. seen'.id = i /\ inst'[i] = "pending"
      BY <1>0, <2>3 DEF TypeInv, TypeOK, CloudTypeOK
    <3>2. stored.provider \notin {0, i} => inst'[stored.provider] = "gone"
      BY <1>0, <2>1 DEF SoleInv, Finding, ProviderInv, Exists
    <3>3. stored.provider # 0 => inst'[stored.provider] # "none"
      BY <1>0 DEF ProviderInv
    <3>4. local.provider # 0 => inst'[local.provider] # "none"
      BY <1>0 DEF ProviderInv
    <3>5. stored.provider \notin {0, local.provider} => inst'[stored.provider] = "gone"
      BY <1>0, <2>1 DEF ProviderInv
    <3>. QED BY <2>1, <2>3, <3>1, <3>2, <3>3, <3>4, <3>5 DEF ProviderInv
  <2>. QED BY <1>8, <2>2, <2>3 DEF CreateMachine, Ends
<1>9. CASE LookUpNetwork \/ LookUpSource \/ TagResource
  <2>1. local'.provider = local.provider
    BY <1>9 DEF LookUpNetwork, LookUpSource, LookUp, TagResource, Ends, TypeInv, TypeOK, ControllerTypeOK,
       ObjectType
  <2>. QED BY <1>2, <1>9, <2>1 DEF LookUpNetwork, LookUpSource, LookUp, TagResource, Ends, apiVars
<1>10. CASE RecordInstance
  <2>1. UNCHANGED <<stored, seen, inst>> /\ pc = "provider" /\ pc' \notin {"idle", "tag", "provider"}
    BY <1>10 DEF RecordInstance, Ends, apiVars, cloudVars, instVars
  <2>2. local'.provider \in {local.provider, seen.id}
    <3>1. Recorded \in ObjectType /\ Recorded.provider = seen.id
      BY Objects DEF Recorded, TypeInv, TypeOK, ControllerTypeOK, ObjectType
    <3>. QED BY <1>10, <3>1 DEF RecordInstance, Ends, ObjectType
  <2>. QED BY <2>1, <2>2 DEF ProviderInv
<1>11. CASE CheckPoolMemberExists \/ CreatePoolMember \/ GetLoadBalancer \/ BindPoolMember
  <2>1. local'.provider = local.provider
    BY <1>11 DEF CheckPoolMemberExists, CreatePoolMember, GetLoadBalancer, BindPoolMember, Ends, TypeInv,
       TypeOK, ControllerTypeOK, ObjectType
  <2>. QED BY <1>2, <1>11, <2>1 DEF CheckPoolMemberExists, CreatePoolMember, GetLoadBalancer, BindPoolMember,
           MemberExists, AfterMember, Ends, apiVars
<1>12. CASE GetVolumeAttachments \/ NewVolume \/ GetVolumeState \/ AttachVolume
  <2>1. UNCHANGED <<stored, seen, inst>> /\ pc # "idle" /\ pc' \notin {"idle", "tag", "provider"}
    BY <1>12 DEF GetVolumeAttachments, NewVolume, GetVolumeState, AttachVolume, AfterVolume, Ends, apiVars,
       cloudVars, instVars
  <2>2. local'.provider \in {local.provider, stored.provider}
    <3>1. ASSUME NEW o \in ObjectType, NEW w PROVE /\ MarkReady(o).provider = o.provider
                                            /\ [o EXCEPT !.volumes[at] = w].provider = o.provider
      BY DEF MarkReady, ObjectType
    <3>2. local \in ObjectType
      BY DEF TypeInv, TypeOK, ControllerTypeOK
    <3>3. ASSUME NEW w PROVE MarkReady([local EXCEPT !.volumes[at] = w]).provider = local.provider
      BY <3>2 DEF MarkReady, ObjectType
    <3>4. ASSUME NEW o \in ObjectType, NEW b, AfterVolume(o, b) PROVE local'.provider = o.provider
      BY <3>1, <3>4 DEF AfterVolume, Ends
    <3>5. ASSUME NEW w, NEW b, AfterVolume([local EXCEPT !.volumes[at] = w], b)
          PROVE  local'.provider = local.provider
      BY <3>1, <3>2, <3>3, <3>5 DEF AfterVolume, Ends
    <3>. QED BY <1>12, <3>1, <3>2, <3>4, <3>5
             DEF GetVolumeAttachments, NewVolume, GetVolumeState, AttachVolume, Ends
  <2>. QED BY <2>1, <2>2 DEF ProviderInv
<1>13. CASE DeletePoolMembers \/ DeletePoolMember \/ UnbindPoolMember \/ DeleteMachine
  <2>1. local'.provider = local.provider /\ stored' = stored /\ pc # "idle" /\ pc' \notin {"idle", "tag", "provider"}
    BY <1>13 DEF DeletePoolMembers, DeletePoolMember, UnbindPoolMember, DeleteMachine, Ends, Finalized,
       AfterDelete, apiVars, TypeInv, TypeOK, ControllerTypeOK, ObjectType
  <2>2. CASE UNCHANGED seen
    BY <1>2, <2>1, <2>2
  <2>3. CASE local.id \in FoundInstances /\ seen' = Read(local.id) /\ UNCHANGED inst
    <3>1. seen'.id = local.id /\ inst[local.id] # "none"
      BY <2>3 DEF Read, FoundInstances, Exists
    <3>. QED BY <2>1, <2>3, <3>1 DEF ProviderInv
  <2>. QED BY <1>13, <2>2, <2>3 DEF DeletePoolMembers, DeletePoolMember, UnbindPoolMember, DeleteMachine,
           cloudVars, instVars
<1>. QED BY <1>3, <1>4, <1>5, <1>6, <1>7, <1>8, <1>9, <1>10, <1>11, <1>12, <1>13
         DEF Next, Steps, NormalSteps, DeleteSteps

\* SetProviderID: a machine's provider ID moves to another instance only when the
\* one it named is gone, whatever fails, however many instances come and go, and
\* although the instance is found by its name and not by its ID.
THEOREM ProviderStays == Spec => ProviderOutlivesInstance
<1>1. Init => SoleInv /\ ProviderInv
  BY DEF Init, SoleInv, Exists, Finding, ProviderInv, Made, Outlived, NewObject, Nothing
<1>2. TypeInv /\ ProviderInv /\ [Next]_vars =>
        [stored.provider \notin {0, stored'.provider} => inst[stored.provider] = "gone"]_vars
  <2>. SUFFICES ASSUME TypeInv, ProviderInv, Next, stored.provider \notin {0, stored'.provider}
                PROVE  inst[stored.provider] = "gone"
    OBVIOUS
  <2>1. CASE Patch
    BY <2>1, PatchedFields DEF ProviderInv, Outlived, Patch
  <2>2. CASE EnsureFinalizer
    BY <2>2 DEF EnsureFinalizer, TypeInv, TypeOK, ApiTypeOK, ObjectType
  <2>. QED BY <2>1, <2>2, OnlyPatchesWrite
<1>. QED BY <1>1, <1>2, InitTypeInv, NextTypeInv, SoleStep, ProviderStep, PTL
         DEF Spec, ProviderOutlivesInstance

----------------------------------------------------------------------------
(* The pools.                                                              *)

\* What the members of the pools are after a change of one.
LEMMA MemberCalls ==
    ASSUME TypeInv
    PROVE  \A p \in Pools : \A ip \in 0..MaxInstances :
              /\ AddMember(p, ip) =>
                   \A q \in Pools : \A i \in 0..MaxInstances :
                      members'[q][i] = IF q = p /\ i = ip THEN "pending" ELSE members[q][i]
              /\ RemoveMember(p, ip) =>
                   \A q \in Pools : \A i \in 0..MaxInstances :
                      members'[q][i] = IF q = p /\ i = ip THEN "absent" ELSE members[q][i]
<1>1. members \in [Pools -> [0..MaxInstances -> {"absent", "pending", "active"}]]
  BY DEF TypeInv, TypeOK, CloudTypeOK
<1>2. ASSUME NEW p \in Pools, NEW ip \in 0..MaxInstances, NEW state,
             members' = [members EXCEPT ![p][ip] = state],
             NEW q \in Pools, NEW i \in 0..MaxInstances
      PROVE  members'[q][i] = IF q = p /\ i = ip THEN state ELSE members[q][i]
  <2>1. members' = [members EXCEPT ![p] = [members[p] EXCEPT ![ip] = state]]
    BY <1>2
  <2>. QED BY <1>1, <2>1
<1>. QED BY <1>2 DEF AddMember, RemoveMember

\* What the controller knows of the pool it is at.
LEMMA PoolFacts ==
    ASSUME TypeInv
    PROVE  /\ spec \in Specs /\ Len(spec.pools) \in 0..2 /\ at \in 1..2 /\ flag \in BOOLEAN
           /\ local.ip \in 0..MaxInstances /\ seen.ip \in 0..MaxInstances /\ "api" \in Pools
           /\ stored.id \in 0..MaxInstances /\ local.id \in 0..MaxInstances
           /\ \A k \in 1..Len(spec.pools) : spec.pools[k] \in Pools
           /\ pc \in {"member", "addMember", "deleteMember"} =>
                at \in 1..Len(spec.pools) /\ spec.pools[at] \in Pools
           /\ stored.members \subseteq Pools /\ stored.members \subseteq PoolsOfSpec
           /\ Instances = 1..MaxInstances /\ MaxInstances \in Nat
<1>1. spec \in Specs /\ at \in 1..2 /\ flag \in BOOLEAN /\ "api" \in Pools
  BY DEF TypeInv, TypeOK, ApiTypeOK, ControllerTypeOK, Slots, MaxSlots, Pools
<1>2. local.ip \in 0..MaxInstances /\ local.id \in 0..MaxInstances /\ stored.id \in 0..MaxInstances
      /\ stored.members \subseteq Pools
  BY DEF TypeInv, TypeOK, ApiTypeOK, ControllerTypeOK, ObjectType
<1>3. seen.ip \in 0..MaxInstances
  BY DEF TypeInv, TypeOK, ControllerTypeOK
<1>4. pc \in {"member", "addMember", "deleteMember"} => at <= Len(spec.pools)
  BY DEF TypeInv, TypeOK, ControllerTypeOK
<1>. QED BY <1>1, <1>2, <1>3, <1>4, SpecFacts, Bounds DEF Instances, TypeInv, ListInv

\* A new member is under the address the reconcile has read.
LEMMA AddressStep ==
    ASSUME TypeInv, AddressInv, [Next]_vars
    PROVE  AddressInv'
<1>. USE PoolFacts DEF AddressInv
<1>0. local \in ObjectType
  BY DEF TypeInv, TypeOK, ControllerTypeOK
<1>1. CASE /\ UNCHANGED <<addressed, members, seen>>
           /\ (pc' \in {"member", "addMember"} => pc \in {"member", "addMember"} /\ local' = local)
  BY <1>1
<1>2. CASE Cloud
  BY <1>2, CloudKeeps
<1>3. CASE SetOwner \/ SetDataSecretName \/ TogglePause \/ ReconcileReturns \/ UNCHANGED vars
  BY <1>1, <1>3, Quiet
<1>4. CASE DeleteObject \/ EnsureFinalizer \/ StartReconcile
  BY <1>1, <1>4 DEF DeleteObject, EnsureFinalizer, StartReconcile, cloudVars, instVars, poolVars, ctlVars
<1>5. CASE Patch \/ Crash
  BY <1>5 DEF Patch, Crash, Forget, Nothing, cloudVars, instVars, poolVars
<1>6. CASE EnsureInstanceUnique
  <2>1. UNCHANGED <<addressed, members>> /\ pc' \notin {"member", "addMember"}
        /\ (seen' = seen \/ \E i \in Instances : seen' = Read(i))
    BY <1>6 DEF EnsureInstanceUnique, FoundInstances, Ends, cloudVars, instVars, poolVars
  <2>. QED BY <2>1 DEF Read, Address
<1>7. CASE CreateMachine
  <2>1. UNCHANGED <<addressed, members>> /\ pc' \notin {"member", "addMember"}
        /\ (seen' = seen \/ seen'.ip = 0)
    BY <1>7 DEF CreateMachine, Ends, poolVars
  <2>. QED BY <2>1
<1>8. CASE LookUpNetwork \/ LookUpSource \/ TagResource \/ GetLoadBalancer
  BY <1>1, <1>8 DEF LookUpNetwork, LookUpSource, LookUp, TagResource, GetLoadBalancer, Ends, cloudVars,
     instVars, poolVars
<1>9. CASE RecordInstance
  <2>1. UNCHANGED <<addressed, members, seen>> /\ (pc' = "addMember" => FALSE)
        /\ (pc' = "member" => local' = Recorded)
    BY <1>9 DEF RecordInstance, Ends, cloudVars, instVars, poolVars
  <2>2. Recorded.ip = seen.ip
    BY <1>0 DEF Recorded, ObjectType
  <2>. QED BY <2>1, <2>2
<1>10. CASE CheckPoolMemberExists
  BY <1>1, <1>10 DEF CheckPoolMemberExists, MemberExists, AfterMember, cloudVars, instVars, poolVars
<1>11. CASE CreatePoolMember
  <2>1. UNCHANGED <<addressed, seen>> /\ local'.ip = local.ip /\ pc = "addMember"
    BY <1>0, <1>11 DEF CreatePoolMember, Ends, instVars, ObjectType
  <2>2. members' = members \/ AddMember(spec.pools[at], local.ip)
    BY <1>11 DEF CreatePoolMember, poolVars
  <2>. QED BY <2>1, <2>2, MemberCalls
<1>12. CASE BindPoolMember
  <2>1. UNCHANGED <<addressed, seen>> /\ pc' = "patch"
    BY <1>12 DEF BindPoolMember, instVars
  <2>2. members' = members \/ AddMember("api", seen.ip)
    BY <1>12 DEF BindPoolMember, poolVars
  <2>. QED BY <2>1, <2>2, MemberCalls
<1>13. CASE GetVolumeAttachments \/ NewVolume \/ GetVolumeState \/ AttachVolume
  BY <1>1, <1>13 DEF GetVolumeAttachments, NewVolume, GetVolumeState, AttachVolume, AfterVolume, Ends,
     cloudVars, instVars, poolVars
<1>14. CASE DeletePoolMembers
  <2>1. UNCHANGED <<addressed, members>> /\ pc' \notin {"member", "addMember"}
        /\ (seen' = seen \/ \E i \in Instances : seen' = Read(i))
    BY <1>14 DEF DeletePoolMembers, FoundInstances, cloudVars, instVars, poolVars
  <2>. QED BY <2>1 DEF Read, Address
<1>15. CASE DeletePoolMember \/ UnbindPoolMember \/ DeleteMachine
  <2>1. UNCHANGED <<addressed, seen>> /\ pc' \notin {"member", "addMember"}
        /\ (members' = members \/ \E p \in Pools : RemoveMember(p, seen.ip))
    BY <1>15 DEF DeletePoolMember, UnbindPoolMember, DeleteMachine, AfterDelete, Ends, instVars, poolVars
  <2>. QED BY <2>1, MemberCalls
<1>. QED BY <1>2, <1>3, <1>4, <1>5, <1>6, <1>7, <1>8, <1>9, <1>10, <1>11, <1>12, <1>13, <1>14, <1>15
         DEF Next, Steps, NormalSteps, DeleteSteps

\* reconcileNormal leaves the finalizer alone.
LEMMA NormalKeeps ==
    ASSUME TypeInv, FinalizerInv, NormalSteps
    PROVE  UNCHANGED <<stored, phase, spec>> /\ pc \in Normal /\ pc' \in Normal \cup {"patch"} /\ local'.finalizer
<1>. USE DEF FinalizerInv, Normal, Finding
<1>0. local \in ObjectType /\ stored \in ObjectType
  BY DEF TypeInv, TypeOK, ControllerTypeOK, ApiTypeOK
<1>1. CASE /\ UNCHANGED <<stored, phase, spec>>
           /\ pc \in Normal /\ pc' \in Normal \cup {"patch"} /\ local'.finalizer
  BY <1>1
<1>2. CASE EnsureInstanceUnique \/ LookUpNetwork \/ LookUpSource \/ CreateMachine \/ TagResource
  BY <1>0, <1>1, <1>2 DEF EnsureInstanceUnique, LookUpNetwork, LookUpSource, LookUp, CreateMachine,
     TagResource, Ends, apiVars, ObjectType
<1>3. CASE RecordInstance
  <2>1. Recorded.finalizer = local.finalizer /\ Recorded \in ObjectType
    BY <1>0, Objects DEF Recorded, ObjectType, TypeInv
  <2>. QED BY <1>1, <1>3, <2>1 DEF RecordInstance, Ends, apiVars, ObjectType
<1>4. CASE CheckPoolMemberExists \/ CreatePoolMember \/ GetLoadBalancer \/ BindPoolMember
  BY <1>0, <1>1, <1>4 DEF CheckPoolMemberExists, CreatePoolMember, GetLoadBalancer, BindPoolMember,
     MemberExists, AfterMember, Ends, apiVars, ObjectType
<1>5. CASE GetVolumeAttachments \/ NewVolume \/ GetVolumeState \/ AttachVolume
  <2>1. UNCHANGED <<stored, phase, spec>> /\ pc \in Normal /\ pc' \in Normal \cup {"patch"} /\ stored.finalizer
    BY <1>0, <1>5 DEF GetVolumeAttachments, NewVolume, GetVolumeState, AttachVolume, AfterVolume, Ends,
       apiVars
  <2>2. local'.finalizer
    <3>1. ASSUME NEW o \in ObjectType PROVE MarkReady(o).finalizer = o.finalizer
      BY DEF MarkReady, ObjectType
    <3>2. ASSUME NEW w PROVE /\ [local EXCEPT !.volumes[at] = w].finalizer = local.finalizer
                             /\ MarkReady([local EXCEPT !.volumes[at] = w]).finalizer = local.finalizer
      BY <1>0 DEF MarkReady, ObjectType
    <3>3. ASSUME NEW b, AfterVolume(local, b) PROVE local'.finalizer
      BY <1>0, <2>1, <3>1, <3>3 DEF AfterVolume, Ends
    <3>4. ASSUME NEW w, NEW b, AfterVolume([local EXCEPT !.volumes[at] = w], b) PROVE local'.finalizer
      BY <2>1, <3>2, <3>4 DEF AfterVolume, Ends
    <3>. QED BY <1>0, <1>5, <2>1, <3>1, <3>3, <3>4
             DEF GetVolumeAttachments, NewVolume, GetVolumeState, AttachVolume, Ends
  <2>. QED BY <1>1, <2>1, <2>2
<1>. QED BY <1>2, <1>3, <1>4, <1>5 DEF NormalSteps

\* The object loses its finalizer only at the end of its deletion.
LEMMA FinalizerStep ==
    ASSUME TypeInv, FinalizerInv, [Next]_vars
    PROVE  FinalizerInv'
<1>. USE DEF FinalizerInv, Normal, Deletion, Finding
<1>0. local \in ObjectType /\ stored \in ObjectType /\ NewObject.finalizer = FALSE
      /\ phase \in {"live", "deleting", "gone"}
  BY DEF TypeInv, TypeOK, ControllerTypeOK, ApiTypeOK, NewObject
<1>1. CASE /\ UNCHANGED <<stored, phase>>
           /\ pc \in Normal /\ pc' \in Normal \cup {"patch"} /\ local'.finalizer
  BY <1>1
<1>2. CASE Cloud \/ SetOwner \/ SetDataSecretName \/ TogglePause \/ ReconcileReturns \/ UNCHANGED vars
  BY <1>2, Quiet, CloudKeeps
<1>3. CASE DeleteObject
  BY <1>0, <1>3 DEF DeleteObject, ctlVars
<1>4. CASE EnsureFinalizer
  BY <1>0, <1>4 DEF EnsureFinalizer, ctlVars, ObjectType
<1>5. CASE StartReconcile
  BY <1>0, <1>5 DEF StartReconcile, apiVars
<1>6. CASE Patch
  <2>1. stored'.finalizer \in {stored.finalizer, local.finalizer} /\ pc' = "idle" /\ pc = "patch"
    BY <1>6, PatchedFields DEF Patch, Forget
  <2>2. stored'.finalizer \/ phase' = "gone"
    BY <1>0, <1>6, <2>1 DEF Patch
  <2>3. phase' \in {phase, "gone"}
    BY <1>6 DEF Patch
  <2>. QED BY <2>1, <2>2, <2>3
<1>7. CASE Crash
  BY <1>7 DEF Crash, Forget, apiVars
<1>8. CASE NormalSteps
  BY <1>1, <1>8, NormalKeeps
<1>9. CASE DeletePoolMembers \/ DeletePoolMember \/ UnbindPoolMember
  BY <1>9 DEF DeletePoolMembers, DeletePoolMember, UnbindPoolMember, AfterDelete, apiVars
<1>10. CASE DeleteMachine
  BY <1>0, <1>10 DEF DeleteMachine, Ends, Finalized, apiVars
<1>. QED BY <1>2, <1>3, <1>4, <1>5, <1>6, <1>7, <1>8, <1>9, <1>10
         DEF Next, Steps, DeleteSteps

\* A reconcile marks a machine ready after it has seen all its members active.
LEMMA ServeStep ==
    ASSUME TypeInv, AddressInv, FinalizerInv, ServeInv, [Next]_vars
    PROVE  ServeInv'
<1>. USE PoolFacts
<1>0. local \in ObjectType /\ spec' = spec
  BY DEF TypeInv, TypeOK, ControllerTypeOK, Next, Cloud, Steps, NormalSteps, DeleteSteps, InstanceProgress,
     AssignAddress, InstanceDisturbed, StartInstance, LBProgress, VolumeProgress, SetOwner,
     SetDataSecretName, TogglePause, DeleteObject, ReconcileReturns, EnsureFinalizer, StartReconcile,
     Crash, Patch, EnsureInstanceUnique, LookUpNetwork, LookUpSource, LookUp, CreateMachine, TagResource,
     RecordInstance, CheckPoolMemberExists, CreatePoolMember, GetLoadBalancer, BindPoolMember,
     GetVolumeAttachments, NewVolume, GetVolumeState, AttachVolume, DeletePoolMembers,
     DeletePoolMember, UnbindPoolMember, DeleteMachine, apiVars, vars
\* Steps in which the machine gets no more ready and which come to no pool.
<1>1. CASE /\ pc' \notin {"loadBalancer", "bind", "member", "addMember", "volumes", "volume", "attach"}
           /\ pc' # "idle" /\ local'.ready => stored'.ready
  BY <1>1 DEF ServeInv
<1>2. CASE Cloud
  <2>1. UNCHANGED <<seen, spec>>
        /\ \A p \in Pools : \A i \in 0..MaxInstances :
             /\ members'[p][i] = "absent" <=> members[p][i] = "absent"
             /\ members[p][i] = "active" => members'[p][i] = "active"
    BY <1>2, CloudKeeps
  <2>2. \A k \in 1..Len(spec.pools) : Active(k) => Active(k)'
    <3>1. SUFFICES ASSUME NEW k \in 1..Len(spec.pools), Active(k) PROVE Active(k)'
      OBVIOUS
    <3>2. PICK p \in Pools : p = spec.pools[k]
      OBVIOUS
    <3>3. PICK i \in 0..MaxInstances : i = seen.ip
      OBVIOUS
    <3>4. members[p][i] = "active"
      BY <3>1, <3>2, <3>3 DEF Active
    <3>5. members'[p][i] = "active"
      BY <2>1, <3>4
    <3>. QED BY <2>1, <3>2, <3>3, <3>5 DEF Active
  <2>3. Serves => Serves'
    <3>1. CASE spec.pools = <<>>
      <4>1. members'["api"][seen.ip] = "absent" <=> members["api"][seen.ip] = "absent"
        BY <2>1
      <4>. QED BY <2>1, <3>1, <4>1 DEF Serves
    <3>2. CASE spec.pools # <<>>
      BY <2>1, <2>2, <3>2 DEF Serves
    <3>. QED BY <3>1, <3>2
  <2>4. UNCHANGED <<stored, local, at, flag, pc>>
    BY <1>2, CloudKeeps
  <2>5. pc \in {"member", "addMember"} => \A k \in 1..(at - 1) : k \in 1..Len(spec.pools)
    OBVIOUS
  <2>. QED BY <1>0, <2>2, <2>3, <2>4, <2>5 DEF ServeInv
<1>3. CASE UNCHANGED <<members, stored, local, seen, at, flag, pc>>
  BY <1>0, <1>3 DEF ServeInv, Serves, Active
<1>4. CASE SetOwner \/ SetDataSecretName \/ TogglePause \/ ReconcileReturns \/ UNCHANGED vars
  BY <1>3, <1>4, Quiet
<1>5. CASE DeleteObject
  BY <1>3, <1>5 DEF DeleteObject, cloudVars, poolVars, ctlVars
<1>6. CASE EnsureFinalizer
  BY <1>6 DEF EnsureFinalizer, ServeInv, ctlVars
<1>7. CASE StartReconcile
  BY <1>1, <1>7 DEF StartReconcile, apiVars
<1>8. CASE Patch \/ Crash
  BY <1>1, <1>8 DEF Patch, Crash, Forget
<1>9. CASE EnsureInstanceUnique \/ LookUpNetwork \/ LookUpSource \/ CreateMachine
  BY <1>1, <1>9 DEF EnsureInstanceUnique, LookUpNetwork, LookUpSource, LookUp, CreateMachine, Ends, apiVars,
     ServeInv
<1>10. CASE TagResource
  <2>1. local'.ready = local.ready
    BY <1>0, <1>10 DEF TagResource, Ends, ObjectType
  <2>. QED BY <1>1, <1>10, <2>1 DEF TagResource, Ends, apiVars, ServeInv
<1>11. CASE RecordInstance
  <2>1. Recorded \in ObjectType /\ Recorded.ready = local.ready
    BY <1>0, Objects DEF Recorded, ObjectType, TypeInv
  <2>2. local'.ready => local.ready
    BY <1>0, <1>11, <2>1 DEF RecordInstance, Ends, ObjectType
  <2>3. stored' = stored /\ pc = "provider" /\ at' = 1
        /\ \/ pc' = "patch"
           \/ pc' = "member" /\ spec.pools # <<>>
           \/ pc' = "loadBalancer" /\ spec.pools = <<>>
           \/ pc' = "volumes" /\ spec.pools = <<>> /\ ~spec.controlPlane
    BY <1>11 DEF RecordInstance, Ends, apiVars, TypeInv, ListInv, InList
  <2>. QED BY <1>0, <2>2, <2>3 DEF ServeInv, Serves
\* What follows a member: the loop goes on, or all members are active.
<1>12. ASSUME NEW b \in BOOLEAN, AfterMember(b), pc \in {"member", "addMember"},
              stored' = stored, seen' = seen, local'.ready = local.ready,
              b \/ (members' = members /\ Active(at))
       PROVE  ServeInv'
  <2>1. CASE flag'
    BY <1>12, <2>1 DEF AfterMember, ServeInv
  <2>2. CASE ~flag'
    <3>1. ~flag /\ ~b /\ members' = members /\ Active(at)
      BY <1>12, <2>2 DEF AfterMember
    <3>2. \A k \in 1..at : Active(k)
      BY <1>12, <3>1 DEF ServeInv
    <3>3. \A k \in 1..at : Active(k)'
      BY <1>0, <1>12, <3>1, <3>2 DEF Active
    <3>4. CASE at < Len(spec.pools)
      <4>1. at' = at + 1 /\ pc' = "member"
        BY <1>12, <3>4 DEF AfterMember
      <4>. QED BY <1>12, <3>3, <4>1 DEF ServeInv
    <3>5. CASE ~(at < Len(spec.pools))
      <4>1. pc' = "volumes"
        BY <1>12, <2>2, <3>5 DEF AfterMember
      <4>2. Serves'
        BY <1>0, <1>12, <3>3, <3>5 DEF Serves
      <4>. QED BY <1>12, <4>1, <4>2 DEF ServeInv
    <3>. QED BY <3>4, <3>5
  <2>. QED BY <2>1, <2>2
<1>13. CASE CheckPoolMemberExists
  <2>1. UNCHANGED <<members, stored, local, seen>> /\ pc = "member"
    BY <1>13 DEF CheckPoolMemberExists, cloudVars, poolVars, apiVars
  <2>2. CASE MemberExists(spec.pools[at])
    <3>1. AfterMember(members[spec.pools[at]][local.ip] # "active")
      BY <2>2 DEF MemberExists
    <3>2. local.ip = seen.ip
      BY <2>1 DEF AddressInv
    <3>. QED BY <1>12, <2>1, <3>1, <3>2 DEF Active
  <2>3. CASE pc' = "patch"
    BY <1>1, <2>1, <2>3 DEF ServeInv
  <2>4. CASE pc' = "addMember" /\ UNCHANGED <<at, flag>>
    BY <1>0, <2>1, <2>4 DEF ServeInv, Active
  <2>. QED BY <1>13, <2>2, <2>3, <2>4 DEF CheckPoolMemberExists
<1>14. CASE CreatePoolMember
  <2>1. UNCHANGED <<stored, seen>> /\ pc = "addMember" /\ local'.ready = local.ready
    BY <1>0, <1>14 DEF CreatePoolMember, Ends, apiVars, ObjectType
  <2>. QED BY <1>1, <1>12, <1>14, <2>1 DEF CreatePoolMember, Ends, ServeInv
<1>15. CASE GetLoadBalancer
  <2>1. UNCHANGED <<members, stored, local, seen>> /\ pc = "loadBalancer"
        /\ \/ pc' \in {"patch", "bind"}
           \/ pc' = "volumes" /\ seen.ip # 0 /\ members["api"][seen.ip] # "absent"
    BY <1>15 DEF GetLoadBalancer, cloudVars, poolVars, apiVars
  <2>. QED BY <1>0, <2>1 DEF ServeInv, Serves
<1>16. CASE BindPoolMember
  BY <1>1, <1>16 DEF BindPoolMember, ServeInv, apiVars
<1>17. CASE GetVolumeAttachments \/ NewVolume \/ GetVolumeState \/ AttachVolume
  <2>1. UNCHANGED <<members, stored, seen>> /\ pc \in {"volumes", "volume", "attach"}
        /\ pc' \in {"volume", "attach", "patch"}
    BY <1>17 DEF GetVolumeAttachments, NewVolume, GetVolumeState, AttachVolume, AfterVolume, Ends, cloudVars,
       poolVars, apiVars
  <2>2. Serves /\ Serves'
    BY <1>0, <2>1 DEF ServeInv, Serves, Active
  <2>3. pc' # "patch" => (local'.ready => stored.ready)
    <3>1. \A w : [local EXCEPT !.volumes[at] = w].ready = local.ready
      BY <1>0 DEF ObjectType
    <3>2. ASSUME pc' # "patch"
          PROVE  local' \in {local, stored} \/ \E w \in Volumes : local' = [local EXCEPT !.volumes[at] = w]
      BY <1>17, <3>2 DEF GetVolumeAttachments, NewVolume, GetVolumeState, AttachVolume, AfterVolume, Ends
    <3>. QED BY <2>1, <3>1, <3>2 DEF ServeInv
  <2>. QED BY <2>1, <2>2, <2>3 DEF ServeInv
<1>18. CASE DeletePoolMembers \/ DeletePoolMember \/ UnbindPoolMember \/ DeleteMachine
  <2>1. local'.ready = local.ready /\ stored' = stored /\ local = stored /\ pc' \in Deletion \cup {"patch"}
    BY <1>0, <1>18 DEF DeletePoolMembers, DeletePoolMember, UnbindPoolMember, DeleteMachine, Ends, Finalized,
       AfterDelete, apiVars, ObjectType, FinalizerInv, Deletion
  <2>. QED BY <1>1, <2>1 DEF Deletion
<1>. QED BY <1>2, <1>4, <1>5, <1>6, <1>7, <1>8, <1>9, <1>10, <1>11, <1>13, <1>14, <1>15, <1>16, <1>17, <1>18
         DEF Next, Steps, NormalSteps, DeleteSteps

\* ReconcileVPCLoadBalancerPoolMember: a reconcile marks a machine that has its
\* address ready only when it is active under it in every pool of the spec, and a
\* control plane machine without pools only with its address bound to the load
\* balancer of the cluster, although members come up behind the controller's back
\* and each of its calls may fail or take effect unseen.
THEOREM ReadyMachinesServe == Spec => []ServesBeforeReady
<1>1. Init => AddressInv /\ FinalizerInv /\ ServeInv
  BY DEF Init, AddressInv, FinalizerInv, ServeInv, Nothing, NewObject, Normal, Deletion, Finding, Instances
<1>2. ServeInv => ServesBeforeReady
  BY DEF ServeInv, ServesBeforeReady, BecomesReady, Serves, Active
<1>. QED BY <1>1, <1>2, InitTypeInv, NextTypeInv, AddressStep, FinalizerStep, ServeStep, PTL DEF Spec

\* The finalizer goes after the instance, and the instance after its members.
LEMMA LeftStep ==
    ASSUME TypeInv, AddressInv, FinalizerInv, LeftInv, [Next]_vars
    PROVE  LeftInv'
<1>. USE PoolFacts
<1>0. /\ local \in ObjectType /\ stored \in ObjectType
      /\ members \in [Pools -> [0..MaxInstances -> {"absent", "pending", "active"}]]
      /\ pc # "idle" => stored.finalizer /\ phase # "gone"
  BY DEF TypeInv, TypeOK, ControllerTypeOK, ApiTypeOK, CloudTypeOK, FinalizerInv
\* A reconcile that ends without having dropped the finalizer.
<1>1. CASE pc' \notin Deletion /\ phase' # "gone" /\ (pc' = "patch" => local'.finalizer)
  BY <1>1 DEF LeftInv, Deletion
<1>2. ASSUME UNCHANGED <<stored, spec>>,
             \A p \in Pools : \A i \in 0..MaxInstances : Released(p, i) => Released(p, i)'
      PROVE  Left => Left'
  <2>1. stored.id # 0 => stored.id \in Instances
    OBVIOUS
  <2>. QED BY <1>2, <2>1, InstanceKeeps DEF Left, RecordedPools
<1>3. CASE /\ UNCHANGED <<stored, spec, phase, local, seen, at, flag, pc>>
           /\ \A p \in Pools : \A i \in 0..MaxInstances : Released(p, i) => Released(p, i)'
  <2>1. pc = "deleteMember" => \A k \in 1..(at - 1) : k \in 1..Len(spec.pools)
    OBVIOUS
  <2>2. Left => Left'
    BY <1>2, <1>3
  <2>3. RecordedPools' = RecordedPools /\ RecordedPools \subseteq Pools
    BY <1>3 DEF RecordedPools
  <2>. QED BY <1>3, <2>1, <2>2, <2>3 DEF LeftInv
<1>4. CASE Cloud
  BY <1>3, <1>4, CloudKeeps DEF Released
<1>5. CASE SetOwner \/ SetDataSecretName \/ TogglePause \/ ReconcileReturns \/ UNCHANGED vars
  BY <1>3, <1>5, Quiet DEF Released
<1>6. CASE DeleteObject
  <2>1. UNCHANGED <<stored, spec, local, seen, at, flag, pc, members, inst>>
        /\ phase' = (IF stored.finalizer THEN "deleting" ELSE "gone") /\ phase = "live"
    BY <1>6 DEF DeleteObject, cloudVars, instVars, poolVars, ctlVars
  <2>2. CASE stored.finalizer
    BY <2>1, <2>2 DEF LeftInv, Left, Released, RecordedPools
  <2>3. CASE ~stored.finalizer
    <3>1. pc = "idle" /\ stored.id = 0
      BY <2>1, <2>3 DEF FinalizerInv, NewObject
    <3>. QED BY <2>1, <3>1 DEF LeftInv, Left
  <2>. QED BY <2>2, <2>3
<1>7. CASE EnsureFinalizer
  BY <1>7 DEF EnsureFinalizer, LeftInv, ctlVars
<1>8. CASE StartReconcile
  <2>1. UNCHANGED <<stored, spec, phase>> /\ local' = stored /\ stored.finalizer /\ phase # "gone"
        /\ \/ pc' \in {"find", "patch", "deleteMembers"}
           \/ pc' = "deleteInstance" /\ ~(spec.controlPlane /\ stored.id # 0)
    BY <1>8 DEF StartReconcile, apiVars, TypeInv, TypeOK, ApiTypeOK
  <2>. QED BY <2>1 DEF LeftInv
<1>9. CASE Patch
  <2>1. pc = "patch" /\ pc' = "idle" /\ UNCHANGED <<cloudVars, spec>>
        /\ stored'.id \in {stored.id, local.id} /\ stored'.members \in {stored.members, local.members}
        /\ stored'.finalizer \in {stored.finalizer, local.finalizer}
    BY <1>9, PatchedFields DEF Patch, Forget
  <2>2. phase' = "gone" => ~stored'.finalizer
    BY <1>0, <1>9, <2>1 DEF Patch
  <2>3. ASSUME phase' = "gone" PROVE Left'
    <3>1. local = [stored EXCEPT !.finalizer = FALSE] /\ Left
      BY <1>0, <2>1, <2>2, <2>3 DEF FinalizerInv, LeftInv
    <3>2. local.id = stored.id /\ local.members = stored.members
      BY <1>0, <3>1 DEF ObjectType
    <3>. QED BY <2>1, <3>1, <3>2 DEF Left, RecordedPools, Released, cloudVars, instVars, poolVars
  <2>. QED BY <2>1, <2>3 DEF LeftInv
<1>10. CASE Crash
  BY <1>0, <1>1, <1>10 DEF Crash, Forget, apiVars, Deletion
<1>11. CASE NormalSteps
  BY <1>0, <1>1, <1>11, NormalKeeps DEF Normal, Deletion, Finding
<1>12. ASSUME DeleteSteps PROVE local = stored /\ UNCHANGED <<stored, spec, phase>> /\ stored.finalizer
  BY <1>0, <1>12 DEF DeleteSteps, DeletePoolMembers, DeletePoolMember, UnbindPoolMember, DeleteMachine,
     FinalizerInv, Deletion, apiVars
<1>13. CASE DeletePoolMembers
  <2>0. local = stored /\ UNCHANGED <<stored, spec, phase>> /\ stored.finalizer
    BY <1>12, <1>13 DEF DeleteSteps
  <2>1. UNCHANGED <<members, local, at, flag, inst>> /\ pc = "deleteMembers" /\ at = 1
    BY <1>13 DEF DeletePoolMembers, cloudVars, instVars, poolVars, TypeInv, ListInv, InList
  <2>2. CASE pc' = "patch"
    BY <1>0, <1>1, <2>0, <2>1, <2>2 DEF Deletion
  <2>3. CASE /\ stored.id \in Instances /\ seen' = Read(stored.id)
             /\ \/ pc' = "deleteMember" /\ stored.members # {}
                \/ pc' = "unbind" /\ stored.members = {}
                \/ pc' = "deleteInstance" /\ stored.members = {} /\ Released("api", seen'.ip)
    <3>1. seen'.ip = stored.id \/ \A p \in Pools : Released(p, stored.id)
      BY <2>3 DEF Read, Address, AddressInv, Released
    <3>2. pc' = "deleteInstance" => \A p \in RecordedPools : Released(p, stored.id)
      BY <2>3, <3>1 DEF RecordedPools
    <3>. QED BY <1>0, <2>0, <2>1, <2>3, <3>1, <3>2 DEF LeftInv, Released, RecordedPools
  <2>. QED BY <1>13, <2>0, <2>2, <2>3 DEF DeletePoolMembers, FoundInstances, Released
\* Members only go.
<1>14. ASSUME NEW p \in Pools, members' = members \/ RemoveMember(p, seen.ip)
       PROVE  /\ \A q \in Pools : \A i \in 0..MaxInstances : Released(q, i) => members'[q][i] = "absent"
              /\ RemoveMember(p, seen.ip) => members'[p][seen.ip] = "absent"
  <2>1. seen.ip \in 0..MaxInstances
    OBVIOUS
  <2>. QED BY <1>14, <2>1, MemberCalls DEF Released
<1>15. CASE DeletePoolMember
  <2>0. local = stored /\ UNCHANGED <<stored, spec, phase>> /\ stored.finalizer
    BY <1>12, <1>15 DEF DeleteSteps
  <2>01. PICK p \in Pools : p = spec.pools[at]
    BY <1>15 DEF DeletePoolMember
  <2>1. UNCHANGED <<local, seen, inst>> /\ pc = "deleteMember" /\ at \in 1..Len(spec.pools)
        /\ \/ pc' = "patch"
           \/ RemoveMember(p, seen.ip) /\ AfterDelete(FALSE)
           \/ members' = members /\ AfterDelete(p \in stored.members /\ ~Released(p, seen.ip))
    BY <1>15, <2>0, <2>01 DEF DeletePoolMember, poolVars, instVars, Released
  <2>2. CASE pc' = "patch"
    BY <1>0, <1>1, <2>0, <2>1, <2>2 DEF Deletion
  <2>3. ASSUME NEW b \in BOOLEAN, AfterDelete(b), members' = members \/ RemoveMember(p, seen.ip),
               ~b => (p \in stored.members => members'[p][seen.ip] = "absent")
        PROVE  LeftInv'
    <3>1. \A q \in Pools : \A i \in 0..MaxInstances : Released(q, i) => members'[q][i] = "absent"
      BY <1>14, <2>3
    <3>2. seen.ip = stored.id \/ \A q \in Pools : members'[q][stored.id] = "absent"
      BY <2>1, <3>1 DEF LeftInv
    <3>3. stored.members # {}
      BY <2>1 DEF LeftInv
    <3>4. ~flag' => \A k \in 1..at :
                       spec.pools[k] \in stored.members => members'[spec.pools[k]][stored.id] = "absent"
      <4>. SUFFICES ASSUME ~flag', NEW k \in 1..at, spec.pools[k] \in stored.members
                    PROVE  members'[spec.pools[k]][stored.id] = "absent"
        OBVIOUS
      <4>1. ~flag /\ ~b /\ spec.pools[k] \in Pools
        BY <2>1, <2>3 DEF AfterDelete
      <4>2. CASE k = at
        BY <2>01, <2>3, <3>2, <4>1, <4>2
      <4>3. CASE k \in 1..(at - 1)
        BY <2>1, <3>1, <4>1, <4>3 DEF LeftInv
      <4>. QED BY <2>1, <4>2, <4>3
    <3>5. CASE at < Len(spec.pools)
      <4>1. at' = at + 1 /\ pc' = "deleteMember"
        BY <2>3, <3>5 DEF AfterDelete
      <4>2. at' - 1 = at
        BY <4>1
      <4>3. ~flag' => \A k \in 1..(at' - 1) :
                         spec.pools[k] \in stored.members => members'[spec.pools[k]][stored.id] = "absent"
        BY <3>4, <4>2
      <4>. QED BY <1>0, <2>0, <2>1, <3>2, <3>3, <4>1, <4>3 DEF LeftInv, Released
    <3>6. CASE ~(at < Len(spec.pools))
      <4>1. at = Len(spec.pools) /\ pc' \in {"patch", "deleteInstance"} /\ (pc' = "deleteInstance" => ~flag')
        BY <2>1, <2>3, <3>6 DEF AfterDelete
      <4>2. pc' = "deleteInstance" => \A q \in stored.members : members'[q][stored.id] = "absent"
        <5>. SUFFICES ASSUME ~flag', NEW q \in stored.members PROVE members'[q][stored.id] = "absent"
          BY <4>1
        <5>1. q \in PoolsOfSpec
          OBVIOUS
        <5>2. PICK k \in 1..Len(spec.pools) : q = spec.pools[k]
          BY <5>1 DEF PoolsOfSpec
        <5>. QED BY <3>4, <4>1, <5>2
      <4>. QED BY <1>0, <2>0, <2>1, <3>3, <4>1, <4>2 DEF LeftInv, Released, RecordedPools
    <3>. QED BY <3>5, <3>6
  <2>4. members' = members /\ Released(p, seen.ip) => members'[p][seen.ip] = "absent"
    BY DEF Released
  <2>5. RemoveMember(p, seen.ip) => members'[p][seen.ip] = "absent"
    BY <1>14
  <2>. QED BY <2>1, <2>2, <2>3, <2>4, <2>5
<1>16. CASE UnbindPoolMember
  <2>0. local = stored /\ UNCHANGED <<stored, spec, phase>> /\ stored.finalizer
    BY <1>12, <1>16 DEF DeleteSteps
  <2>1. UNCHANGED <<local, seen, inst>> /\ pc = "unbind"
        /\ (pc' = "patch" \/ (RemoveMember("api", seen.ip) /\ pc' = "deleteInstance"))
    BY <1>16 DEF UnbindPoolMember, instVars
  <2>2. CASE pc' = "patch"
    BY <1>0, <1>1, <2>0, <2>1, <2>2 DEF Deletion
  <2>3. CASE RemoveMember("api", seen.ip) /\ pc' = "deleteInstance"
    <3>1. members'["api"][seen.ip] = "absent"
      BY <1>14, <2>3
    <3>2. members'["api"][stored.id] = "absent"
      BY <1>14, <2>1, <2>3, <3>1 DEF LeftInv
    <3>3. stored.members = {}
      BY <2>1 DEF LeftInv
    <3>. QED BY <1>0, <2>0, <2>1, <2>3, <3>2, <3>3 DEF LeftInv, RecordedPools, Released
  <2>. QED BY <2>1, <2>2, <2>3
<1>17. CASE DeleteMachine
  <2>0. local = stored /\ UNCHANGED <<stored, spec, phase>> /\ stored.finalizer
    BY <1>12, <1>17 DEF DeleteSteps
  <2>1. members' = members /\ pc = "deleteInstance" /\ pc' = "patch"
        /\ \/ local' = local
           \/ stored.id = 0
           \/ stored.id \in Instances /\ inst' = [inst EXCEPT ![stored.id] = "deleting"]
    BY <1>17, <2>0 DEF DeleteMachine, FoundInstances, poolVars, Ends
  <2>2. local' = local => local'.finalizer
    BY <2>0
  <2>3. stored.id \in Instances /\ inst' = [inst EXCEPT ![stored.id] = "deleting"] =>
          inst'[stored.id] = "deleting"
    BY DEF TypeInv, TypeOK, CloudTypeOK
  <2>4. local' = local \/ Left'
    BY <2>0, <2>1, <2>3 DEF LeftInv, Left, RecordedPools, Released
  <2>. QED BY <1>0, <2>0, <2>1, <2>2, <2>4 DEF LeftInv
<1>. QED BY <1>4, <1>5, <1>6, <1>7, <1>8, <1>9, <1>10, <1>11, <1>13, <1>15, <1>16, <1>17
         DEF Next, Steps, DeleteSteps

\* DeleteMachine: an object goes away only when its instance is going, and for a
\* control plane machine only when the pools in its status have let go of the
\* address, whatever fails or takes effect unseen, and for load balancers that
\* refuse changes for as long as they like.
THEOREM NothingIsLeftBehind == Spec => []NothingRecordedLeft
<1>1. Init => AddressInv /\ FinalizerInv /\ LeftInv
  BY DEF Init, AddressInv, FinalizerInv, LeftInv, Nothing, NewObject, Normal, Deletion, Finding, Instances
<1>2. LeftInv => NothingRecordedLeft
  BY DEF LeftInv, Left, NothingRecordedLeft, Released
<1>. QED BY <1>1, <1>2, InitTypeInv, NextTypeInv, AddressStep, FinalizerStep, LeftStep, PTL DEF Spec
=============================================================================
