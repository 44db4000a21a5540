------------------------- MODULE PowerVSClusterProofs -----------------------
(***************************************************************************)
(* Theorems about PowerVSCluster, for every value of its constants: type   *)
(* correctness, the safety of what the user only refers to and of the      *)
(* reported conditions, and that it implements ClusterContract.            *)
(***************************************************************************)
EXTENDS PowerVSCluster, TLAPS

----------------------------------------------------------------------------
(***************************************************************************)
(* Part 1: type correctness.                                               *)
(***************************************************************************)

----------------------------------------------------------------------------
(* Facts about the resources, the records and the fault counter.           *)

\* Every resource the code names is one of the cluster's resources.
LEMMA ResourceNames ==
    /\ "resourceGroup" \in Res /\ "workspace" \in Res /\ "network" \in Res
    /\ "vpc" \in Res /\ "tg" \in Res /\ "vpcConn" \in Res /\ "pvsConn" \in Res
    /\ "cos" \in Res
    /\ SubnetSet \subseteq Res /\ SecurityGroupSet \subseteq Res
    /\ LoadBalancerSet \subseteq Res
    /\ \A i \in DOMAIN Subnets : Subnets[i] \in SubnetSet
    /\ \A i \in DOMAIN SecurityGroups : SecurityGroups[i] \in SecurityGroupSet
    /\ \A i \in DOMAIN LoadBalancers : LoadBalancers[i] \in LoadBalancerSet
BY DEF Res, Singletons, SubnetSet, SecurityGroupSet, LoadBalancerSet, Elems

\* Every condition the code sets is one of the object's conditions.
LEMMA ConditionNames ==
    /\ ConditionTypes \subseteq Conditions
    /\ "WorkspaceReady" \in ConditionTypes /\ "NetworkReady" \in ConditionTypes
    /\ "VPCReady" \in ConditionTypes /\ "VPCSubnetReady" \in ConditionTypes
    /\ "VPCSecurityGroupReady" \in ConditionTypes
    /\ "VPCLoadBalancerReady" \in ConditionTypes
    /\ "TransitGatewayReady" \in ConditionTypes
    /\ "COSInstanceReady" \in ConditionTypes
BY DEF Conditions, ConditionTypes

\* A fresh object, result and loop are well formed.
LEMMA EmptyRecords ==
    NewObject \in ObjectType /\ NoResult \in ResultType /\ NoLoop \in LoopType
BY DEF NewObject, ObjectType, NoResult, ResultType, NoLoop, LoopType, ConditionStatus

\* The fault counter stays within its bound.
LEMMA FaultArithmetic ==
    ASSUME faults \in 0..MaxFaults
    PROVE /\ NoFault => faults' \in 0..MaxFaults
          /\ \A kind : Fault(kind) => faults' \in 0..MaxFaults
BY FaultAssumption DEF NoFault, Fault

\* Writing an ID set, a condition or a flag keeps an object well formed.
LEMMA ObjectUpdates ==
    ASSUME NEW o \in ObjectType
    PROVE /\ \A S \in SUBSET Res : [o EXCEPT !.id = S] \in ObjectType
          /\ \A c \in Conditions, v \in ConditionStatus : [o EXCEPT !.cond[c] = v] \in ObjectType
          /\ \A b \in BOOLEAN : [o EXCEPT !.finalizer = b] \in ObjectType
BY DEF ObjectType

\* The same for the collected results.
LEMMA ResultUpdates ==
    ASSUME NEW r \in ResultType, NEW c \in ConditionTypes
    PROVE /\ [r EXCEPT !.cond[c] = "false", !.err = TRUE] \in ResultType
          /\ [r EXCEPT !.cond[c] = "true"] \in ResultType
          /\ [r EXCEPT !.requeue = TRUE] \in ResultType
          /\ [r EXCEPT !.err = TRUE] \in ResultType
<1>1. "true" \in ConditionStatus /\ "false" \in ConditionStatus
  BY DEF ConditionStatus
<1>2. [r EXCEPT !.cond[c] = "false", !.err = TRUE] \in ResultType
  BY <1>1 DEF ResultType
<1>3. [r EXCEPT !.cond[c] = "true"] \in ResultType
  BY <1>1 DEF ResultType
<1>4. [r EXCEPT !.requeue = TRUE] \in ResultType /\ [r EXCEPT !.err = TRUE] \in ResultType
  BY <1>1 DEF ResultType
<1>. QED BY <1>2, <1>3, <1>4

\* The same for a loop that goes on to its next element.
LEMMA LoopUpdates ==
    ASSUME NEW l \in LoopType, NEW f \in BOOLEAN, NEW e \in BOOLEAN
    PROVE /\ [l EXCEPT !.i = @ + 1, !.flag = @ \/ f] \in LoopType
          /\ [l EXCEPT !.i = @ + 1, !.flag = @ \/ f, !.err = @ \/ e] \in LoopType
          /\ [l EXCEPT !.flag = f] \in LoopType
<1>1. l.i + 1 \in Nat \ {0} /\ (l.flag \/ f) \in BOOLEAN /\ (l.err \/ e) \in BOOLEAN
  BY DEF LoopType
<1>. QED BY <1>1 DEF LoopType

\* What a method call does to the cloud keeps the cloud well formed.
LEMMA CloudOutcomes ==
    ASSUME CloudTypeOK
    PROVE /\ UNCHANGED cloudVars => CloudTypeOK'
          /\ \A r \in Res, state \in CloudStates :
                CreateAs(r, state) /\ UNCHANGED <<keys, secret>> => CloudTypeOK'
          /\ \A r \in Res : StartDelete(r) => CloudTypeOK'
BY DEF CloudTypeOK, cloudVars, CreateAs, StartDelete, CloudStates

\* Every outcome of a method of reconcilePowerVSResources is well formed.
LEMMA PowerVSOutcomes ==
    ASSUME res \in ResultType
    PROVE /\ \A c \in ConditionTypes : PowerVSFails(c) => res' \in ResultType
          /\ PowerVSRequeues => res' \in ResultType
          /\ NetworkPending => res' \in ResultType
BY ResultUpdates, ConditionNames DEF PowerVSFails, PowerVSRequeues, NetworkPending

\* Every outcome of a method of reconcileVPCResources is well formed.
LEMMA VPCOutcomes ==
    ASSUME res \in ResultType, loop \in LoopType
    PROVE /\ \A c \in ConditionTypes : VPCFails(c) => res' \in ResultType /\ loop' \in LoopType
          /\ VPCRequeues => res' \in ResultType /\ loop' \in LoopType
          /\ \A next : \A c \in ConditionTypes :
                VPCProceeds(c, next) => res' \in ResultType /\ loop' \in LoopType
          /\ \A flag \in BOOLEAN :
                NextIteration(flag) => res' \in ResultType /\ loop' \in LoopType
<1>1. \A c \in ConditionTypes : VPCFails(c) => res' \in ResultType /\ loop' \in LoopType
  BY ResultUpdates, EmptyRecords DEF VPCFails
<1>2. VPCRequeues => res' \in ResultType /\ loop' \in LoopType
  BY ResultUpdates, ConditionNames, EmptyRecords DEF VPCRequeues
<1>3. \A next : \A c \in ConditionTypes :
        VPCProceeds(c, next) => res' \in ResultType /\ loop' \in LoopType
  BY ResultUpdates, EmptyRecords DEF VPCProceeds
<1>4. \A flag \in BOOLEAN : NextIteration(flag) => res' \in ResultType /\ loop' \in LoopType
  BY LoopUpdates DEF NextIteration
<1>. QED BY <1>1, <1>2, <1>3, <1>4

\* Every outcome of a Delete method is well formed.
LEMMA DeleteOutcomes ==
    ASSUME local \in ObjectType, res \in ResultType, loop \in LoopType
    PROVE /\ \A next : DeleteFails(next) =>
                local' = Deleting(local) /\ res' \in ResultType /\ loop' \in LoopType
          /\ \A next, o : DeleteDone(next, o) =>
                local' = Deleting(o) /\ res' \in ResultType /\ loop' \in LoopType
          /\ DeleteRequeues =>
                local' = Deleting(local) /\ res' \in ResultType /\ loop' \in LoopType
          /\ \A requeue, err \in BOOLEAN :
                NextDelete(requeue, err) => res' \in ResultType /\ loop' \in LoopType
          /\ \A next : DeleteLoopEnds(next) =>
                local' = Deleting(local) /\ res' \in ResultType /\ loop' \in LoopType
<1>1. \A next : DeleteFails(next) =>
        local' = Deleting(local) /\ res' \in ResultType /\ loop' \in LoopType
  BY ResultUpdates, ConditionNames, EmptyRecords DEF DeleteFails
<1>2. \A next, o : DeleteDone(next, o) =>
        local' = Deleting(o) /\ res' \in ResultType /\ loop' \in LoopType
  BY EmptyRecords DEF DeleteDone
<1>3. DeleteRequeues => local' = Deleting(local) /\ res' \in ResultType /\ loop' \in LoopType
  BY EmptyRecords DEF DeleteRequeues
<1>4. \A requeue, err \in BOOLEAN :
        NextDelete(requeue, err) => res' \in ResultType /\ loop' \in LoopType
  BY LoopUpdates DEF NextDelete
<1>5. \A next : DeleteLoopEnds(next) =>
        local' = Deleting(local) /\ res' \in ResultType /\ loop' \in LoopType
  BY <1>1, <1>2, <1>3 DEF DeleteLoopEnds
<1>. QED BY <1>1, <1>2, <1>3, <1>4, <1>5

\* reconcileDelete's condition leaves the object well formed.
LEMMA DeletingObject ==
    ASSUME NEW o \in ObjectType, pc \in DOMAIN DeletingCondition
    PROVE Deleting(o) \in ObjectType
<1>1. DeletingCondition[pc] \in Conditions
  BY ConditionNames DEF DeletingCondition
<1>2. "false" \in ConditionStatus
  BY DEF ConditionStatus
<1>. QED BY <1>1, <1>2, ObjectUpdates DEF Deleting

----------------------------------------------------------------------------
(* Type correctness, action by action.                                     *)

LEMMA InitTypeOK == Init => TypeOK
<1> SUFFICES ASSUME Init PROVE TypeOK
  OBVIOUS
<1>1. cloud \in [Res -> CloudStates]
  BY DEF Init, CloudStates
<1>2. CloudTypeOK
  <2>1. keys \in 0..MaxKeys
    BY DEF Init, MaxKeys
  <2>2. /\ created \subseteq Res /\ dup \subseteq Res
        /\ secret \in BOOLEAN
    BY DEF Init
  <2> QED BY <1>1, <2>1, <2>2 DEF CloudTypeOK
<1>3. ApiTypeOK
  BY EmptyRecords DEF Init, ApiTypeOK
<1>4. ControllerTypeOK
  BY EmptyRecords DEF Init, ControllerTypeOK, PC
<1>. QED BY <1>2, <1>3, <1>4, FaultAssumption DEF Init, TypeOK

LEMMA PrepareTypeOK == TypeOK /\ Prepare => TypeOK'
<1> SUFFICES ASSUME TypeOK, Prepare PROVE TypeOK'
  OBVIOUS
<1> USE ResourceNames, ConditionNames
<1> USE DEF Prepare
<1>1. CloudTypeOK'
  BY CloudOutcomes DEF TypeOK, CloudStates
<1>2. ApiTypeOK'
  BY DEF TypeOK, ApiTypeOK, apiVars
<1>3. faults' \in 0..MaxFaults
  BY FaultArithmetic DEF TypeOK
<1>4. local' \in ObjectType
  BY DEF TypeOK, ControllerTypeOK, ObjectType, ConditionStatus, Record
<1>5. res' \in ResultType
  BY EmptyRecords DEF TypeOK, ControllerTypeOK
<1>6. loop' \in LoopType
  BY EmptyRecords DEF TypeOK, ControllerTypeOK
<1>7. /\ bound' \in BOOLEAN /\ pc' \in PC
      /\ pvs' \in {"workspace", "network", "done"}
      /\ vpc' \in {"vpc", "subnet", "sg", "lb", "done"}
  BY DEF TypeOK, ControllerTypeOK, PC
<1>. QED BY <1>1, <1>2, <1>3, <1>4, <1>5, <1>6, <1>7 DEF TypeOK, ControllerTypeOK

LEMMA ReconcileWorkspaceTypeOK == TypeOK /\ ReconcileWorkspace => TypeOK'
<1> SUFFICES ASSUME TypeOK, ReconcileWorkspace PROVE TypeOK'
  OBVIOUS
<1> USE ResourceNames, ConditionNames
<1> USE DEF ReconcileWorkspace, VerifyWorkspace, ResolveWorkspace, CreateWorkspace,
        WorkspaceError
<1>1. CloudTypeOK'
  BY CloudOutcomes DEF TypeOK, CloudStates
<1>2. ApiTypeOK'
  BY DEF TypeOK, ApiTypeOK, apiVars
<1>3. faults' \in 0..MaxFaults
  BY FaultArithmetic DEF TypeOK
<1>4. local' \in ObjectType
  BY DEF TypeOK, ControllerTypeOK, ObjectType, ConditionStatus, PowerVSFails,
     PowerVSRequeues, Record
<1>5. res' \in ResultType
  BY PowerVSOutcomes, ResultUpdates DEF TypeOK, ControllerTypeOK
<1>6. loop' \in LoopType
  BY EmptyRecords DEF TypeOK, ControllerTypeOK
<1>7. /\ bound' \in BOOLEAN /\ pc' \in PC
      /\ pvs' \in {"workspace", "network", "done"}
      /\ vpc' \in {"vpc", "subnet", "sg", "lb", "done"}
  BY DEF TypeOK, ControllerTypeOK, PC, PowerVSFails, PowerVSRequeues
<1>. QED BY <1>1, <1>2, <1>3, <1>4, <1>5, <1>6, <1>7 DEF TypeOK, ControllerTypeOK

LEMMA ReconcileNetworkTypeOK == TypeOK /\ ReconcileNetwork => TypeOK'
<1> SUFFICES ASSUME TypeOK, ReconcileNetwork PROVE TypeOK'
  OBVIOUS
<1> USE ResourceNames, ConditionNames
<1> USE DEF ReconcileNetwork, VerifyNetwork, ResolveNetwork, CreateNetwork, NetworkError
<1>1. CloudTypeOK'
  BY CloudOutcomes DEF TypeOK, CloudStates
<1>2. ApiTypeOK'
  BY DEF TypeOK, ApiTypeOK, apiVars
<1>3. faults' \in 0..MaxFaults
  BY FaultArithmetic DEF TypeOK
<1>4. local' \in ObjectType
  BY DEF TypeOK, ControllerTypeOK, ObjectType, ConditionStatus, PowerVSFails,
     PowerVSRequeues, NetworkPending, Record
<1>5. res' \in ResultType
  BY PowerVSOutcomes, ResultUpdates DEF TypeOK, ControllerTypeOK
<1>6. loop' \in LoopType
  BY EmptyRecords DEF TypeOK, ControllerTypeOK
<1>7. /\ bound' \in BOOLEAN /\ pc' \in PC
      /\ pvs' \in {"workspace", "network", "done"}
      /\ vpc' \in {"vpc", "subnet", "sg", "lb", "done"}
  BY DEF TypeOK, ControllerTypeOK, PC, PowerVSFails, PowerVSRequeues, NetworkPending
<1>. QED BY <1>1, <1>2, <1>3, <1>4, <1>5, <1>6, <1>7 DEF TypeOK, ControllerTypeOK

LEMMA ReconcileVPCTypeOK == TypeOK /\ ReconcileVPC => TypeOK'
<1> SUFFICES ASSUME TypeOK, ReconcileVPC PROVE TypeOK'
  OBVIOUS
<1> USE ResourceNames, ConditionNames
<1> USE DEF ReconcileVPC, VerifyVPC, ResolveVPC, CreateVPC, VPCError
<1>1. CloudTypeOK'
  BY CloudOutcomes DEF TypeOK, CloudStates, CloudTypeOK, cloudVars, CreateAs
<1>2. ApiTypeOK'
  BY DEF TypeOK, ApiTypeOK, apiVars
<1>3. faults' \in 0..MaxFaults
  BY FaultArithmetic DEF TypeOK
<1>4. local' \in ObjectType
  BY DEF TypeOK, ControllerTypeOK, ObjectType, ConditionStatus, VPCFails, VPCRequeues,
     VPCProceeds, NextIteration, Record
<1>5. res' \in ResultType
  BY VPCOutcomes, ResultUpdates DEF TypeOK, ControllerTypeOK, Provision
<1>6. loop' \in LoopType
  BY VPCOutcomes, EmptyRecords DEF TypeOK, ControllerTypeOK, Provision
<1>7. /\ bound' \in BOOLEAN /\ pc' \in PC
      /\ pvs' \in {"workspace", "network", "done"}
      /\ vpc' \in {"vpc", "subnet", "sg", "lb", "done"}
  BY DEF TypeOK, ControllerTypeOK, PC, VPCFails, VPCRequeues, VPCProceeds,
     NextIteration
<1>. QED BY <1>1, <1>2, <1>3, <1>4, <1>5, <1>6, <1>7 DEF TypeOK, ControllerTypeOK

LEMMA ReconcileVPCSubnetsTypeOK == TypeOK /\ ReconcileVPCSubnets => TypeOK'
<1> SUFFICES ASSUME TypeOK, ReconcileVPCSubnets PROVE TypeOK'
  OBVIOUS
<1> USE ResourceNames, ConditionNames
<1> USE DEF ReconcileVPCSubnets, VerifySubnet, ResolveSubnet, CreateSubnet, SubnetError
<1>1. CloudTypeOK'
  BY CloudOutcomes DEF TypeOK, CloudStates
<1>2. ApiTypeOK'
  BY DEF TypeOK, ApiTypeOK, apiVars
<1>3. faults' \in 0..MaxFaults
  BY FaultArithmetic DEF TypeOK
<1>4. local' \in ObjectType
  BY DEF TypeOK, ControllerTypeOK, ObjectType, ConditionStatus, VPCFails, VPCRequeues,
     VPCProceeds, NextIteration, Record
<1>5. res' \in ResultType
  BY VPCOutcomes, ResultUpdates DEF TypeOK, ControllerTypeOK, Provision
<1>6. loop' \in LoopType
  BY VPCOutcomes, EmptyRecords DEF TypeOK, ControllerTypeOK, Provision
<1>7. /\ bound' \in BOOLEAN /\ pc' \in PC
      /\ pvs' \in {"workspace", "network", "done"}
      /\ vpc' \in {"vpc", "subnet", "sg", "lb", "done"}
  BY DEF TypeOK, ControllerTypeOK, PC, VPCFails, VPCRequeues, VPCProceeds,
     NextIteration
<1>. QED BY <1>1, <1>2, <1>3, <1>4, <1>5, <1>6, <1>7 DEF TypeOK, ControllerTypeOK

LEMMA ReconcileVPCSecurityGroupsTypeOK == TypeOK /\ ReconcileVPCSecurityGroups => TypeOK'
<1> SUFFICES ASSUME TypeOK, ReconcileVPCSecurityGroups PROVE TypeOK'
  OBVIOUS
<1> USE ResourceNames, ConditionNames
<1> USE DEF ReconcileVPCSecurityGroups, ResolveSecurityGroup, CreateSecurityGroup,
        SecurityGroupError
<1>1. CloudTypeOK'
  BY CloudOutcomes DEF TypeOK, CloudStates
<1>2. ApiTypeOK'
  BY DEF TypeOK, ApiTypeOK, apiVars
<1>3. faults' \in 0..MaxFaults
  BY FaultArithmetic DEF TypeOK
<1>4. local' \in ObjectType
  BY DEF TypeOK, ControllerTypeOK, ObjectType, ConditionStatus, VPCFails, VPCRequeues,
     VPCProceeds, NextIteration
<1>5. res' \in ResultType
  BY VPCOutcomes, ResultUpdates DEF TypeOK, ControllerTypeOK, Provision
<1>6. loop' \in LoopType
  BY VPCOutcomes, EmptyRecords DEF TypeOK, ControllerTypeOK, Provision
<1>7. /\ bound' \in BOOLEAN /\ pc' \in PC
      /\ pvs' \in {"workspace", "network", "done"}
      /\ vpc' \in {"vpc", "subnet", "sg", "lb", "done"}
  BY DEF TypeOK, ControllerTypeOK, PC, VPCFails, VPCRequeues, VPCProceeds,
     NextIteration
<1>. QED BY <1>1, <1>2, <1>3, <1>4, <1>5, <1>6, <1>7 DEF TypeOK, ControllerTypeOK

LEMMA ReconcileLoadBalancersTypeOK == TypeOK /\ ReconcileLoadBalancers => TypeOK'
<1> SUFFICES ASSUME TypeOK, ReconcileLoadBalancers PROVE TypeOK'
  OBVIOUS
<1> USE ResourceNames, ConditionNames
<1> USE DEF ReconcileLoadBalancers, VerifyLoadBalancer, RecoverLoadBalancer,
        CreateLoadBalancer, LoadBalancerError, LoadBalancersReconciled
<1>1. CloudTypeOK'
  BY CloudOutcomes DEF TypeOK, CloudStates
<1>2. ApiTypeOK'
  BY DEF TypeOK, ApiTypeOK, apiVars
<1>3. faults' \in 0..MaxFaults
  BY FaultArithmetic DEF TypeOK
<1>4. local' \in ObjectType
  <2>1. \A l \in LoadBalancerSet, hostname \in BOOLEAN :
            SetLoadBalancerStatus(l, hostname) => local' \in ObjectType
    <3> SUFFICES ASSUME NEW l \in LoadBalancerSet, NEW hostname \in BOOLEAN,
                        SetLoadBalancerStatus(l, hostname)
                 PROVE local' \in ObjectType
      OBVIOUS
    <3> DEFINE host == IF hostname THEN local.host \cup {l} ELSE local.host \ {l}
    <3>1. local \in ObjectType /\ local.id \cup {l} \subseteq Res /\ host \subseteq LoadBalancerSet
      BY DEF TypeOK, ControllerTypeOK, ObjectType
    <3>2. local' = [local EXCEPT !.id = local.id \cup {l}, !.host = host]
      BY DEF SetLoadBalancerStatus, TypeOK, ControllerTypeOK, ObjectType
    <3> HIDE DEF host
    <3> QED BY <3>1, <3>2 DEF ObjectType
  <2>2. \A l : HostnameChoices(l) \subseteq BOOLEAN
    BY DEF HostnameChoices
  <2> QED BY <2>1, <2>2 DEF TypeOK, ControllerTypeOK
<1>5. res' \in ResultType
  BY VPCOutcomes, ResultUpdates DEF TypeOK, ControllerTypeOK, Provision
<1>6. loop' \in LoopType
  BY VPCOutcomes, EmptyRecords DEF TypeOK, ControllerTypeOK, Provision
<1>7. /\ bound' \in BOOLEAN /\ pc' \in PC
      /\ pvs' \in {"workspace", "network", "done"}
      /\ vpc' \in {"vpc", "subnet", "sg", "lb", "done"}
  BY DEF TypeOK, ControllerTypeOK, PC, VPCFails, VPCRequeues, VPCProceeds,
     NextIteration
<1>. QED BY <1>1, <1>2, <1>3, <1>4, <1>5, <1>6, <1>7 DEF TypeOK, ControllerTypeOK

LEMMA JoinTypeOK == TypeOK /\ Join => TypeOK'
<1> SUFFICES ASSUME TypeOK, Join PROVE TypeOK'
  OBVIOUS
<1> USE ResourceNames, ConditionNames
<1> USE DEF Join
<1>1. CloudTypeOK'
  BY CloudOutcomes DEF TypeOK, CloudStates
<1>2. ApiTypeOK'
  BY DEF TypeOK, ApiTypeOK, apiVars
<1>3. faults' \in 0..MaxFaults
  BY FaultArithmetic DEF TypeOK
<1>4. local' \in ObjectType
  <2> DEFINE new == [c \in Conditions |-> IF c \in ConditionTypes /\ res.cond[c] # "none"
                                          THEN res.cond[c] ELSE local.cond[c]]
  <2>1. new \in [Conditions -> ConditionStatus]
    BY DEF TypeOK, ControllerTypeOK, ObjectType, ResultType
  <2>2. local' = [local EXCEPT !.cond = new]
    OBVIOUS
  <2> HIDE DEF new
  <2> QED BY <2>1, <2>2 DEF TypeOK, ControllerTypeOK, ObjectType
<1>5. res' \in ResultType
  BY EmptyRecords DEF TypeOK, ControllerTypeOK
<1>6. loop' \in LoopType
  BY EmptyRecords DEF TypeOK, ControllerTypeOK
<1>7. /\ bound' \in BOOLEAN /\ pc' \in PC
      /\ pvs' \in {"workspace", "network", "done"}
      /\ vpc' \in {"vpc", "subnet", "sg", "lb", "done"}
  BY DEF TypeOK, ControllerTypeOK, PC
<1>. QED BY <1>1, <1>2, <1>3, <1>4, <1>5, <1>6, <1>7 DEF TypeOK, ControllerTypeOK

LEMMA ReconcileTransitGatewayTypeOK == TypeOK /\ ReconcileTransitGateway => TypeOK'
<1> SUFFICES ASSUME TypeOK, ReconcileTransitGateway PROVE TypeOK'
  OBVIOUS
<1> USE ResourceNames, ConditionNames
<1> USE DEF ReconcileTransitGateway, CheckTransitGateway, RecoverTransitGateway,
        CreateTransitGateway, TransitGatewayError
<1>1. CloudTypeOK'
  BY CloudOutcomes DEF TypeOK, CloudStates
<1>2. ApiTypeOK'
  BY DEF TypeOK, ApiTypeOK, apiVars
<1>3. faults' \in 0..MaxFaults
  BY FaultArithmetic DEF TypeOK
<1>4. local' \in ObjectType
  <2> DEFINE o == [local EXCEPT !.id = @ \cup {"tg"}]
  <2>1. o \in ObjectType
    BY ResourceNames DEF TypeOK, ControllerTypeOK, ObjectType
  <2>2. [local EXCEPT !.cond["TransitGatewayReady"] = "false"] \in ObjectType
    BY ObjectUpdates, ConditionNames DEF TypeOK, ControllerTypeOK, ConditionStatus
  <2>3. [o EXCEPT !.cond["TransitGatewayReady"] = "false"] \in ObjectType
    <3> HIDE DEF o
    <3> QED BY <2>1, ObjectUpdates, ConditionNames DEF ConditionStatus
  <2>4. \/ local' = o
        \/ local' = [o EXCEPT !.cond["TransitGatewayReady"] = "false"]
        \/ local' = [local EXCEPT !.cond["TransitGatewayReady"] = "false"]
    BY DEF TransitGatewayFails, TransitGatewayRequeues, Record, SetCondition
  <2> QED BY <2>1, <2>2, <2>3, <2>4
<1>5. res' \in ResultType
  BY EmptyRecords DEF TypeOK, ControllerTypeOK
<1>6. loop' \in LoopType
  BY EmptyRecords DEF TypeOK, ControllerTypeOK, TransitGatewayFails,
     TransitGatewayRequeues
<1>7. /\ bound' \in BOOLEAN /\ pc' \in PC
      /\ pvs' \in {"workspace", "network", "done"}
      /\ vpc' \in {"vpc", "subnet", "sg", "lb", "done"}
  BY DEF TypeOK, ControllerTypeOK, PC, TransitGatewayFails, TransitGatewayRequeues
<1>. QED BY <1>1, <1>2, <1>3, <1>4, <1>5, <1>6, <1>7 DEF TypeOK, ControllerTypeOK

LEMMA ReconcileConnectionTypeOK == TypeOK /\ ReconcileConnection => TypeOK'
<1> SUFFICES ASSUME TypeOK, ReconcileConnection PROVE TypeOK'
  OBVIOUS
<1> USE ResourceNames, ConditionNames
<1> USE DEF ReconcileConnection, CheckConnection, CreateConnection, ConnectionError
<1>1. CloudTypeOK'
  BY CloudOutcomes DEF TypeOK, CloudStates
<1>2. ApiTypeOK'
  BY DEF TypeOK, ApiTypeOK, apiVars
<1>3. faults' \in 0..MaxFaults
  BY FaultArithmetic DEF TypeOK
<1>4. local' \in ObjectType
  <2> DEFINE o == [local EXCEPT !.id = @ \cup {pc}]
  <2>1. o \in ObjectType
    BY ResourceNames DEF TypeOK, ControllerTypeOK, ObjectType
  <2>2. [local EXCEPT !.cond["TransitGatewayReady"] = "false"] \in ObjectType
    BY ObjectUpdates, ConditionNames DEF TypeOK, ControllerTypeOK, ConditionStatus
  <2>3. /\ [o EXCEPT !.cond["TransitGatewayReady"] = "false"] \in ObjectType
        /\ [o EXCEPT !.cond["TransitGatewayReady"] = "true"] \in ObjectType
    <3> HIDE DEF o
    <3> QED BY <2>1, ObjectUpdates, ConditionNames DEF ConditionStatus
  <2>4. \/ local' = o
        \/ local' = [o EXCEPT !.cond["TransitGatewayReady"] = "false"]
        \/ local' = [o EXCEPT !.cond["TransitGatewayReady"] = "true"]
        \/ local' = [local EXCEPT !.cond["TransitGatewayReady"] = "false"]
    BY DEF TransitGatewayFails, ConnectionDone, SetCondition
  <2> QED BY <2>1, <2>2, <2>3, <2>4
<1>5. res' \in ResultType
  BY EmptyRecords DEF TypeOK, ControllerTypeOK
<1>6. loop' \in LoopType
  BY EmptyRecords, LoopUpdates DEF TypeOK, ControllerTypeOK, TransitGatewayFails,
     ConnectionDone
<1>7. /\ bound' \in BOOLEAN /\ pc' \in PC
      /\ pvs' \in {"workspace", "network", "done"}
      /\ vpc' \in {"vpc", "subnet", "sg", "lb", "done"}
  BY DEF TypeOK, ControllerTypeOK, PC, TransitGatewayFails, TransitGatewayRequeues,
     ConnectionDone
<1>. QED BY <1>1, <1>2, <1>3, <1>4, <1>5, <1>6, <1>7 DEF TypeOK, ControllerTypeOK

LEMMA ReconcileCOSInstanceTypeOK == TypeOK /\ ReconcileCOSInstance => TypeOK'
<1> SUFFICES ASSUME TypeOK, ReconcileCOSInstance PROVE TypeOK'
  OBVIOUS
<1> USE ResourceNames, ConditionNames
<1> USE DEF ReconcileCOSInstance, ResolveCOSInstance, CreateCOSInstance, COSError
<1>1. CloudTypeOK'
  BY CloudOutcomes DEF TypeOK, CloudStates
<1>2. ApiTypeOK'
  BY DEF TypeOK, ApiTypeOK, apiVars
<1>3. faults' \in 0..MaxFaults
  BY FaultArithmetic DEF TypeOK
<1>4. local' \in ObjectType
  <2> DEFINE o == [local EXCEPT !.id = @ \cup {"cos"}]
  <2>1. o \in ObjectType
    BY ResourceNames DEF TypeOK, ControllerTypeOK, ObjectType
  <2>2. [local EXCEPT !.cond["COSInstanceReady"] = "false"] \in ObjectType
    BY ObjectUpdates, ConditionNames DEF TypeOK, ControllerTypeOK, ConditionStatus
  <2>3. [o EXCEPT !.cond["COSInstanceReady"] = "false"] \in ObjectType
    <3> HIDE DEF o
    <3> QED BY <2>1, ObjectUpdates, ConditionNames DEF ConditionStatus
  <2>4. \/ local' = o
        \/ local' = [o EXCEPT !.cond["COSInstanceReady"] = "false"]
        \/ local' = [local EXCEPT !.cond["COSInstanceReady"] = "false"]
    BY DEF COSFails
  <2> QED BY <2>1, <2>2, <2>3, <2>4
<1>5. res' \in ResultType
  BY EmptyRecords DEF TypeOK, ControllerTypeOK
<1>6. loop' \in LoopType
  BY EmptyRecords DEF TypeOK, ControllerTypeOK
<1>7. /\ bound' \in BOOLEAN /\ pc' \in PC
      /\ pvs' \in {"workspace", "network", "done"}
      /\ vpc' \in {"vpc", "subnet", "sg", "lb", "done"}
  BY DEF TypeOK, ControllerTypeOK, PC, COSFails
<1>. QED BY <1>1, <1>2, <1>3, <1>4, <1>5, <1>6, <1>7 DEF TypeOK, ControllerTypeOK

LEMMA ReconcileCOSHMACKeyTypeOK == TypeOK /\ ReconcileCOSHMACKey => TypeOK'
<1> SUFFICES ASSUME TypeOK, ReconcileCOSHMACKey PROVE TypeOK'
  OBVIOUS
<1> USE ResourceNames, ConditionNames
<1> USE DEF ReconcileCOSHMACKey, KeepHMACKey, IssueHMACKey, HMACKeyLost, COSError
<1>1. CloudTypeOK'
  <2>1. keys' \in 0..MaxKeys
    <3>1. keys' = keys \/ IssueKey
      BY DEF cloudVars
    <3>2. keys \in 0..MaxKeys => (IssueKey => keys' \in 0..MaxKeys)
      BY DEF IssueKey, MaxKeys
    <3> QED BY <3>1, <3>2 DEF TypeOK, CloudTypeOK
  <2>2. secret' \in BOOLEAN
    BY DEF TypeOK, CloudTypeOK, cloudVars
  <2>3. UNCHANGED <<cloud, created, dup>>
    BY DEF cloudVars
  <2> QED BY <2>1, <2>2, <2>3 DEF TypeOK, CloudTypeOK
<1>2. ApiTypeOK'
  BY DEF TypeOK, ApiTypeOK, apiVars
<1>3. faults' \in 0..MaxFaults
  BY FaultArithmetic DEF TypeOK
<1>4. local' \in ObjectType
  <2>1. [local EXCEPT !.cond["COSInstanceReady"] = "false"] \in ObjectType
    BY ObjectUpdates, ConditionNames DEF TypeOK, ControllerTypeOK, ConditionStatus
  <2>2. [local EXCEPT !.hmac = TRUE, !.cond["COSInstanceReady"] = "true"] \in ObjectType
    <3>1. local \in ObjectType /\ "true" \in ConditionStatus
      BY DEF TypeOK, ControllerTypeOK, ConditionStatus
    <3> QED BY <3>1, ConditionNames DEF ObjectType
  <2>3. \/ local' = [local EXCEPT !.cond["COSInstanceReady"] = "false"]
        \/ local' = [local EXCEPT !.hmac = TRUE, !.cond["COSInstanceReady"] = "true"]
    BY DEF COSFails, COSReady
  <2> QED BY <2>1, <2>2, <2>3
<1>5. res' \in ResultType
  BY EmptyRecords DEF TypeOK, ControllerTypeOK
<1>6. loop' \in LoopType
  BY EmptyRecords DEF TypeOK, ControllerTypeOK
<1>7. /\ bound' \in BOOLEAN /\ pc' \in PC
      /\ pvs' \in {"workspace", "network", "done"}
      /\ vpc' \in {"vpc", "subnet", "sg", "lb", "done"}
  BY DEF TypeOK, ControllerTypeOK, PC, COSFails, COSReady
<1>. QED BY <1>1, <1>2, <1>3, <1>4, <1>5, <1>6, <1>7 DEF TypeOK, ControllerTypeOK

LEMMA FinishTypeOK == TypeOK /\ Finish => TypeOK'
<1> SUFFICES ASSUME TypeOK, Finish PROVE TypeOK'
  OBVIOUS
<1> USE ResourceNames, ConditionNames
<1> USE DEF Finish
<1>1. CloudTypeOK'
  BY CloudOutcomes DEF TypeOK, CloudStates
<1>2. ApiTypeOK'
  BY DEF TypeOK, ApiTypeOK, apiVars
<1>3. faults' \in 0..MaxFaults
  BY FaultArithmetic DEF TypeOK
<1>4. local' \in ObjectType
  BY DEF TypeOK, ControllerTypeOK, ObjectType, ConditionStatus
<1>5. res' \in ResultType
  BY EmptyRecords DEF TypeOK, ControllerTypeOK
<1>6. loop' \in LoopType
  BY EmptyRecords DEF TypeOK, ControllerTypeOK
<1>7. /\ bound' \in BOOLEAN /\ pc' \in PC
      /\ pvs' \in {"workspace", "network", "done"}
      /\ vpc' \in {"vpc", "subnet", "sg", "lb", "done"}
  BY DEF TypeOK, ControllerTypeOK, PC
<1>. QED BY <1>1, <1>2, <1>3, <1>4, <1>5, <1>6, <1>7 DEF TypeOK, ControllerTypeOK

LEMMA DeleteImagesTypeOK == TypeOK /\ DeleteImages => TypeOK'
<1> SUFFICES ASSUME TypeOK, DeleteImages PROVE TypeOK'
  OBVIOUS
<1> USE ResourceNames, ConditionNames
<1> USE DEF DeleteImages
<1>1. CloudTypeOK'
  BY CloudOutcomes DEF TypeOK, CloudStates
<1>2. ApiTypeOK'
  BY DEF TypeOK, ApiTypeOK, apiVars
<1>3. faults' \in 0..MaxFaults
  BY FaultArithmetic DEF TypeOK
<1>4. local' \in ObjectType
  BY ObjectUpdates DEF TypeOK, ControllerTypeOK
<1>5. res' \in ResultType
  BY EmptyRecords DEF TypeOK, ControllerTypeOK
<1>6. loop' \in LoopType
  BY EmptyRecords DEF TypeOK, ControllerTypeOK
<1>7. /\ bound' \in BOOLEAN /\ pc' \in PC
      /\ pvs' \in {"workspace", "network", "done"}
      /\ vpc' \in {"vpc", "subnet", "sg", "lb", "done"}
  BY DEF TypeOK, ControllerTypeOK, PC
<1>. QED BY <1>1, <1>2, <1>3, <1>4, <1>5, <1>6, <1>7 DEF TypeOK, ControllerTypeOK

LEMMA DeleteTransitGatewayTypeOK == TypeOK /\ DeleteTransitGateway => TypeOK'
<1> SUFFICES ASSUME TypeOK, DeleteTransitGateway PROVE TypeOK'
  OBVIOUS
<1> USE ResourceNames, ConditionNames
<1> USE DEF DeleteTransitGateway, DeleteTransitGatewayConnection, CallFails
<1>1. CloudTypeOK'
  BY CloudOutcomes DEF TypeOK, CloudStates, ConnectionToDelete, OwnedConnection
<1>2. ApiTypeOK'
  BY DEF TypeOK, ApiTypeOK, apiVars
<1>3. faults' \in 0..MaxFaults
  BY FaultArithmetic DEF TypeOK
<1>4. local' \in ObjectType
  <2>1. local \in ObjectType /\ NoTransitGateway \in ObjectType
    BY DEF NoTransitGateway, TypeOK, ControllerTypeOK, ObjectType
  <2>2. local' \in {Deleting(local), Deleting(NoTransitGateway)}
    BY DeleteOutcomes DEF TypeOK, ControllerTypeOK
  <2>3. pc \in DOMAIN DeletingCondition
    BY DEF DeletingCondition
  <2> QED BY <2>1, <2>2, <2>3, DeletingObject
<1>5. res' \in ResultType
  BY DeleteOutcomes DEF TypeOK, ControllerTypeOK
<1>6. loop' \in LoopType
  BY DeleteOutcomes DEF TypeOK, ControllerTypeOK
<1>7. /\ bound' \in BOOLEAN /\ pc' \in PC
      /\ pvs' \in {"workspace", "network", "done"}
      /\ vpc' \in {"vpc", "subnet", "sg", "lb", "done"}
  BY DEF TypeOK, ControllerTypeOK, PC, DeleteFails, DeleteDone, DeleteRequeues
<1>. QED BY <1>1, <1>2, <1>3, <1>4, <1>5, <1>6, <1>7 DEF TypeOK, ControllerTypeOK

LEMMA DeleteLoadBalancerTypeOK == TypeOK /\ DeleteLoadBalancer => TypeOK'
<1> SUFFICES ASSUME TypeOK, DeleteLoadBalancer PROVE TypeOK'
  OBVIOUS
<1> USE ResourceNames, ConditionNames
<1> USE DEF DeleteLoadBalancer, DeleteOneLoadBalancer, CallFails
<1>1. CloudTypeOK'
  BY CloudOutcomes DEF TypeOK, CloudStates, DeleteLoopEnds
<1>2. ApiTypeOK'
  BY DEF TypeOK, ApiTypeOK, apiVars
<1>3. faults' \in 0..MaxFaults
  BY FaultArithmetic DEF TypeOK, DeleteLoopEnds
<1>4. local' \in ObjectType
  BY DeleteOutcomes, DeletingObject, ObjectUpdates DEF TypeOK, ControllerTypeOK,
     DeletingCondition
<1>5. res' \in ResultType
  BY DeleteOutcomes DEF TypeOK, ControllerTypeOK
<1>6. loop' \in LoopType
  BY DeleteOutcomes DEF TypeOK, ControllerTypeOK
<1>7. /\ bound' \in BOOLEAN /\ pc' \in PC
      /\ pvs' \in {"workspace", "network", "done"}
      /\ vpc' \in {"vpc", "subnet", "sg", "lb", "done"}
  BY DEF TypeOK, ControllerTypeOK, PC, NextDelete, DeleteLoopEnds, DeleteFails,
     DeleteDone, DeleteRequeues
<1>. QED BY <1>1, <1>2, <1>3, <1>4, <1>5, <1>6, <1>7 DEF TypeOK, ControllerTypeOK

LEMMA DeleteVPCSecurityGroupsTypeOK == TypeOK /\ DeleteVPCSecurityGroups => TypeOK'
<1> SUFFICES ASSUME TypeOK, DeleteVPCSecurityGroups PROVE TypeOK'
  OBVIOUS
<1> USE ResourceNames, ConditionNames
<1> USE DEF DeleteVPCSecurityGroups, DeleteOneSecurityGroup, CallFails
<1>1. CloudTypeOK'
  BY CloudOutcomes DEF TypeOK, CloudTypeOK, CloudStates, cloudVars, DeleteLoopEnds
<1>2. ApiTypeOK'
  BY DEF TypeOK, ApiTypeOK, apiVars
<1>3. faults' \in 0..MaxFaults
  BY FaultArithmetic DEF TypeOK, DeleteLoopEnds
<1>4. local' \in ObjectType
  BY DeleteOutcomes, DeletingObject, ObjectUpdates DEF TypeOK, ControllerTypeOK,
     DeletingCondition
<1>5. res' \in ResultType
  BY DeleteOutcomes DEF TypeOK, ControllerTypeOK
<1>6. loop' \in LoopType
  BY DeleteOutcomes DEF TypeOK, ControllerTypeOK
<1>7. /\ bound' \in BOOLEAN /\ pc' \in PC
      /\ pvs' \in {"workspace", "network", "done"}
      /\ vpc' \in {"vpc", "subnet", "sg", "lb", "done"}
  BY DEF TypeOK, ControllerTypeOK, PC, NextDelete, DeleteLoopEnds, DeleteFails,
     DeleteDone, DeleteRequeues
<1>. QED BY <1>1, <1>2, <1>3, <1>4, <1>5, <1>6, <1>7 DEF TypeOK, ControllerTypeOK

LEMMA DeleteVPCSubnetsTypeOK == TypeOK /\ DeleteVPCSubnets => TypeOK'
<1> SUFFICES ASSUME TypeOK, DeleteVPCSubnets PROVE TypeOK'
  OBVIOUS
<1> USE ResourceNames, ConditionNames
<1> USE DEF DeleteVPCSubnets, DeleteOneSubnet, CallFails
<1>1. CloudTypeOK'
  BY CloudOutcomes DEF TypeOK, CloudStates, DeleteLoopEnds
<1>2. ApiTypeOK'
  BY DEF TypeOK, ApiTypeOK, apiVars
<1>3. faults' \in 0..MaxFaults
  BY FaultArithmetic DEF TypeOK, DeleteLoopEnds
<1>4. local' \in ObjectType
  <2>1. local \in ObjectType /\ \A s : [local EXCEPT !.id = @ \ {s}] \in ObjectType
    BY DEF TypeOK, ControllerTypeOK, ObjectType
  <2>2. \/ \E s : local' = [local EXCEPT !.id = @ \ {s}]
        \/ local' \in {local, Deleting(local)}
    BY DeleteOutcomes DEF TypeOK, ControllerTypeOK
  <2>3. pc \in DOMAIN DeletingCondition
    BY DEF DeletingCondition
  <2> QED BY <2>1, <2>2, <2>3, DeletingObject
<1>5. res' \in ResultType
  BY DeleteOutcomes DEF TypeOK, ControllerTypeOK
<1>6. loop' \in LoopType
  BY DeleteOutcomes DEF TypeOK, ControllerTypeOK
<1>7. /\ bound' \in BOOLEAN /\ pc' \in PC
      /\ pvs' \in {"workspace", "network", "done"}
      /\ vpc' \in {"vpc", "subnet", "sg", "lb", "done"}
  BY DEF TypeOK, ControllerTypeOK, PC, NextDelete, DeleteLoopEnds, DeleteFails,
     DeleteDone, DeleteRequeues
<1>. QED BY <1>1, <1>2, <1>3, <1>4, <1>5, <1>6, <1>7 DEF TypeOK, ControllerTypeOK

LEMMA DeleteVPCTypeOK == TypeOK /\ DeleteVPC => TypeOK'
<1> SUFFICES ASSUME TypeOK, DeleteVPC PROVE TypeOK'
  OBVIOUS
<1> USE ResourceNames, ConditionNames
<1> USE DEF DeleteVPC, CallFails
<1>1. CloudTypeOK'
  BY CloudOutcomes DEF TypeOK, CloudStates
<1>2. ApiTypeOK'
  BY DEF TypeOK, ApiTypeOK, apiVars
<1>3. faults' \in 0..MaxFaults
  BY FaultArithmetic DEF TypeOK
<1>4. local' \in ObjectType
  <2> DEFINE o == [local EXCEPT !.id = @ \ {"vpc"}]
  <2>1. local \in ObjectType /\ o \in ObjectType
    BY DEF TypeOK, ControllerTypeOK, ObjectType
  <2>2. local' \in {Deleting(local), Deleting(o)}
    BY DeleteOutcomes DEF TypeOK, ControllerTypeOK
  <2>3. pc \in DOMAIN DeletingCondition
    BY DEF DeletingCondition
  <2> HIDE DEF o
  <2> QED BY <2>1, <2>2, <2>3, DeletingObject
<1>5. res' \in ResultType
  BY DeleteOutcomes DEF TypeOK, ControllerTypeOK
<1>6. loop' \in LoopType
  BY DeleteOutcomes DEF TypeOK, ControllerTypeOK
<1>7. /\ bound' \in BOOLEAN /\ pc' \in PC
      /\ pvs' \in {"workspace", "network", "done"}
      /\ vpc' \in {"vpc", "subnet", "sg", "lb", "done"}
  BY DEF TypeOK, ControllerTypeOK, PC, DeleteFails, DeleteDone, DeleteRequeues
<1>. QED BY <1>1, <1>2, <1>3, <1>4, <1>5, <1>6, <1>7 DEF TypeOK, ControllerTypeOK

LEMMA DeleteDHCPServerTypeOK == TypeOK /\ DeleteDHCPServer => TypeOK'
<1> SUFFICES ASSUME TypeOK, DeleteDHCPServer PROVE TypeOK'
  OBVIOUS
<1> USE ResourceNames, ConditionNames
<1> USE DEF DeleteDHCPServer, CallFails
<1>1. CloudTypeOK'
  BY CloudOutcomes DEF TypeOK, CloudStates
<1>2. ApiTypeOK'
  BY DEF TypeOK, ApiTypeOK, apiVars
<1>3. faults' \in 0..MaxFaults
  BY FaultArithmetic DEF TypeOK
<1>4. local' \in ObjectType
  BY DeleteOutcomes, DeletingObject, ObjectUpdates DEF TypeOK, ControllerTypeOK,
     DeletingCondition
<1>5. res' \in ResultType
  BY DeleteOutcomes DEF TypeOK, ControllerTypeOK
<1>6. loop' \in LoopType
  BY DeleteOutcomes DEF TypeOK, ControllerTypeOK
<1>7. /\ bound' \in BOOLEAN /\ pc' \in PC
      /\ pvs' \in {"workspace", "network", "done"}
      /\ vpc' \in {"vpc", "subnet", "sg", "lb", "done"}
  BY DEF TypeOK, ControllerTypeOK, PC, DeleteFails, DeleteDone, DeleteRequeues
<1>. QED BY <1>1, <1>2, <1>3, <1>4, <1>5, <1>6, <1>7 DEF TypeOK, ControllerTypeOK

LEMMA DeleteWorkspaceTypeOK == TypeOK /\ DeleteWorkspace => TypeOK'
<1> SUFFICES ASSUME TypeOK, DeleteWorkspace PROVE TypeOK'
  OBVIOUS
<1> USE ResourceNames, ConditionNames
<1> USE DEF DeleteWorkspace
<1>1. CloudTypeOK'
  BY CloudOutcomes DEF TypeOK, CloudStates
<1>2. ApiTypeOK'
  BY DEF TypeOK, ApiTypeOK, apiVars
<1>3. faults' \in 0..MaxFaults
  BY FaultArithmetic DEF TypeOK
<1>4. local' \in ObjectType
  BY DeleteOutcomes, DeletingObject, ObjectUpdates DEF TypeOK, ControllerTypeOK,
     DeletingCondition
<1>5. res' \in ResultType
  BY DeleteOutcomes DEF TypeOK, ControllerTypeOK
<1>6. loop' \in LoopType
  BY DeleteOutcomes DEF TypeOK, ControllerTypeOK
<1>7. /\ bound' \in BOOLEAN /\ pc' \in PC
      /\ pvs' \in {"workspace", "network", "done"}
      /\ vpc' \in {"vpc", "subnet", "sg", "lb", "done"}
  BY DEF TypeOK, ControllerTypeOK, PC, DeleteFails, DeleteDone, DeleteRequeues,
     AfterWorkspace
<1>. QED BY <1>1, <1>2, <1>3, <1>4, <1>5, <1>6, <1>7 DEF TypeOK, ControllerTypeOK

LEMMA DeleteCOSInstanceTypeOK == TypeOK /\ DeleteCOSInstance => TypeOK'
<1> SUFFICES ASSUME TypeOK, DeleteCOSInstance PROVE TypeOK'
  OBVIOUS
<1> USE ResourceNames, ConditionNames
<1> USE DEF DeleteCOSInstance
<1>1. CloudTypeOK'
  BY CloudOutcomes DEF TypeOK, CloudTypeOK, CloudStates, cloudVars
<1>2. ApiTypeOK'
  BY DEF TypeOK, ApiTypeOK, apiVars
<1>3. faults' \in 0..MaxFaults
  BY FaultArithmetic DEF TypeOK
<1>4. local' \in ObjectType
  BY DeleteOutcomes, DeletingObject, ObjectUpdates DEF TypeOK, ControllerTypeOK,
     DeletingCondition
<1>5. res' \in ResultType
  BY DeleteOutcomes DEF TypeOK, ControllerTypeOK
<1>6. loop' \in LoopType
  BY DeleteOutcomes DEF TypeOK, ControllerTypeOK
<1>7. /\ bound' \in BOOLEAN /\ pc' \in PC
      /\ pvs' \in {"workspace", "network", "done"}
      /\ vpc' \in {"vpc", "subnet", "sg", "lb", "done"}
  BY DEF TypeOK, ControllerTypeOK, PC, DeleteFails, DeleteDone, DeleteRequeues
<1>. QED BY <1>1, <1>2, <1>3, <1>4, <1>5, <1>6, <1>7 DEF TypeOK, ControllerTypeOK

LEMMA DeleteEndsTypeOK == TypeOK /\ DeleteEnds => TypeOK'
<1> SUFFICES ASSUME TypeOK, DeleteEnds PROVE TypeOK'
  OBVIOUS
<1> USE ResourceNames, ConditionNames
<1> USE DEF DeleteEnds
<1>1. CloudTypeOK'
  BY CloudOutcomes DEF TypeOK, CloudStates
<1>2. ApiTypeOK'
  BY DEF TypeOK, ApiTypeOK, apiVars
<1>3. faults' \in 0..MaxFaults
  BY FaultArithmetic DEF TypeOK
<1>4. local' \in ObjectType
  BY DEF TypeOK, ControllerTypeOK, ObjectType, ConditionStatus
<1>5. res' \in ResultType
  BY EmptyRecords DEF TypeOK, ControllerTypeOK
<1>6. loop' \in LoopType
  BY EmptyRecords DEF TypeOK, ControllerTypeOK
<1>7. /\ bound' \in BOOLEAN /\ pc' \in PC
      /\ pvs' \in {"workspace", "network", "done"}
      /\ vpc' \in {"vpc", "subnet", "sg", "lb", "done"}
  BY DEF TypeOK, ControllerTypeOK, PC
<1>. QED BY <1>1, <1>2, <1>3, <1>4, <1>5, <1>6, <1>7 DEF TypeOK, ControllerTypeOK

\* IBM Cloud, the user and the other controllers.
LEMMA EnvironmentTypeOK == TypeOK /\ Environment => TypeOK'
<1> SUFFICES ASSUME TypeOK, Environment PROVE TypeOK'
  OBVIOUS
<1>1. ASSUME NEW r \in Res, CloudReady(r) \/ CloudFail(r) \/ CloudVanish(r) \/ CloudDeleted(r)
      PROVE TypeOK'
  <2>1. cloud' \in [Res -> CloudStates]
    BY <1>1 DEF TypeOK, CloudTypeOK, CloudStates, CloudReady, CloudFail, CloudVanish, CloudDeleted
  <2>2. faults' \in 0..MaxFaults
    BY <1>1, FaultArithmetic DEF TypeOK, CloudReady, CloudFail, CloudVanish, CloudDeleted, NoFault
  <2>3. UNCHANGED <<created, dup, keys, secret, apiVars, ctlVars>>
    BY <1>1 DEF CloudReady, CloudFail, CloudVanish, CloudDeleted
  <2>4. CloudTypeOK'
    BY <2>1, <2>3 DEF TypeOK, CloudTypeOK
  <2>5. ApiTypeOK' /\ ControllerTypeOK'
    BY <2>3 DEF TypeOK, ApiTypeOK, ControllerTypeOK, apiVars, ctlVars
  <2> QED BY <2>2, <2>4, <2>5 DEF TypeOK
<1>2. ASSUME NEW m \in Images, ImageDeleted(m) PROVE TypeOK'
  <2>1. images' \in [Images -> {"live", "deleting", "gone"}]
    BY <1>2 DEF ImageDeleted, TypeOK, ApiTypeOK
  <2>2. UNCHANGED <<cloudVars, stored, phase, gate, recorded, ctlVars, faults>>
    BY <1>2 DEF ImageDeleted
  <2> QED BY <2>1, <2>2 DEF TypeOK, CloudTypeOK, ApiTypeOK, ControllerTypeOK, cloudVars, ctlVars
<1>3. ASSUME RequestDelete \/ OpenGate \/ Pause PROVE TypeOK'
  <2>1. /\ phase' \in {"live", "deleting", "gone"}
        /\ gate' \in {"noOwner", "paused", "open"}
        /\ UNCHANGED <<cloudVars, stored, images, recorded, ctlVars>>
    BY <1>3 DEF RequestDelete, OpenGate, Pause, TypeOK, ApiTypeOK
  <2>2. faults' \in 0..MaxFaults
    BY <1>3, FaultArithmetic DEF TypeOK, RequestDelete, OpenGate, Pause, NoFault
  <2> QED BY <2>1, <2>2 DEF TypeOK, CloudTypeOK, ApiTypeOK, ControllerTypeOK, cloudVars, ctlVars
<1>. QED BY <1>1, <1>2, <1>3 DEF Environment

\* What the patch helper writes is an object.
LEMMA PatchedObject ==
    ASSUME TypeOK, NEW parts
    PROVE Patched(parts) \in ObjectType
<1>1. Summarized(local) \in ObjectType
  <2>1. \A cond : SummaryCondition(cond) \in ConditionStatus
    BY DEF SummaryCondition, ConditionStatus
  <2>2. "Ready" \in Conditions
    BY DEF Conditions
  <2> QED BY <2>1, <2>2, ObjectUpdates DEF Summarized, TypeOK, ControllerTypeOK
<1>2. stored \in ObjectType
  BY DEF TypeOK, ApiTypeOK
<1>. QED BY <1>1, <1>2 DEF Patched, ObjectType

LEMMA PatchTypeOK == TypeOK /\ Patch => TypeOK'
<1> SUFFICES ASSUME TypeOK, Patch PROVE TypeOK'
  OBVIOUS
<1>1. PICK parts \in SUBSET PatchParts :
        /\ IF parts = PatchParts THEN NoFault ELSE Fault("patch")
        /\ stored' = Patched(parts)
        /\ recorded' = recorded \cup stored'.id
        /\ phase' = IF phase = "deleting" /\ ~stored'.finalizer THEN "gone" ELSE phase
  BY DEF Patch
<1>2. stored' \in ObjectType
  BY <1>1, PatchedObject
<1>3. ApiTypeOK'
  BY <1>1, <1>2 DEF Patch, TypeOK, ApiTypeOK, ObjectType
<1>4. CloudTypeOK'
  BY CloudOutcomes DEF Patch, TypeOK
<1>5. ControllerTypeOK'
  BY EmptyRecords DEF Patch, ForgetAll, ControllerTypeOK, PC
<1>6. faults' \in 0..MaxFaults
  BY <1>1, FaultArithmetic DEF TypeOK
<1>. QED BY <1>3, <1>4, <1>5, <1>6 DEF TypeOK

\* The start of a reconcile, and the manager's crash.
LEMMA ReconcileStartsTypeOK ==
    TypeOK /\ (EnsureFinalizer \/ StartReconcile \/ Crash) => TypeOK'
<1> SUFFICES ASSUME TypeOK, EnsureFinalizer \/ StartReconcile \/ Crash PROVE TypeOK'
  OBVIOUS
<1>1. CASE EnsureFinalizer
  <2>1. stored' \in ObjectType
    BY <1>1, ObjectUpdates DEF EnsureFinalizer, TypeOK, ApiTypeOK
  <2> QED BY <1>1, <2>1 DEF EnsureFinalizer, TypeOK, CloudTypeOK, ApiTypeOK, ControllerTypeOK,
                            cloudVars, ctlVars
<1>2. CASE StartReconcile
  <2>1. local' \in ObjectType /\ bound' \in BOOLEAN /\ pc' \in PC
    BY <1>2 DEF StartReconcile, TypeOK, ApiTypeOK, PC
  <2> QED BY <1>2, <2>1 DEF StartReconcile, TypeOK, CloudTypeOK, ApiTypeOK, ControllerTypeOK,
                            cloudVars, apiVars
<1>3. CASE Crash
  <2>1. ControllerTypeOK'
    BY <1>3, EmptyRecords DEF Crash, ForgetAll, ControllerTypeOK, PC
  <2>2. faults' \in 0..MaxFaults
    BY <1>3, FaultArithmetic DEF Crash, TypeOK
  <2> QED BY <1>3, <2>1, <2>2 DEF Crash, TypeOK, CloudTypeOK, ApiTypeOK, cloudVars, apiVars
<1>. QED BY <1>1, <1>2, <1>3

\* Every step keeps every variable in its type.
LEMMA NextTypeOK == TypeOK /\ [Next]_vars => TypeOK'
<1> SUFFICES ASSUME TypeOK, [Next]_vars PROVE TypeOK'
  OBVIOUS
<1>1. CASE Environment
  BY <1>1, EnvironmentTypeOK
<1>2. CASE EnsureFinalizer \/ StartReconcile \/ Crash
  BY <1>2, ReconcileStartsTypeOK
<1>3. CASE ReconcileStep
  BY <1>3, PrepareTypeOK, ReconcileWorkspaceTypeOK, ReconcileNetworkTypeOK,
     ReconcileVPCTypeOK, ReconcileVPCSubnetsTypeOK, ReconcileVPCSecurityGroupsTypeOK,
     ReconcileLoadBalancersTypeOK, JoinTypeOK, ReconcileTransitGatewayTypeOK,
     ReconcileConnectionTypeOK, ReconcileCOSInstanceTypeOK, ReconcileCOSHMACKeyTypeOK,
     FinishTypeOK
  DEF ReconcileStep
<1>4. CASE DeleteStep
  BY <1>4, DeleteImagesTypeOK, DeleteTransitGatewayTypeOK, DeleteLoadBalancerTypeOK,
     DeleteVPCSecurityGroupsTypeOK, DeleteVPCSubnetsTypeOK, DeleteVPCTypeOK,
     DeleteDHCPServerTypeOK, DeleteWorkspaceTypeOK, DeleteCOSInstanceTypeOK, DeleteEndsTypeOK
  DEF DeleteStep
<1>5. CASE Patch
  BY <1>5, PatchTypeOK
<1>6. CASE ReconcileNotFound \/ UNCHANGED vars
  <2>1. UNCHANGED <<cloudVars, apiVars, ctlVars, faults>>
    BY <1>6 DEF ReconcileNotFound, vars
  <2> QED BY <2>1 DEF TypeOK, CloudTypeOK, ApiTypeOK, ControllerTypeOK, cloudVars, apiVars, ctlVars
<1>. QED BY <1>1, <1>2, <1>3, <1>4, <1>5, <1>6 DEF Next, Controller

\* Type correctness: whatever the lists of the spec, the references and the
\* failures are, the controller only ever persists well-formed objects and its
\* two goroutines and its delete chain only meet at their program points.
THEOREM TypeCorrect == Spec => []TypeOK
<1>. QED BY InitTypeOK, NextTypeOK, PTL DEF Spec

----------------------------------------------------------------------------
(***************************************************************************)
(* Part 2: references and reported conditions.                             *)
(***************************************************************************)

----------------------------------------------------------------------------
(* What the user only refers to is never touched.                          *)

\* The inductive invariant.  NoForeignDelete alone does not survive somebody
\* else deleting what this controller created: that must not be a reference.
OwnsNothingReferenced ==
    /\ NoForeignDelete
    /\ created \cap Referenced = {}

\* Calls for resources that are not references keep the invariant.
LEMMA OwnCalls ==
    ASSUME TypeOK, OwnsNothingReferenced
    PROVE /\ UNCHANGED <<cloud, created>> => OwnsNothingReferenced'
          /\ UNCHANGED cloudVars => OwnsNothingReferenced'
          /\ \A r, state : r \notin Referenced /\ CreateAs(r, state) => OwnsNothingReferenced'
          /\ \A r : r \notin Referenced /\ StartDelete(r) => OwnsNothingReferenced'
          /\ \A r, state : /\ r \notin Referenced
                           /\ cloud' = [cloud EXCEPT ![r] = state] /\ UNCHANGED created
                           => OwnsNothingReferenced'
BY ReferenceAssumption DEF TypeOK, CloudTypeOK, OwnsNothingReferenced, NoForeignDelete,
    CreateAs, StartDelete, cloudVars

\* What goes away with a resource that is not a reference is none either.
LEMMA CascadeNotReferenced ==
    ASSUME NEW r, r \notin Referenced
    PROVE Cascade(r) \cap Referenced = {}
BY NestingAssumption DEF Cascade

LEMMA EnvironmentOwnsNothing ==
    TypeOK /\ OwnsNothingReferenced /\ Environment => OwnsNothingReferenced'
<1> SUFFICES ASSUME TypeOK, OwnsNothingReferenced, Environment PROVE OwnsNothingReferenced'
  OBVIOUS
<1>1. ASSUME NEW r \in Res, CloudReady(r) \/ CloudFail(r) \/ CloudDeleted(r) \/ CloudVanish(r)
      PROVE OwnsNothingReferenced'
  <2>1. r \notin Referenced
    BY <1>1 DEF CloudReady, CloudFail, CloudDeleted, CloudVanish, OwnsNothingReferenced,
                NoForeignDelete
  <2>2. CASE CloudReady(r) \/ CloudFail(r)
    BY <2>1, <2>2, OwnCalls DEF CloudReady, CloudFail
  <2>3. CASE CloudDeleted(r) \/ CloudVanish(r)
    <3>1. created' = created
      BY <2>3 DEF CloudDeleted, CloudVanish
    <3>2. \A x \in Referenced : x \in Res /\ x # r /\ x \notin Cascade(r)
      BY <2>1, CascadeNotReferenced, ReferenceAssumption
    <3>3. \A x \in Referenced : cloud'[x] = cloud[x]
      BY <2>3, <3>2 DEF CloudDeleted, CloudVanish
    <3> QED BY <3>1, <3>3 DEF OwnsNothingReferenced, NoForeignDelete
  <2> QED BY <1>1, <2>2, <2>3
<1>2. ASSUME \/ \E m \in Images : ImageDeleted(m)
             \/ RequestDelete \/ OpenGate \/ Pause
      PROVE OwnsNothingReferenced'
  BY <1>2, OwnCalls DEF ImageDeleted, RequestDelete, OpenGate, Pause
<1>. QED BY <1>1, <1>2 DEF Environment

\* The create path creates provisioned resources only.
LEMMA ReconcileOwnsNothing ==
    TypeOK /\ OwnsNothingReferenced /\ ReconcileStep => OwnsNothingReferenced'
<1> SUFFICES ASSUME TypeOK, OwnsNothingReferenced, ReconcileStep PROVE OwnsNothingReferenced'
  OBVIOUS
<1> USE OwnCalls DEF Provision
<1>1. CASE Prepare \/ Join \/ Finish
  BY <1>1 DEF Prepare, Join, Finish
<1>2. CASE ReconcileWorkspace
  BY <1>2 DEF ReconcileWorkspace, VerifyWorkspace, ResolveWorkspace, CreateWorkspace, WorkspaceError
<1>3. CASE ReconcileNetwork
  BY <1>3 DEF ReconcileNetwork, VerifyNetwork, ResolveNetwork, CreateNetwork, NetworkError
<1>4. CASE ReconcileVPC
  BY <1>4 DEF ReconcileVPC, VerifyVPC, ResolveVPC, CreateVPC, VPCError
<1>5. CASE ReconcileVPCSubnets
  BY <1>5 DEF ReconcileVPCSubnets, VerifySubnet, ResolveSubnet, CreateSubnet, SubnetError
<1>6. CASE ReconcileVPCSecurityGroups
  BY <1>6 DEF ReconcileVPCSecurityGroups, ResolveSecurityGroup, CreateSecurityGroup,
              SecurityGroupError
<1>7. CASE ReconcileLoadBalancers
  BY <1>7 DEF ReconcileLoadBalancers, VerifyLoadBalancer, RecoverLoadBalancer,
              CreateLoadBalancer, LoadBalancerError, LoadBalancersReconciled
<1>8. CASE ReconcileTransitGateway
  BY <1>8 DEF ReconcileTransitGateway, CheckTransitGateway, RecoverTransitGateway,
              CreateTransitGateway, TransitGatewayError
<1>9. CASE ReconcileConnection
  BY <1>9 DEF ReconcileConnection, CheckConnection, CreateConnection, ConnectionError
<1>10. CASE ReconcileCOSInstance
  BY <1>10 DEF ReconcileCOSInstance, ResolveCOSInstance, CreateCOSInstance, COSError
<1>11. CASE ReconcileCOSHMACKey
  BY <1>11 DEF ReconcileCOSHMACKey, KeepHMACKey, IssueHMACKey, HMACKeyLost, COSError
<1>. QED BY <1>1, <1>2, <1>3, <1>4, <1>5, <1>6, <1>7, <1>8, <1>9, <1>10, <1>11
         DEF ReconcileStep

\* Every Delete method asks for the source type before it deletes.
LEMMA DeleteOwnsNothing ==
    TypeOK /\ OwnsNothingReferenced /\ DeleteStep => OwnsNothingReferenced'
<1> SUFFICES ASSUME TypeOK, OwnsNothingReferenced, DeleteStep PROVE OwnsNothingReferenced'
  OBVIOUS
<1> USE OwnCalls DEF Provision, CallFails, DeleteLoopEnds
<1>1. CASE DeleteImages \/ DeleteEnds
  BY <1>1 DEF DeleteImages, DeleteEnds
<1>2. CASE DeleteTransitGateway
  BY <1>2 DEF DeleteTransitGateway, DeleteTransitGatewayConnection, ConnectionToDelete,
              OwnedConnection
<1>3. CASE DeleteLoadBalancer
  BY <1>3 DEF DeleteLoadBalancer, DeleteOneLoadBalancer
<1>4. CASE DeleteVPCSecurityGroups
  BY <1>4 DEF DeleteVPCSecurityGroups, DeleteOneSecurityGroup
<1>5. CASE DeleteVPCSubnets
  BY <1>5 DEF DeleteVPCSubnets, DeleteOneSubnet
<1>6. CASE DeleteVPC
  BY <1>6 DEF DeleteVPC
<1>7. CASE DeleteDHCPServer
  BY <1>7 DEF DeleteDHCPServer, ManagedDHCPServer
<1>8. CASE DeleteWorkspace
  BY <1>8 DEF DeleteWorkspace
<1>9. CASE DeleteCOSInstance
  BY <1>9 DEF DeleteCOSInstance, ManagedCOS
<1>. QED BY <1>1, <1>2, <1>3, <1>4, <1>5, <1>6, <1>7, <1>8, <1>9 DEF DeleteStep

\* The resources the user refers to stay up whatever the status says, however
\* often the manager stops, and whichever calls and patches fail.
THEOREM ReferencesAreSafe == Spec => []NoForeignDelete
<1>1. Init => OwnsNothingReferenced
  BY ReferenceAssumption DEF Init, OwnsNothingReferenced, NoForeignDelete
<1>2. TypeOK /\ OwnsNothingReferenced /\ [Next]_vars => OwnsNothingReferenced'
  <2> SUFFICES ASSUME TypeOK, OwnsNothingReferenced, [Next]_vars PROVE OwnsNothingReferenced'
    OBVIOUS
  <2>1. CASE EnsureFinalizer \/ StartReconcile \/ Patch \/ Crash
    BY <2>1, OwnCalls DEF EnsureFinalizer, StartReconcile, Patch, Crash
  <2>2. CASE ReconcileNotFound \/ UNCHANGED vars
    BY <2>2, OwnCalls DEF ReconcileNotFound, vars
  <2> QED BY <2>1, <2>2, EnvironmentOwnsNothing, ReconcileOwnsNothing, DeleteOwnsNothing
          DEF Next, Controller
<1>3. OwnsNothingReferenced => NoForeignDelete
  BY DEF OwnsNothingReferenced
<1>. QED BY <1>1, <1>2, <1>3, TypeCorrect, PTL DEF Spec

----------------------------------------------------------------------------
(* A condition that is true never outruns the IDs it speaks of.            *)

ProvisionedSubnets == {s \in SubnetSet : Provision(s)}

\* The conditions of cond that are true have their IDs in the stored status.
BackedIn(cond) ==
    /\ cond["WorkspaceReady"] = "true" => "workspace" \in stored.id
    /\ cond["NetworkReady"] = "true" => "network" \in stored.id
    /\ cond["VPCSubnetReady"] = "true" => ProvisionedSubnets \subseteq stored.id

BeforeWorkspace == pc = "prepare" \/ (pc = "components" /\ pvs = "workspace")
BeforeNetwork == pc = "prepare" \/ (pc = "components" /\ pvs # "done")
AtSubnets == pc = "components" /\ vpc = "subnet"
BeforeSubnets == pc = "prepare" \/ (pc = "components" /\ vpc = "vpc")
CreatePC == {"prepare", "components", "tg", "vpcConn", "pvsConn", "cos", "hmac",
             "finish", "patch"}

\* The client is bound exactly to what the read object recorded.
BoundInv ==
    /\ BeforeWorkspace /\ "workspace" \in local.id => bound
    /\ pc = "components" /\ pvs = "network" => bound

\* While the object is wanted, the copy in memory is ahead of the stored one,
\* every condition in memory or collected speaks of stored IDs only, and an ID
\* recorded in this reconcile sets the flag that keeps the condition from it.
AheadInv ==
    /\ pc \in CreatePC
    /\ stored.id \subseteq local.id
    /\ BackedIn(local.cond)
    /\ bound => "workspace" \in stored.id
    /\ BeforeNetwork /\ "network" \in local.id => "network" \in stored.id
    /\ BeforeSubnets \/ (AtSubnets /\ ~loop.flag) =>
            local.id \cap ProvisionedSubnets \subseteq stored.id
    /\ AtSubnets => \A j \in DOMAIN Subnets : j < loop.i => Subnets[j] \in local.id

BackedInv ==
    /\ BoundInv
    /\ phase = "live" =>
         /\ BackedIn(stored.cond) /\ BackedIn(res.cond)
         /\ pc # "idle" => AheadInv

\* A step collects no condition that is true, or none but the one it names.
NoNewTrue == \A d \in ConditionTypes : res'.cond[d] = "true" => res.cond[d] = "true"
NewTrueOnly(c) ==
    \A d \in ConditionTypes \ {c} : res'.cond[d] = "true" => res.cond[d] = "true"

\* What recording an ID does to the object.
LEMMA RecordEffects ==
    ASSUME local \in ObjectType
    PROVE /\ \A r : Record(r) =>
                local'.id = local.id \cup {r} /\ local'.cond = local.cond
          /\ \A l, hostname : SetLoadBalancerStatus(l, hostname) =>
                local'.id = local.id \cup {l} /\ local'.cond = local.cond
BY DEF Record, SetLoadBalancerStatus, ObjectType

\* Which conditions each outcome collects, and where it leaves its goroutine.
LEMMA PowerVSEffects ==
    ASSUME res \in ResultType
    PROVE /\ \A c \in ConditionTypes : PowerVSFails(c) => pvs' = "done" /\ NoNewTrue
          /\ PowerVSRequeues => pvs' = "done" /\ NoNewTrue
          /\ NetworkPending => pvs' = "done" /\ NoNewTrue
          /\ \A c \in ConditionTypes : res' = [res EXCEPT !.cond[c] = "true"] => NewTrueOnly(c)
BY DEF PowerVSFails, PowerVSRequeues, NetworkPending, ResultType, NoNewTrue, NewTrueOnly

LEMMA VPCEffects ==
    ASSUME res \in ResultType, loop \in LoopType
    PROVE /\ \A c \in ConditionTypes :
                VPCFails(c) => vpc' = "done" /\ NoNewTrue
          /\ VPCRequeues => vpc' = "done" /\ NoNewTrue
          /\ \A next : \A c \in ConditionTypes :
                VPCProceeds(c, next) => vpc' = next /\ loop' = NoLoop /\ NewTrueOnly(c)
          /\ \A flag \in BOOLEAN : NextIteration(flag) =>
                vpc' = vpc /\ NoNewTrue /\ loop'.i = loop.i + 1 /\ loop'.flag = (loop.flag \/ flag)
<1>1. \A c \in ConditionTypes : VPCFails(c) => vpc' = "done" /\ NoNewTrue
  BY DEF VPCFails, ResultType, NoNewTrue
<1>2. VPCRequeues => vpc' = "done" /\ NoNewTrue
  BY DEF VPCRequeues, ResultType, NoNewTrue
<1>3. \A next : \A c \in ConditionTypes :
        VPCProceeds(c, next) => vpc' = next /\ loop' = NoLoop /\ NewTrueOnly(c)
  BY DEF VPCProceeds, ResultType, NewTrueOnly
<1>4. \A flag \in BOOLEAN : NextIteration(flag) =>
        vpc' = vpc /\ NoNewTrue /\ loop'.i = loop.i + 1 /\ loop'.flag = (loop.flag \/ flag)
  BY DEF NextIteration, LoopType, NoNewTrue
<1>. QED BY <1>1, <1>2, <1>3, <1>4

\* The names the invariant tells apart are different resources.
LEMMA DistinctNames ==
    \A s \in SubnetSet \cup SecurityGroupSet \cup LoadBalancerSet :
        s \notin {"resourceGroup", "workspace", "network", "vpc"}
BY DistinctAssumption DEF Singletons

LEMMA GroupNames ==
    /\ \A g \in SecurityGroupSet \cup LoadBalancerSet : g \notin ProvisionedSubnets
    /\ \A r \in {"resourceGroup", "workspace", "network", "vpc"} : r \notin ProvisionedSubnets
BY DistinctAssumption DEF Singletons, ProvisionedSubnets

\* Steps outside the two goroutines that only add IDs and leave the three
\* conditions alone.
LEMMA LateStepBacked ==
    ASSUME BackedInv, UNCHANGED <<stored, phase, bound, res>>,
           pc \in CreatePC, pc' \in CreatePC \ {"prepare", "components"},
           local.id \subseteq local'.id,
           \A c \in {"WorkspaceReady", "NetworkReady", "VPCSubnetReady"} :
                local'.cond[c] = local.cond[c]
    PROVE BackedInv'
BY DEF BackedInv, BoundInv, AheadInv, BackedIn, BeforeWorkspace, BeforeNetwork, AtSubnets,
       BeforeSubnets, CreatePC

LEMMA ReconcileWorkspaceBacked == TypeOK /\ BackedInv /\ ReconcileWorkspace => BackedInv'
<1> SUFFICES ASSUME TypeOK, BackedInv, ReconcileWorkspace PROVE BackedInv'
  OBVIOUS
<1>1. /\ pc = "components" /\ pvs = "workspace" /\ pc' = pc
      /\ UNCHANGED <<stored, phase, bound, vpc, loop>>
  BY DEF ReconcileWorkspace, apiVars
<1>2. res \in ResultType /\ local \in ObjectType
  BY DEF TypeOK, ControllerTypeOK
<1>3. \/ local' = local
      \/ pvs' = "done" /\ local'.id = local.id \cup {"workspace"} /\ local'.cond = local.cond
  BY <1>2, RecordEffects, PowerVSEffects
     DEF ReconcileWorkspace, VerifyWorkspace, ResolveWorkspace, CreateWorkspace, WorkspaceError
<1>4. \/ pvs' = "done" /\ NoNewTrue
      \/ /\ pvs' = "network" /\ local' = local /\ "workspace" \in local.id
         /\ NewTrueOnly("WorkspaceReady")
  BY <1>2, PowerVSEffects, ConditionNames
     DEF ReconcileWorkspace, VerifyWorkspace, ResolveWorkspace, CreateWorkspace, WorkspaceError
<1>5. BoundInv'
  BY <1>1, <1>3, <1>4 DEF BackedInv, BoundInv, BeforeWorkspace
<1>6. phase = "live" => BackedIn(res.cond)'
  BY <1>1, <1>4, ConditionNames
     DEF BackedInv, BoundInv, BeforeWorkspace, AheadInv, BackedIn, NoNewTrue, NewTrueOnly
<1>7. phase = "live" => AheadInv'
  BY <1>1, <1>3, <1>4, GroupNames
     DEF BackedInv, AheadInv, BackedIn, BeforeNetwork, BeforeSubnets, AtSubnets
<1>. QED BY <1>1, <1>5, <1>6, <1>7 DEF BackedInv, BackedIn

LEMMA ReconcileNetworkBacked == TypeOK /\ BackedInv /\ ReconcileNetwork => BackedInv'
<1> SUFFICES ASSUME TypeOK, BackedInv, ReconcileNetwork PROVE BackedInv'
  OBVIOUS
<1>1. /\ pc = "components" /\ pvs = "network" /\ pc' = pc
      /\ UNCHANGED <<stored, phase, bound, vpc, loop>>
  BY DEF ReconcileNetwork, apiVars
<1>2. res \in ResultType /\ local \in ObjectType
  BY DEF TypeOK, ControllerTypeOK
<1>3. \/ local' = local
      \/ local'.id = local.id \cup {"network"} /\ local'.cond = local.cond
  BY <1>2, RecordEffects
     DEF ReconcileNetwork, VerifyNetwork, ResolveNetwork, CreateNetwork, NetworkError
<1>4. /\ pvs' = "done"
      /\ \/ NoNewTrue
         \/ "network" \in local.id /\ NewTrueOnly("NetworkReady")
  BY <1>2, PowerVSEffects, ConditionNames
     DEF ReconcileNetwork, VerifyNetwork, ResolveNetwork, CreateNetwork, NetworkError
<1>5. BoundInv'
  BY <1>1, <1>4 DEF BackedInv, BoundInv, BeforeWorkspace
<1>6. phase = "live" => BackedIn(res.cond)'
  BY <1>1, <1>4, ConditionNames
     DEF BackedInv, AheadInv, BeforeNetwork, BackedIn, NoNewTrue, NewTrueOnly
<1>7. phase = "live" => AheadInv'
  BY <1>1, <1>3, <1>4, GroupNames
     DEF BackedInv, AheadInv, BackedIn, BeforeNetwork, BeforeSubnets, AtSubnets
<1>. QED BY <1>1, <1>5, <1>6, <1>7 DEF BackedInv, BackedIn

\* The facts about the PowerVS goroutine that the VPC one cannot disturb.
LEMMA VPCStepBound ==
    ASSUME BackedInv, UNCHANGED <<pc, pvs, bound>>,
           NEW S, local'.id = local.id \cup S, "workspace" \notin S
    PROVE BoundInv'
BY DEF BackedInv, BoundInv, BeforeWorkspace

LEMMA ReconcileVPCBacked == TypeOK /\ BackedInv /\ ReconcileVPC => BackedInv'
<1> SUFFICES ASSUME TypeOK, BackedInv, ReconcileVPC PROVE BackedInv'
  OBVIOUS
<1>1. /\ pc = "components" /\ vpc = "vpc"
      /\ UNCHANGED <<stored, phase, bound, pc, pvs>>
  BY DEF ReconcileVPC, apiVars
<1>2. res \in ResultType /\ local \in ObjectType /\ loop \in LoopType
  BY DEF TypeOK, ControllerTypeOK
<1>3. PICK S \in SUBSET {"vpc"} : local'.id = local.id \cup S /\ local'.cond = local.cond
  <2>1. local' = local \/ Record("vpc")
    BY DEF ReconcileVPC, VerifyVPC, ResolveVPC, CreateVPC, VPCError
  <2>2. {} \in SUBSET {"vpc"} /\ {"vpc"} \in SUBSET {"vpc"} /\ local.id \cup {} = local.id
    OBVIOUS
  <2> QED BY <1>2, <2>1, <2>2, RecordEffects
<1>4. \/ vpc' = "done" /\ NoNewTrue
      \/ vpc' = "subnet" /\ loop' = NoLoop /\ NewTrueOnly("VPCReady")
  BY <1>2, VPCEffects, ConditionNames DEF ReconcileVPC, VerifyVPC, ResolveVPC, CreateVPC, VPCError
<1>5. BoundInv'
  BY <1>1, <1>3, VPCStepBound
<1>6. phase = "live" => BackedIn(res.cond)'
  BY <1>1, <1>4, ConditionNames DEF BackedInv, BackedIn, NoNewTrue, NewTrueOnly
<1>7. phase = "live" => AheadInv'
  <2>1. vpc' = "subnet" => \A j \in DOMAIN Subnets : ~(j < loop'.i)
    BY <1>4, ListAssumption DEF NoLoop
  <2> QED BY <1>1, <1>3, <1>4, <2>1, GroupNames
          DEF BackedInv, AheadInv, BackedIn, BeforeNetwork, BeforeSubnets, AtSubnets
<1>. QED BY <1>1, <1>5, <1>6, <1>7 DEF BackedInv, BackedIn

LEMMA ReconcileVPCSubnetsBacked == TypeOK /\ BackedInv /\ ReconcileVPCSubnets => BackedInv'
<1> SUFFICES ASSUME TypeOK, BackedInv, ReconcileVPCSubnets PROVE BackedInv'
  OBVIOUS
<1>1. /\ pc = "components" /\ vpc = "subnet"
      /\ UNCHANGED <<stored, phase, bound, pc, pvs>>
  BY DEF ReconcileVPCSubnets, apiVars
<1>2. res \in ResultType /\ local \in ObjectType /\ loop \in LoopType
  BY DEF TypeOK, ControllerTypeOK
<1>3. ASSUME loop.i \in DOMAIN Subnets,
             LET s == Subnets[loop.i]
             IN VerifySubnet(s) \/ ResolveSubnet(s) \/ CreateSubnet(s) \/ SubnetError(s)
      PROVE BackedInv'
  <2> DEFINE s == Subnets[loop.i]
  <2>1. s \in SubnetSet
    BY <1>3, ResourceNames
  <2>2. PICK S \in SUBSET {s} : local'.id = local.id \cup S /\ local'.cond = local.cond
    <3>1. local' = local \/ Record(s)
      BY <1>3 DEF VerifySubnet, ResolveSubnet, CreateSubnet, SubnetError
    <3>2. {} \in SUBSET {s} /\ {s} \in SUBSET {s} /\ local.id \cup {} = local.id
      OBVIOUS
    <3> HIDE DEF s
    <3> QED BY <1>2, <3>1, <3>2, RecordEffects
  <2>3. NoNewTrue
    BY <1>2, <1>3, VPCEffects, ConditionNames
       DEF VerifySubnet, ResolveSubnet, CreateSubnet, SubnetError, Provision
  <2>4. \/ vpc' = "done"
        \/ /\ vpc' = "subnet" /\ loop'.i = loop.i + 1
           /\ s \in local'.id
           /\ \/ loop'.flag = TRUE
              \/ loop'.flag = loop.flag /\ (s \in local.id \/ ~Provision(s))
    <3>1. VerifySubnet(s) \/ ResolveSubnet(s) \/ CreateSubnet(s) \/ SubnetError(s)
      BY <1>3
    <3> HIDE DEF s
    <3>2. loop.flag \in BOOLEAN /\ Provision(s) \in BOOLEAN
      BY <1>2 DEF LoopType, Provision
    <3>3. CASE VerifySubnet(s)
      BY <1>1, <1>2, <3>2, <3>3, VPCEffects DEF VerifySubnet
    <3>4. CASE ResolveSubnet(s)
      <4>1. NextIteration(Provision(s)) /\ s \in local'.id
        BY <1>2, <3>4, RecordEffects DEF ResolveSubnet
      <4>2. /\ vpc' = vpc /\ loop'.i = loop.i + 1
            /\ loop'.flag = (loop.flag \/ Provision(s))
        BY <1>2, <3>2, <4>1, VPCEffects
      <4> QED BY <1>1, <3>2, <4>1, <4>2
    <3>5. CASE CreateSubnet(s)
      <4>1. VPCFails("VPCSubnetReady") \/ (NextIteration(TRUE) /\ s \in local'.id)
        BY <1>2, <3>5, RecordEffects DEF CreateSubnet
      <4> QED BY <1>1, <1>2, <3>2, <4>1, VPCEffects, ConditionNames
    <3>6. CASE SubnetError(s)
      BY <1>2, <3>6, VPCEffects, ConditionNames DEF SubnetError
    <3> QED BY <3>1, <3>3, <3>4, <3>5, <3>6
  <2>5. BoundInv'
    BY <1>1, <2>1, <2>2, VPCStepBound, DistinctNames
  <2>6. phase = "live" => BackedIn(res.cond)'
    BY <1>1, <2>3, ConditionNames DEF BackedInv, BackedIn, NoNewTrue
  <2>7. phase = "live" => AheadInv'
    <3> SUFFICES ASSUME phase = "live" PROVE AheadInv'
      OBVIOUS
    <3>1. AheadInv
      BY <1>1 DEF BackedInv
    <3>2. (BeforeNetwork /\ "network" \in local.id => "network" \in stored.id)'
      BY <1>1, <2>1, <2>2, <3>1, DistinctNames DEF AheadInv, BeforeNetwork
    <3>3. (BeforeSubnets \/ (AtSubnets /\ ~loop.flag) =>
                local.id \cap ProvisionedSubnets \subseteq stored.id)'
      BY <1>1, <2>2, <2>4, <3>1
         DEF AheadInv, BeforeSubnets, AtSubnets, ProvisionedSubnets
    <3>4. (AtSubnets => \A j \in DOMAIN Subnets : j < loop.i => Subnets[j] \in local.id)'
      BY <1>1, <1>2, <2>2, <2>4, <3>1, ListAssumption DEF AheadInv, AtSubnets, LoopType
    <3> QED BY <1>1, <2>2, <3>1, <3>2, <3>3, <3>4 DEF AheadInv, BackedIn
  <2> QED BY <1>1, <2>5, <2>6, <2>7 DEF BackedInv, BackedIn
<1>4. ASSUME loop.i \notin DOMAIN Subnets, local' = local,
             IF loop.flag THEN VPCRequeues ELSE VPCProceeds("VPCSubnetReady", "sg")
      PROVE BackedInv'
  <2>1. /\ vpc' \in {"done", "sg"}
        /\ \/ NoNewTrue
           \/ ~loop.flag /\ NewTrueOnly("VPCSubnetReady")
    BY <1>2, <1>4, VPCEffects, ConditionNames
  <2>2. \A j \in DOMAIN Subnets : j < loop.i
    BY <1>2, <1>4, ListAssumption DEF LoopType
  <2>3. phase = "live" /\ ~loop.flag => ProvisionedSubnets \subseteq stored.id
    BY <1>1, <2>2 DEF BackedInv, AheadInv, AtSubnets, ProvisionedSubnets, SubnetSet, Elems
  <2>4. phase = "live" => BackedIn(res.cond)'
    BY <1>1, <2>1, <2>3, ConditionNames DEF BackedInv, BackedIn, NoNewTrue, NewTrueOnly
  <2>5. BoundInv' /\ (phase = "live" => AheadInv')
    BY <1>1, <1>4, <2>1 DEF BackedInv, BoundInv, BeforeWorkspace, AheadInv, BackedIn,
                            BeforeNetwork, BeforeSubnets, AtSubnets
  <2> QED BY <1>1, <2>4, <2>5 DEF BackedInv, BackedIn
<1>. QED BY <1>3, <1>4 DEF ReconcileVPCSubnets

\* Security groups and load balancers come after the subnets.
LEMMA AfterSubnetsBacked ==
    TypeOK /\ BackedInv /\ (ReconcileVPCSecurityGroups \/ ReconcileLoadBalancers) => BackedInv'
<1> SUFFICES ASSUME TypeOK, BackedInv, ReconcileVPCSecurityGroups \/ ReconcileLoadBalancers
             PROVE BackedInv'
  OBVIOUS
<1>1. /\ pc = "components"
      /\ UNCHANGED <<stored, phase, bound, pc, pvs>>
  BY DEF ReconcileVPCSecurityGroups, ReconcileLoadBalancers, apiVars
<1>2. res \in ResultType /\ local \in ObjectType /\ loop \in LoopType
  BY DEF TypeOK, ControllerTypeOK
<1>3. CASE ReconcileVPCSecurityGroups
  <2>1. /\ local'.id \in {local.id, local.id \cup SecurityGroupSet}
        /\ local'.cond = local.cond
    BY <1>2, <1>3 DEF ReconcileVPCSecurityGroups, ObjectType
  <2>2. vpc' \in {"sg", "lb", "done"} /\ NewTrueOnly("VPCSecurityGroupReady")
    <3>1. NoNewTrue => NewTrueOnly("VPCSecurityGroupReady")
      BY DEF NoNewTrue, NewTrueOnly
    <3> QED BY <1>2, <1>3, <3>1, VPCEffects, ConditionNames
            DEF ReconcileVPCSecurityGroups, ResolveSecurityGroup, CreateSecurityGroup,
                SecurityGroupError
  <2>3. BoundInv'
    BY <1>1, <2>1, DistinctNames DEF BackedInv, BoundInv, BeforeWorkspace
  <2>4. phase = "live" => BackedIn(res.cond)'
    BY <1>1, <2>2, ConditionNames DEF BackedInv, BackedIn, NewTrueOnly
  <2>5. phase = "live" => AheadInv'
    BY <1>1, <2>1, <2>2, DistinctNames
       DEF BackedInv, AheadInv, BackedIn, BeforeNetwork, BeforeSubnets, AtSubnets
  <2> QED BY <1>1, <2>3, <2>4, <2>5 DEF BackedInv, BackedIn
<1>4. CASE ReconcileLoadBalancers
  <2>1. PICK S \in SUBSET LoadBalancerSet :
            local'.id = local.id \cup S /\ local'.cond = local.cond
    <3>1. \/ local' = local
          \/ \E hostname : \E l \in LoadBalancerSet : SetLoadBalancerStatus(l, hostname)
      BY <1>4, ResourceNames
         DEF ReconcileLoadBalancers, VerifyLoadBalancer, RecoverLoadBalancer,
             CreateLoadBalancer, LoadBalancerError, LoadBalancersReconciled
    <3>2. /\ {} \in SUBSET LoadBalancerSet /\ local.id \cup {} = local.id
          /\ \A l \in LoadBalancerSet : {l} \in SUBSET LoadBalancerSet
      OBVIOUS
    <3> QED BY <1>2, <3>1, <3>2, RecordEffects
  <2>2. vpc' \in {"lb", "done"} /\ NewTrueOnly("VPCLoadBalancerReady")
    <3>1. NoNewTrue => NewTrueOnly("VPCLoadBalancerReady")
      BY DEF NoNewTrue, NewTrueOnly
    <3>2. LoadBalancersReconciled => vpc' = "done" /\ NewTrueOnly("VPCLoadBalancerReady")
      BY <1>2, PowerVSEffects, ConditionNames DEF LoadBalancersReconciled, NewTrueOnly
    <3> QED BY <1>2, <1>4, <3>1, <3>2, VPCEffects, ConditionNames
            DEF ReconcileLoadBalancers, VerifyLoadBalancer, RecoverLoadBalancer,
                CreateLoadBalancer, LoadBalancerError
  <2>3. BoundInv'
    BY <1>1, <2>1, VPCStepBound, DistinctNames
  <2>4. phase = "live" => BackedIn(res.cond)'
    BY <1>1, <2>2, ConditionNames DEF BackedInv, BackedIn, NewTrueOnly
  <2>5. phase = "live" => AheadInv'
    BY <1>1, <2>1, <2>2, DistinctNames
       DEF BackedInv, AheadInv, BackedIn, BeforeNetwork, BeforeSubnets, AtSubnets
  <2> QED BY <1>1, <2>3, <2>4, <2>5 DEF BackedInv, BackedIn
<1>. QED BY <1>3, <1>4

LEMMA PrepareBacked == TypeOK /\ BackedInv /\ Prepare => BackedInv'
<1> SUFFICES ASSUME TypeOK, BackedInv, Prepare PROVE BackedInv'
  OBVIOUS
<1>1. local \in ObjectType /\ pc = "prepare" /\ UNCHANGED <<stored, phase, bound, loop, res>>
  BY DEF Prepare, TypeOK, ControllerTypeOK, apiVars
<1>2. CASE pc' = "patch"
  <2>1. local'.id \in {local.id} /\ local'.cond = local.cond
    BY <1>1, <1>2 DEF Prepare, ObjectType
  <2> QED BY <1>1, <1>2, <2>1, LateStepBacked DEF CreatePC
<1>3. CASE pc' = "components" /\ pvs' = "workspace" /\ vpc' = "vpc" /\ Record("resourceGroup")
  <2>1. local'.id = local.id \cup {"resourceGroup"} /\ local'.cond = local.cond
    BY <1>1, <1>3, RecordEffects
  <2> QED BY <1>1, <1>3, <2>1, GroupNames
          DEF BackedInv, BoundInv, AheadInv, BackedIn, BeforeWorkspace, BeforeNetwork,
              BeforeSubnets, AtSubnets, CreatePC
<1>. QED BY <1>2, <1>3 DEF Prepare

\* Join moves the collected conditions into the object; both are backed.
LEMMA JoinBacked == TypeOK /\ BackedInv /\ Join => BackedInv'
<1> SUFFICES ASSUME TypeOK, BackedInv, Join PROVE BackedInv'
  OBVIOUS
<1>1. /\ pc = "components" /\ pc' \in {"patch", "tg"}
      /\ UNCHANGED <<stored, phase, bound>>
      /\ res' = NoResult /\ local'.id = local.id
  BY DEF Join, apiVars, TypeOK, ControllerTypeOK, ObjectType
<1>2. \A c \in ConditionTypes : local'.cond[c] \in {local.cond[c], res.cond[c]}
  BY ConditionNames DEF Join, TypeOK, ControllerTypeOK, ObjectType
<1>3. \A c \in ConditionTypes : NoResult.cond[c] # "true"
  BY DEF NoResult
<1>. QED BY <1>1, <1>2, <1>3, ConditionNames
         DEF BackedInv, BoundInv, AheadInv, BackedIn, BeforeWorkspace, BeforeNetwork,
             BeforeSubnets, AtSubnets, CreatePC

\* The gateway, its connections, COS and the end of reconcile.
LEMMA LateReconcileBacked ==
    TypeOK /\ BackedInv
    /\ (ReconcileTransitGateway \/ ReconcileConnection \/ ReconcileCOSInstance
        \/ ReconcileCOSHMACKey \/ Finish)
    => BackedInv'
<1> SUFFICES ASSUME TypeOK, BackedInv,
                    ReconcileTransitGateway \/ ReconcileConnection \/ ReconcileCOSInstance
                    \/ ReconcileCOSHMACKey \/ Finish
             PROVE BackedInv'
  OBVIOUS
<1>1. local \in ObjectType
  BY DEF TypeOK, ControllerTypeOK
<1>2. UNCHANGED <<stored, phase, bound, res>>
  BY DEF ReconcileTransitGateway, ReconcileConnection, ReconcileCOSInstance,
         ReconcileCOSHMACKey, Finish, apiVars
<1>3. pc \in CreatePC /\ pc' \in CreatePC \ {"prepare", "components"}
  <2>1. CASE ReconcileTransitGateway
    BY <2>1 DEF ReconcileTransitGateway, CheckTransitGateway, RecoverTransitGateway,
                CreateTransitGateway, TransitGatewayError, TransitGatewayFails,
                TransitGatewayRequeues, CreatePC
  <2>2. CASE ReconcileConnection
    BY <2>2 DEF ReconcileConnection, CheckConnection, CreateConnection, ConnectionError,
                ConnectionDone, TransitGatewayFails, CreatePC
  <2>3. CASE ReconcileCOSInstance
    BY <2>3 DEF ReconcileCOSInstance, ResolveCOSInstance, CreateCOSInstance, COSError,
                COSFails, CreatePC
  <2>4. CASE ReconcileCOSHMACKey
    BY <2>4 DEF ReconcileCOSHMACKey, KeepHMACKey, IssueHMACKey, HMACKeyLost, COSError,
                COSFails, COSReady, CreatePC
  <2>5. CASE Finish
    BY <2>5 DEF Finish, CreatePC
  <2> QED BY <2>1, <2>2, <2>3, <2>4, <2>5
<1>4. /\ local.id \subseteq local'.id
      /\ \A c \in {"WorkspaceReady", "NetworkReady", "VPCSubnetReady"} :
            local'.cond[c] = local.cond[c]
  <2> DEFINE Kept(o) == /\ local.id \subseteq o.id
                        /\ \A c \in {"WorkspaceReady", "NetworkReady", "VPCSubnetReady"} :
                              o.cond[c] = local.cond[c]
  <2>1. /\ Kept(local)
        /\ Kept([local EXCEPT !.cond["TransitGatewayReady"] = "false"])
        /\ Kept([local EXCEPT !.cond["COSInstanceReady"] = "false"])
        /\ Kept([local EXCEPT !.hmac = TRUE, !.cond["COSInstanceReady"] = "true"])
        /\ Kept([local EXCEPT !.endpoint = TRUE, !.provisioned = TRUE])
    BY <1>1 DEF ObjectType
  <2>2. ASSUME NEW r
        PROVE LET o == [local EXCEPT !.id = @ \cup {r}]
              IN /\ Kept(o)
                 /\ Kept([o EXCEPT !.cond["TransitGatewayReady"] = "false"])
                 /\ Kept([o EXCEPT !.cond["TransitGatewayReady"] = "true"])
                 /\ Kept([o EXCEPT !.cond["COSInstanceReady"] = "false"])
    BY <1>1 DEF ObjectType
  <2> SUFFICES Kept(local')
    BY DEF Kept
  <2> HIDE DEF Kept
  <2>3. CASE ReconcileTransitGateway
    <3>1. LET o == [local EXCEPT !.id = @ \cup {"tg"}]
          IN Kept(o) /\ Kept([o EXCEPT !.cond["TransitGatewayReady"] = "false"])
      BY <2>2
    <3>2. CASE CheckTransitGateway
      BY <3>1, <3>2 DEF CheckTransitGateway
    <3>3. CASE RecoverTransitGateway
      BY <3>1, <3>3 DEF RecoverTransitGateway, Record
    <3>4. CASE CreateTransitGateway
      BY <2>1, <3>1, <3>4 DEF CreateTransitGateway, TransitGatewayFails, SetCondition, Record
    <3>5. CASE TransitGatewayError
      BY <2>1, <3>5 DEF TransitGatewayError, TransitGatewayFails, SetCondition
    <3>. QED BY <2>3, <3>2, <3>3, <3>4, <3>5 DEF ReconcileTransitGateway
  <2>4. CASE ReconcileConnection
    BY <2>1, <2>2, <2>4 DEF ReconcileConnection, CheckConnection, CreateConnection,
                ConnectionError, ConnectionDone, TransitGatewayFails, SetCondition
  <2>5. CASE ReconcileCOSInstance
    BY <2>1, <2>2, <2>5 DEF ReconcileCOSInstance, ResolveCOSInstance, CreateCOSInstance,
                COSError, COSFails
  <2>6. CASE ReconcileCOSHMACKey
    BY <2>1, <2>2, <2>6 DEF ReconcileCOSHMACKey, KeepHMACKey, IssueHMACKey, HMACKeyLost,
                COSError, COSFails, COSReady
  <2>7. CASE Finish
    BY <2>1, <2>7 DEF Finish
  <2> QED BY <2>3, <2>4, <2>5, <2>6, <2>7
<1>. QED BY <1>2, <1>3, <1>4, LateStepBacked

\* The delete path runs only on an object that is no longer wanted.
LEMMA DeleteBacked == TypeOK /\ BackedInv /\ DeleteStep => BackedInv'
<1> SUFFICES ASSUME TypeOK, BackedInv, DeleteStep PROVE BackedInv'
  OBVIOUS
<1>1. pc # "idle" /\ pc \notin CreatePC /\ phase' = phase
  BY DEF DeleteStep, DeleteImages, DeleteTransitGateway, DeleteLoadBalancer,
         DeleteVPCSecurityGroups, DeleteVPCSubnets, DeleteVPC, DeleteDHCPServer,
         DeleteWorkspace, DeleteCOSInstance, DeleteEnds, CreatePC, apiVars
<1>2. pc' \notin {"prepare", "components"}
  <2> USE DEF DeleteFails, DeleteDone, DeleteRequeues
  <2>1. CASE DeleteImages \/ DeleteEnds
    BY <2>1 DEF DeleteImages, DeleteEnds
  <2>2. CASE DeleteTransitGateway
    BY <2>2 DEF DeleteTransitGateway, DeleteTransitGatewayConnection
  <2>3. CASE DeleteLoadBalancer
    BY <2>3 DEF DeleteLoadBalancer, DeleteOneLoadBalancer, NextDelete, DeleteLoopEnds
  <2>4. CASE DeleteVPCSecurityGroups
    BY <2>4 DEF DeleteVPCSecurityGroups, DeleteOneSecurityGroup, NextDelete, DeleteLoopEnds
  <2>5. CASE DeleteVPCSubnets
    BY <2>5 DEF DeleteVPCSubnets, DeleteOneSubnet, NextDelete, DeleteLoopEnds
  <2>6. CASE DeleteVPC \/ DeleteDHCPServer
    BY <2>6 DEF DeleteVPC, DeleteDHCPServer
  <2>7. CASE DeleteWorkspace \/ DeleteCOSInstance
    BY <2>7 DEF DeleteWorkspace, DeleteCOSInstance, AfterWorkspace
  <2> QED BY <2>1, <2>2, <2>3, <2>4, <2>5, <2>6, <2>7 DEF DeleteStep
<1>. QED BY <1>1, <1>2 DEF BackedInv, AheadInv, BoundInv, BeforeWorkspace

\* Whichever of the three patches succeed, the stored conditions are backed.
LEMMA PatchBacked == TypeOK /\ BackedInv /\ Patch => BackedInv'
<1> SUFFICES ASSUME TypeOK, BackedInv, Patch PROVE BackedInv'
  OBVIOUS
<1>1. PICK parts \in SUBSET PatchParts :
        /\ stored' = Patched(parts)
        /\ phase' = IF phase = "deleting" /\ ~stored'.finalizer THEN "gone" ELSE phase
  BY DEF Patch
<1>2. pc = "patch" /\ pc' = "idle" /\ res' = NoResult
  BY DEF Patch, ForgetAll
<1>3. /\ stored'.id \in {stored.id, local.id}
      /\ \/ stored'.cond = stored.cond
         \/ \A c \in ConditionTypes : stored'.cond[c] = local.cond[c]
  <2>1. Summarized(local).id = local.id
    BY DEF Summarized, TypeOK, ControllerTypeOK, ObjectType
  <2>2. \A c \in ConditionTypes : Summarized(local).cond[c] = local.cond[c]
    BY DEF Summarized, TypeOK, ControllerTypeOK, ObjectType, Conditions, ConditionTypes
  <2> QED BY <1>1, <2>1, <2>2 DEF Patched
<1>4. \A c \in ConditionTypes : NoResult.cond[c] # "true"
  BY DEF NoResult
<1>5. phase' = "live" => phase = "live"
  BY <1>1
<1>6. BoundInv'
  BY <1>2 DEF BoundInv, BeforeWorkspace
<1>7. phase = "live" => BackedIn(stored.cond)' /\ BackedIn(res.cond)'
  BY <1>2, <1>3, <1>4, ConditionNames DEF BackedInv, AheadInv, BackedIn
<1>. QED BY <1>2, <1>5, <1>6, <1>7 DEF BackedInv

\* The environment and the start of a reconcile.
LEMMA StartBacked ==
    TypeOK /\ BackedInv /\ (Environment \/ EnsureFinalizer \/ StartReconcile \/ Crash)
    => BackedInv'
<1> SUFFICES ASSUME TypeOK, BackedInv, Environment \/ EnsureFinalizer \/ StartReconcile \/ Crash
             PROVE BackedInv'
  OBVIOUS
<1>1. CASE Environment
  <2>1. UNCHANGED <<stored, ctlVars>> /\ (phase' = "live" => phase = "live")
    BY <1>1 DEF Environment, CloudReady, CloudFail, CloudVanish, CloudDeleted, ImageDeleted,
                RequestDelete, OpenGate, Pause, apiVars
  <2> QED BY <2>1 DEF ctlVars, BackedInv, BoundInv, AheadInv, BackedIn, BeforeWorkspace,
                      BeforeNetwork, BeforeSubnets, AtSubnets
<1>2. CASE EnsureFinalizer
  <2>1. /\ stored'.id = stored.id /\ stored'.cond = stored.cond
        /\ pc = "idle" /\ UNCHANGED <<phase, ctlVars>>
    BY <1>2 DEF EnsureFinalizer, TypeOK, ApiTypeOK, ObjectType
  <2> QED BY <2>1 DEF ctlVars, BackedInv, BoundInv, BackedIn, BeforeWorkspace
<1>3. CASE StartReconcile
  <2>1. /\ local' = stored /\ bound' = ("workspace" \in stored.id)
        /\ pc' = IF phase = "live" THEN "prepare" ELSE "images"
        /\ UNCHANGED <<stored, phase, res>>
    BY <1>3 DEF StartReconcile, apiVars
  <2> QED BY <2>1 DEF BackedInv, BoundInv, AheadInv, BackedIn, BeforeWorkspace,
                      BeforeNetwork, BeforeSubnets, AtSubnets, CreatePC
<1>4. CASE Crash
  <2>1. pc' = "idle" /\ res' = NoResult /\ UNCHANGED <<stored, phase>>
    BY <1>4 DEF Crash, ForgetAll, apiVars
  <2>2. \A c \in ConditionTypes : NoResult.cond[c] # "true"
    BY DEF NoResult
  <2> QED BY <2>1, <2>2, ConditionNames DEF BackedInv, BoundInv, BackedIn, BeforeWorkspace
<1>. QED BY <1>1, <1>2, <1>3, <1>4

\* A persisted Ready condition never outruns the persisted IDs it speaks of,
\* and no network step runs on an unbound client: the requeue after every
\* recorded ID makes it so, for any lists, references, failures and crashes.
THEOREM ConditionsAreBacked == Spec => []ReadyIsBacked
<1>1. Init => BackedInv
  <2>1. \A c \in ConditionTypes : NoResult.cond[c] # "true" /\ NewObject.cond[c] # "true"
    BY ConditionNames DEF NoResult, NewObject
  <2> QED BY <2>1, ConditionNames DEF Init, BackedInv, BoundInv, BackedIn, BeforeWorkspace
<1>2. TypeOK /\ BackedInv /\ [Next]_vars => BackedInv'
  <2> SUFFICES ASSUME TypeOK, BackedInv, [Next]_vars PROVE BackedInv'
    OBVIOUS
  <2>1. CASE ReconcileStep
    BY <2>1, PrepareBacked, ReconcileWorkspaceBacked, ReconcileNetworkBacked,
       ReconcileVPCBacked, ReconcileVPCSubnetsBacked, AfterSubnetsBacked, JoinBacked,
       LateReconcileBacked
    DEF ReconcileStep
  <2>2. CASE ReconcileNotFound \/ UNCHANGED vars
    <3>1. UNCHANGED <<apiVars, ctlVars>>
      BY <2>2 DEF ReconcileNotFound, vars
    <3> QED BY <3>1 DEF apiVars, ctlVars, BackedInv, BoundInv, AheadInv, BackedIn,
                        BeforeWorkspace, BeforeNetwork, BeforeSubnets, AtSubnets
  <2> QED BY <2>1, <2>2, StartBacked, DeleteBacked, PatchBacked DEF Next, Controller
<1>3. BackedInv => ReadyIsBacked
  BY DEF BackedInv, BoundInv, BackedIn, ProvisionedSubnets, ReadyIsBacked
<1>. QED BY <1>1, <1>2, <1>3, TypeCorrect, PTL DEF Spec

----------------------------------------------------------------------------
(***************************************************************************)
(* Part 3: the contract, and what is created and deleted.                  *)
(***************************************************************************)

DeletePC == {"images", "delTG", "delLB", "delSG", "delSubnet", "delVPC", "delDHCP",
             "delWorkspace", "delCOS", "delEnd"}
Connections == {"vpcConn", "pvsConn"}

----------------------------------------------------------------------------
(* The inductive invariant.                                                *)

\* The copy reports what the object reports.
GrowInv ==
    pc # "idle" => /\ stored.provisioned => local.provisioned
                   /\ stored.endpoint => local.endpoint

\* An object without finalizer was not reconciled yet, a wanted one keeps its
\* finalizer and nothing of it is being deleted.
FinalizerInv ==
    /\ phase = "live" /\ ~stored.finalizer => pc = "idle" /\ recorded = {}
    /\ phase = "live" => \A r \in Res : cloud[r] # "deleting"
    /\ phase = "live" /\ pc # "idle" => pc \in CreatePC /\ local.finalizer
    /\ pc \notin {"idle", "patch"} => local.finalizer

\* What was recorded and still exists is in the status and in the copy; on the
\* create path, and while the cluster is wanted, no ID was ever dropped.
TrackInv ==
    /\ stored.id \subseteq recorded
    /\ \A r \in recorded : Provision(r) /\ Exists(r) =>
          r \in stored.id /\ (pc # "idle" => r \in local.id)
    /\ phase = "live" \/ pc \in CreatePC \ {"patch"} => recorded \subseteq stored.id
    /\ (phase = "live" /\ pc # "idle") \/ pc \in CreatePC \ {"patch"} => stored.id \subseteq local.id
    /\ pc \in DeletePC => local.id \subseteq stored.id

\* Resources of S that were recorded, and are the cluster's own, are gone or going.
Cleared(S) == \A r \in S \cap recorded : Provision(r) => InfraGone(r)

\* Resources of S that are the cluster's own do not exist.
Absent(S) == \A r \in S : Provision(r) => ~Exists(r)

\* The finalizer goes only when nothing is left.
EndInv == pc = "patch" /\ ~local.finalizer => local.id \subseteq recorded /\ Cleared(Res)

LifeInv == GrowInv /\ FinalizerInv /\ TrackInv /\ EndInv

\* IDs come with the IDs of what they live in, and only in the topology for them.
Nested(id) ==
    /\ id \cap Connections # {} => "tg" \in id
    /\ "network" \in id => "workspace" \in id
    /\ "cos" \in id => HasCOS
    /\ id # {} => Topology = "LoadBalancer"

NestInv ==
    /\ Nested(stored.id)
    /\ pc # "idle" => Nested(local.id)
    /\ pc \in Connections => "tg" \in local.id
    /\ pc = "components" /\ pvs = "network" => "workspace" \in local.id
    /\ pc \in {"cos", "hmac"} => HasCOS
    /\ pc \in CreatePC \ {"prepare", "patch"} => Topology = "LoadBalancer"

\* A gateway that is gone or going has no connections.
GatewayInv ==
    /\ Provision("tg") /\ cloud["tg"] \in {"absent", "deleting"} =>
          ~Exists("vpcConn") /\ ~Exists("pvsConn")
    /\ pc \in Connections => cloud["tg"] \notin {"absent", "deleting"}

\* A workspace takes its network along.
WorkspaceInv ==
    /\ Provision("workspace") /\ cloud["workspace"] = "removed" => ~Exists("network")
    /\ pc = "components" /\ pvs = "network" => cloud["workspace"] = "active"

PlaceInv == NestInv /\ GatewayInv /\ WorkspaceInv

\* What the delete path has behind it, as long as nothing failed.
PassedInv ==
    ~res.err =>
    /\ pc \in DeletePC \ {"images", "delTG"} => Cleared(Connections \cup {"tg"})
    /\ pc = "delLB" /\ ~loop.flag /\ ~loop.err =>
          \A j \in DOMAIN LoadBalancers : j < loop.i => Absent({LoadBalancers[j]})
    /\ pc \in DeletePC \ {"images", "delTG", "delLB"} => Absent(LoadBalancerSet)
    /\ pc = "delSG" => \A j \in DOMAIN SecurityGroups : j < loop.i => Cleared({SecurityGroups[j]})
    /\ pc \in DeletePC \ {"images", "delTG", "delLB", "delSG"} => Cleared(SecurityGroupSet)
    /\ pc = "delSubnet" /\ ~loop.flag /\ ~loop.err =>
          \A j \in DOMAIN Subnets : j < loop.i => Absent({Subnets[j]} \cap recorded)
    /\ pc \in {"delVPC", "delDHCP", "delWorkspace", "delCOS", "delEnd"} => Absent(SubnetSet \cap recorded)
    /\ pc \in {"delDHCP", "delWorkspace", "delCOS", "delEnd"} => Cleared({"vpc"})
    /\ pc \in {"delWorkspace", "delCOS", "delEnd"} => Provision("workspace") \/ Cleared({"network"})
    /\ pc \in {"delCOS", "delEnd"} => Cleared({"workspace", "network"})
    /\ pc = "delEnd" => Cleared({"cos"})

ContractInv == LifeInv /\ PlaceInv /\ PassedInv

----------------------------------------------------------------------------
(* What the steps have in common.                                          *)

\* Nothing comes into being, and what is going stays so.
Wanes ==
    \A r \in Res : /\ cloud[r] = "absent" => cloud'[r] = "absent"
                   /\ cloud[r] \in {"absent", "deleting", "removed"} =>
                         cloud'[r] \in {"absent", "deleting", "removed"}

\* Such a step leaves alone what is known to be gone.
LEMMA WanesKeeps ==
    ASSUME Wanes, UNCHANGED recorded
    PROVE  /\ \A S : S \subseteq Res /\ Cleared(S) =>
                 \A r \in S \cap recorded : Provision(r) => cloud'[r] \in {"absent", "deleting", "removed"}
           /\ \A S : S \subseteq Res /\ Absent(S) =>
                 \A r \in S : Provision(r) => cloud'[r] = "absent"
BY DEF Wanes, Cleared, Absent, InfraGone, Exists

\* The copy grows on the create path.
GrowsTo(o) ==
    /\ local.id \subseteq o.id /\ o.finalizer = local.finalizer
    /\ local.provisioned => o.provisioned
    /\ local.endpoint => o.endpoint

LEMMA GrowsByUpdate ==
    ASSUME NEW o \in ObjectType, GrowsTo(o)
    PROVE  /\ \A S : GrowsTo([o EXCEPT !.id = o.id \cup S])
           /\ \A cond : GrowsTo([o EXCEPT !.cond = cond])
           /\ GrowsTo([o EXCEPT !.provisioned = TRUE])
           /\ GrowsTo([o EXCEPT !.endpoint = TRUE, !.provisioned = TRUE])
BY DEF ObjectType, GrowsTo

\* Resources are created on the create path, and their deletion is not asked for.
CreatesOnly == \A r \in Res : cloud'[r] = cloud[r] \/ cloud'[r] \in {"pending", "active"}

Grows ==
    /\ UNCHANGED <<stored, recorded, phase>>
    /\ pc \in CreatePC \ {"patch"} /\ pc' \in CreatePC \ {"prepare"}
    /\ GrowsTo(local') /\ CreatesOnly

LEMMA CreateCalls ==
    ASSUME TypeOK
    PROVE  /\ UNCHANGED cloudVars => CreatesOnly
           /\ UNCHANGED cloud => CreatesOnly
           /\ \A r : CreateAs(r, "pending") => CreatesOnly
           /\ \A r : CreateAs(r, "active") => CreatesOnly
BY DEF TypeOK, CloudTypeOK, CreatesOnly, CreateAs, cloudVars

LEMMA CreatePathGrows == TypeOK /\ ReconcileStep => Grows
<1>. SUFFICES ASSUME TypeOK, ReconcileStep PROVE Grows
  OBVIOUS
<1>. USE CreateCalls, ResourceNames DEF apiVars
<1>1. local \in ObjectType /\ GrowsTo(local)
  BY DEF TypeOK, ControllerTypeOK, GrowsTo
<1>2. \A S : GrowsTo([local EXCEPT !.id = @ \cup S])
  BY <1>1, GrowsByUpdate
<1>3. \A r : Record(r) => GrowsTo(local')
  BY <1>2 DEF Record
<1>4. \A l, hostname : SetLoadBalancerStatus(l, hostname) => GrowsTo(local')
  BY <1>1 DEF SetLoadBalancerStatus, ObjectType, GrowsTo
<1>5. CASE Prepare \/ Join \/ Finish
  <2>1. GrowsTo(local')
    BY <1>1, <1>3, <1>5, GrowsByUpdate DEF Prepare, Join, Finish
  <2>. QED BY <1>5, <2>1 DEF Grows, Prepare, Join, Finish, CreatePC
<1>6. CASE ReconcileWorkspace
  BY <1>1, <1>3, <1>6 DEF Grows, CreatePC, ReconcileWorkspace, VerifyWorkspace, ResolveWorkspace,
     CreateWorkspace, WorkspaceError
<1>7. CASE ReconcileNetwork
  BY <1>1, <1>3, <1>7 DEF Grows, CreatePC, ReconcileNetwork, VerifyNetwork, ResolveNetwork,
     CreateNetwork, NetworkError
<1>8. CASE ReconcileVPC
  BY <1>1, <1>3, <1>8 DEF Grows, CreatePC, ReconcileVPC, VerifyVPC, ResolveVPC, CreateVPC, VPCError
<1>9. CASE ReconcileVPCSubnets
  BY <1>1, <1>3, <1>9 DEF Grows, CreatePC, ReconcileVPCSubnets, VerifySubnet, ResolveSubnet,
     CreateSubnet, SubnetError
<1>10. CASE ReconcileVPCSecurityGroups
  BY <1>1, <1>2, <1>10 DEF Grows, CreatePC, ReconcileVPCSecurityGroups, ResolveSecurityGroup,
     CreateSecurityGroup, SecurityGroupError
<1>11. CASE ReconcileLoadBalancers
  BY <1>1, <1>4, <1>11 DEF Grows, CreatePC, ReconcileLoadBalancers, VerifyLoadBalancer,
     RecoverLoadBalancer, CreateLoadBalancer, LoadBalancerError, LoadBalancersReconciled
<1>12. ASSUME NEW r
       PROVE  LET o == [local EXCEPT !.id = @ \cup {r}]
              IN /\ GrowsTo(o)
                 /\ GrowsTo([o EXCEPT !.cond["TransitGatewayReady"] = "false"])
                 /\ GrowsTo([o EXCEPT !.cond["TransitGatewayReady"] = "true"])
                 /\ GrowsTo([o EXCEPT !.cond["COSInstanceReady"] = "false"])
  BY <1>1 DEF ObjectType, GrowsTo
<1>13. /\ GrowsTo([local EXCEPT !.cond["TransitGatewayReady"] = "false"])
       /\ GrowsTo([local EXCEPT !.cond["COSInstanceReady"] = "false"])
       /\ GrowsTo([local EXCEPT !.hmac = TRUE, !.cond["COSInstanceReady"] = "true"])
  BY <1>1 DEF ObjectType, GrowsTo
<1>14. CASE ReconcileTransitGateway
  <2>1. GrowsTo(local')
    BY <1>1, <1>3, <1>12, <1>13, <1>14
       DEF ReconcileTransitGateway, CheckTransitGateway, RecoverTransitGateway,
           CreateTransitGateway, TransitGatewayError, TransitGatewayFails, TransitGatewayRequeues,
           SetCondition
  <2>. QED
    BY <1>14, <2>1
       DEF Grows, CreatePC, ReconcileTransitGateway, CheckTransitGateway, RecoverTransitGateway,
           CreateTransitGateway, TransitGatewayError, TransitGatewayFails, TransitGatewayRequeues
<1>15. CASE ReconcileConnection
  <2>1. GrowsTo(local')
    BY <1>12, <1>13, <1>15
       DEF ReconcileConnection, CheckConnection, CreateConnection, ConnectionError, ConnectionDone,
           TransitGatewayFails, SetCondition
  <2>. QED
    BY <1>15, <2>1
       DEF Grows, CreatePC, ReconcileConnection, CheckConnection, CreateConnection,
           ConnectionError, ConnectionDone, TransitGatewayFails
<1>16. CASE ReconcileCOSInstance
  <2>1. GrowsTo(local')
    BY <1>12, <1>13, <1>16
       DEF ReconcileCOSInstance, ResolveCOSInstance, CreateCOSInstance, COSError, COSFails
  <2>. QED
    BY <1>16, <2>1
       DEF Grows, CreatePC, ReconcileCOSInstance, ResolveCOSInstance, CreateCOSInstance,
           COSError, COSFails
<1>17. CASE ReconcileCOSHMACKey
  <2>1. GrowsTo(local')
    BY <1>1, <1>13, <1>17
       DEF ReconcileCOSHMACKey, KeepHMACKey, IssueHMACKey, HMACKeyLost, COSError, COSFails, COSReady
  <2>. QED
    BY <1>17, <2>1
       DEF Grows, CreatePC, ReconcileCOSHMACKey, KeepHMACKey, IssueHMACKey, HMACKeyLost,
           COSError, COSFails, COSReady
<1>. QED
  BY <1>5, <1>6, <1>7, <1>8, <1>9, <1>10, <1>11, <1>14, <1>15, <1>16, <1>17 DEF ReconcileStep

\* The copy shrinks on the delete path: an ID that goes is not the cluster's own,
\* or IBM Cloud does not know it any more.
ShrinksTo(o) ==
    /\ o.id \subseteq local.id
    /\ \A r \in local.id \ o.id : Provision(r) => ~Exists(r)
    /\ "tg" \in local.id \ o.id => Connections \cap o.id = {}
    /\ "workspace" \in local.id => "workspace" \in o.id
    /\ o.provisioned = local.provisioned /\ o.endpoint = local.endpoint

Shrinks ==
    /\ UNCHANGED <<stored, recorded, phase>>
    /\ pc \in DeletePC /\ pc' \in DeletePC \cup {"patch"}
    /\ ShrinksTo(local') /\ Wanes
    /\ local'.finalizer = local.finalizer \/ (pc \in {"images", "delEnd"} /\ pc' = "patch")
    /\ cloud'["tg"] = cloud["tg"] \/ ~InUse("tg")
    /\ cloud'["workspace"] = "removed" => cloud["workspace"] = "removed"

\* The calls of the delete path.
LEMMA DeleteCalls ==
    ASSUME TypeOK
    PROVE  /\ UNCHANGED cloudVars => Wanes /\ cloud' = cloud
           /\ \A r \in Res : Exists(r) /\ StartDelete(r) =>
                 /\ Wanes /\ (r # "tg" => cloud'["tg"] = cloud["tg"])
                 /\ cloud'["workspace"] = "removed" => cloud["workspace"] = "removed"
           /\ \A r \in Res : Exists(r) /\ cloud' = [cloud EXCEPT ![r] = "deleting"] =>
                 /\ Wanes /\ (r # "tg" => cloud'["tg"] = cloud["tg"])
                 /\ cloud'["workspace"] = "removed" => cloud["workspace"] = "removed"
           /\ \A r \in Res : cloud' = [cloud EXCEPT ![r] = "absent"] =>
                 /\ Wanes /\ (r # "tg" => cloud'["tg"] = cloud["tg"])
                 /\ cloud'["workspace"] = "removed" => cloud["workspace"] = "removed"
BY ResourceNames DEF TypeOK, CloudTypeOK, Wanes, StartDelete, Exists, cloudVars

\* The condition reconcileDelete sets leaves the rest of the object alone.
LEMMA DeletingKeeps ==
    ASSUME NEW o \in ObjectType
    PROVE  /\ Deleting(o).id = o.id /\ Deleting(o).finalizer = o.finalizer
           /\ Deleting(o).provisioned = o.provisioned /\ Deleting(o).endpoint = o.endpoint
BY DEF Deleting, ObjectType

\* So do the outcomes of a Delete method.
LEMMA DeleteEffects ==
    ASSUME TypeOK
    PROVE  /\ \A next : DeleteFails(next) =>
                 ShrinksTo(local') /\ local'.finalizer = local.finalizer /\ pc' = next /\ res'.err
           /\ \A next : \A o \in ObjectType : DeleteDone(next, o) =>
                 /\ ShrinksTo(o) => ShrinksTo(local')
                 /\ local'.finalizer = o.finalizer /\ pc' = next
                 /\ loop' = NoLoop /\ res' = res /\ local'.id = o.id
           /\ DeleteRequeues =>
                 ShrinksTo(local') /\ local'.finalizer = local.finalizer /\ pc' = "patch"
           /\ local' = local => ShrinksTo(local') /\ local'.finalizer = local.finalizer
           /\ \A next : DeleteLoopEnds(next) =>
                 /\ ShrinksTo(local') /\ local'.finalizer = local.finalizer
                 /\ \/ pc' = "patch"
                    \/ pc' = next /\ res'.err
                    \/ pc' = next /\ res' = res /\ loop' = NoLoop /\ ~loop.err /\ ~loop.flag
                 /\ UNCHANGED cloudVars
<1>1. local \in ObjectType /\ res \in ResultType
  BY DEF TypeOK, ControllerTypeOK
<1>2. ShrinksTo(local)
  BY DEF ShrinksTo
<1>3. ASSUME NEW o \in ObjectType, ShrinksTo(o), local' = Deleting(o)
      PROVE  ShrinksTo(local')
  BY <1>3, DeletingKeeps DEF ShrinksTo
<1>4. \A next : DeleteFails(next) =>
         ShrinksTo(local') /\ local'.finalizer = local.finalizer /\ pc' = next /\ res'.err
  <2>1. [res EXCEPT !.err = TRUE].err
    BY <1>1 DEF ResultType
  <2>. QED BY <1>1, <1>2, <1>3, <2>1, DeletingKeeps DEF DeleteFails
<1>5. \A next : \A o \in ObjectType : DeleteDone(next, o) =>
         /\ ShrinksTo(o) => ShrinksTo(local')
         /\ local'.finalizer = o.finalizer /\ pc' = next
         /\ loop' = NoLoop /\ res' = res /\ local'.id = o.id
  BY <1>3, DeletingKeeps DEF DeleteDone
<1>6. DeleteRequeues => ShrinksTo(local') /\ local'.finalizer = local.finalizer /\ pc' = "patch"
  BY <1>1, <1>2, <1>3, DeletingKeeps DEF DeleteRequeues
<1>. QED BY <1>1, <1>2, <1>4, <1>5, <1>6 DEF DeleteLoopEnds

LEMMA DeletePathShrinks ==
    ASSUME TypeOK, NoForeignDelete, GatewayInv, DeleteStep
    PROVE  Shrinks
<1>. USE DeleteCalls, ResourceNames DEF apiVars
<1>1. local \in ObjectType /\ ShrinksTo(local) /\ "tg" \notin SubnetSet /\ "tg" \notin LoadBalancerSet
      /\ "tg" \notin SecurityGroupSet
  BY DistinctAssumption DEF TypeOK, ControllerTypeOK, ShrinksTo, Singletons
<1>2. CASE DeleteImages \/ DeleteEnds
  <2>1. UNCHANGED <<stored, recorded, phase, cloudVars>> /\ pc \in DeletePC /\ pc' \in DeletePC \cup {"patch"}
    BY <1>2 DEF DeleteImages, DeleteEnds, DeletePC
  <2>2. ShrinksTo([local EXCEPT !.finalizer = FALSE])
    BY <1>1 DEF ShrinksTo, ObjectType
  <2>3. ShrinksTo(local') /\ (local'.finalizer = local.finalizer
                              \/ (pc \in {"images", "delEnd"} /\ pc' = "patch"))
    BY <1>1, <1>2, <2>2 DEF DeleteImages, DeleteEnds
  <2>. QED BY <2>1, <2>3 DEF Shrinks
<1>3. CASE DeleteTransitGateway
  <2>1. UNCHANGED <<stored, recorded, phase>> /\ pc = "delTG"
    BY <1>3 DEF DeleteTransitGateway
  <2>2. NoTransitGateway \in ObjectType /\ NoTransitGateway.finalizer = local.finalizer
        /\ NoTransitGateway.id = local.id \ {"tg", "vpcConn", "pvsConn"}
        /\ NoTransitGateway.provisioned = local.provisioned /\ NoTransitGateway.endpoint = local.endpoint
    BY <1>1 DEF NoTransitGateway, ObjectType
  <2>3. ASSUME \A c \in Connections \cap local.id : Provision(c) => ~Exists(c),
               Provision("tg") => ~Exists("tg")
        PROVE  ShrinksTo(NoTransitGateway)
    BY <2>2, <2>3 DEF ShrinksTo, Connections
  <2>4. ~Exists("tg") => ShrinksTo(NoTransitGateway)
    BY <2>3 DEF NoForeignDelete, GatewayInv, Exists, Provision, Connections
  <2>5. ConnectionToDelete = "none" /\ ~Provision("tg") => ShrinksTo(NoTransitGateway)
    BY <2>3 DEF ConnectionToDelete, OwnedConnection, Connections
  <2>6. pc' \in {"delLB", "patch"} /\ ShrinksTo(local') /\ local'.finalizer = local.finalizer
    BY <1>1, <1>3, <2>2, <2>4, <2>5, DeleteEffects
       DEF DeleteTransitGateway, DeleteTransitGatewayConnection
  <2>7. /\ Wanes /\ (cloud'["tg"] = cloud["tg"] \/ ~InUse("tg"))
        /\ cloud'["workspace"] = "removed" => cloud["workspace"] = "removed"
    <3>1. ConnectionToDelete # "none" => ConnectionToDelete \in Connections /\ Exists(ConnectionToDelete)
      BY DEF ConnectionToDelete, OwnedConnection, Connections
    <3>2. \/ UNCHANGED cloudVars
          \/ StartDelete("tg") /\ Exists("tg")
          \/ \E c \in Connections : StartDelete(c) /\ Exists(c)
      BY <1>3, <3>1 DEF DeleteTransitGateway, DeleteTransitGatewayConnection, CallFails
    <3>. QED BY <3>2 DEF Connections, StartDelete
  <2>. QED BY <2>1, <2>6, <2>7 DEF Shrinks, DeletePC
<1>4. CASE DeleteLoadBalancer
  <2>1. UNCHANGED <<stored, recorded, phase>> /\ pc = "delLB" /\ pc' \in {"delLB", "delSG", "patch"}
        /\ ShrinksTo(local') /\ local'.finalizer = local.finalizer
    BY <1>4, DeleteEffects DEF DeleteLoadBalancer, DeleteOneLoadBalancer, NextDelete
  <2>2. UNCHANGED cloudVars \/ \E l \in LoadBalancerSet : StartDelete(l) /\ Exists(l)
    BY <1>4 DEF DeleteLoadBalancer, DeleteOneLoadBalancer, DeleteLoopEnds, CallFails
  <2>. QED BY <1>1, <2>1, <2>2 DEF Shrinks, DeletePC
<1>5. CASE DeleteVPCSecurityGroups
  <2>1. UNCHANGED <<stored, recorded, phase>> /\ pc = "delSG" /\ pc' \in {"delSG", "delSubnet", "patch"}
        /\ ShrinksTo(local') /\ local'.finalizer = local.finalizer
    BY <1>5, DeleteEffects DEF DeleteVPCSecurityGroups, DeleteOneSecurityGroup, NextDelete
  <2>2. UNCHANGED cloudVars \/ \E g \in SecurityGroupSet : cloud' = [cloud EXCEPT ![g] = "absent"]
    BY <1>5 DEF DeleteVPCSecurityGroups, DeleteOneSecurityGroup, DeleteLoopEnds
  <2>. QED BY <1>1, <2>1, <2>2 DEF Shrinks, DeletePC
<1>6. CASE DeleteVPCSubnets
  <2>1. ASSUME NEW s \in SubnetSet, ~(s \in local.id /\ Provision(s) /\ Exists(s)),
               local' = [local EXCEPT !.id = @ \ {s}]
        PROVE  ShrinksTo(local') /\ local'.finalizer = local.finalizer
    BY <1>1, <2>1, DistinctNames DEF ShrinksTo, ObjectType
  <2>2. UNCHANGED <<stored, recorded, phase>> /\ pc = "delSubnet" /\ pc' \in {"delSubnet", "delVPC", "patch"}
        /\ ShrinksTo(local') /\ local'.finalizer = local.finalizer
    BY <1>6, <2>1, DeleteEffects DEF DeleteVPCSubnets, DeleteOneSubnet, NextDelete
  <2>3. UNCHANGED cloudVars \/ \E s \in SubnetSet : StartDelete(s) /\ Exists(s)
    BY <1>6 DEF DeleteVPCSubnets, DeleteOneSubnet, DeleteLoopEnds, CallFails
  <2>. QED BY <1>1, <2>2, <2>3 DEF Shrinks, DeletePC
<1>7. CASE DeleteVPC
  <2>1. LET o == [local EXCEPT !.id = @ \ {"vpc"}]
        IN o \in ObjectType /\ o.finalizer = local.finalizer
           /\ (~("vpc" \in local.id /\ Exists("vpc")) => ShrinksTo(o))
    BY <1>1 DEF ShrinksTo, ObjectType
  <2>2. UNCHANGED <<stored, recorded, phase>> /\ pc = "delVPC" /\ pc' \in {"delDHCP", "patch"}
        /\ ShrinksTo(local') /\ local'.finalizer = local.finalizer
    BY <1>1, <1>7, <2>1, DeleteEffects DEF DeleteVPC
  <2>3. UNCHANGED cloudVars \/ (StartDelete("vpc") /\ Exists("vpc"))
    BY <1>7 DEF DeleteVPC, CallFails
  <2>. QED BY <2>2, <2>3 DEF Shrinks, DeletePC
<1>8. CASE DeleteDHCPServer
  <2>1. UNCHANGED <<stored, recorded, phase>> /\ pc = "delDHCP" /\ pc' = "delWorkspace"
        /\ ShrinksTo(local') /\ local'.finalizer = local.finalizer
    BY <1>1, <1>8, DeleteEffects DEF DeleteDHCPServer
  <2>2. UNCHANGED cloudVars \/ (StartDelete("network") /\ Exists("network"))
    BY <1>8 DEF DeleteDHCPServer, CallFails
  <2>. QED BY <2>1, <2>2 DEF Shrinks, DeletePC
<1>9. CASE DeleteWorkspace
  <2>1. UNCHANGED <<stored, recorded, phase>> /\ pc = "delWorkspace" /\ pc' \in {"delCOS", "delEnd", "patch"}
        /\ ShrinksTo(local') /\ local'.finalizer = local.finalizer
    BY <1>1, <1>9, DeleteEffects DEF DeleteWorkspace, AfterWorkspace
  <2>2. UNCHANGED cloudVars \/ (StartDelete("workspace") /\ Exists("workspace"))
    BY <1>9 DEF DeleteWorkspace, Exists
  <2>. QED BY <2>1, <2>2 DEF Shrinks, DeletePC
<1>10. CASE DeleteCOSInstance
  <2>1. UNCHANGED <<stored, recorded, phase>> /\ pc = "delCOS" /\ pc' = "delEnd"
        /\ ShrinksTo(local') /\ local'.finalizer = local.finalizer
    BY <1>1, <1>10, DeleteEffects DEF DeleteCOSInstance
  <2>2. UNCHANGED cloud \/ (cloud' = [cloud EXCEPT !["cos"] = "deleting"] /\ Exists("cos"))
    BY <1>10 DEF DeleteCOSInstance, Exists, cloudVars
  <2>3. UNCHANGED cloud => Wanes
    BY DEF Wanes
  <2>. QED BY <2>1, <2>2, <2>3 DEF Shrinks, DeletePC
<1>. QED BY <1>2, <1>3, <1>4, <1>5, <1>6, <1>7, <1>8, <1>9, <1>10 DEF DeleteStep

----------------------------------------------------------------------------
(* The steps of everybody else.                                            *)

\* Nobody else deletes resources where nothing may vanish, or before something
\* fails.
LEMMA NoVanishing ==
    ASSUME TypeOK
    PROVE  /\ "vanish" \notin FaultKinds => \A r \in Res : ~CloudVanish(r)
           /\ faults' = 0 => \A r \in Res : ~CloudVanish(r)
BY FaultAssumption DEF TypeOK, CloudVanish, Fault

\* With nobody else deleting resources, IBM Cloud only finishes what was asked
\* for, and the object is only asked to go.
Ages ==
    /\ UNCHANGED <<stored, recorded, ctlVars>>
    /\ Wanes
    /\ \A r \in Res : cloud'[r] = "deleting" => cloud[r] = "deleting"
    /\ cloud'["tg"] = "absent" => cloud["tg"] \in {"absent", "deleting"}
    /\ cloud["workspace"] = "active" => cloud'["workspace"] = "active"
    /\ cloud'["workspace"] = "removed" => cloud["workspace"] = "removed" \/ cloud'["network"] = "absent"
    /\ \/ phase' = phase
       \/ UNCHANGED cloud /\ phase = "live" /\ phase' = IF stored.finalizer THEN "deleting" ELSE "gone"

LEMMA EnvironmentAges ==
    ASSUME TypeOK, \A r \in Res : ~CloudVanish(r), Environment
    PROVE  Ages
<1>. USE ResourceNames DEF TypeOK, CloudTypeOK, apiVars
<1>1. ASSUME NEW r \in Res, CloudReady(r) \/ CloudFail(r)
      PROVE  Ages
  BY <1>1 DEF CloudReady, CloudFail, Ages, Wanes
<1>2. ASSUME NEW r \in Res, CloudDeleted(r)
      PROVE  Ages
  <2>1. /\ "network" \in Cascade("workspace")
        /\ "tg" \notin Cascade(r) /\ "workspace" \notin Cascade(r)
    BY DistinctAssumption DEF Cascade, Singletons
  <2>2. UNCHANGED <<stored, recorded, ctlVars, phase>>
    BY <1>2 DEF CloudDeleted
  <2>3. Wanes /\ (\A x \in Res : cloud'[x] = "deleting" => cloud[x] = "deleting")
    BY <1>2 DEF CloudDeleted, Wanes
  <2>4. /\ cloud'["tg"] = "absent" => cloud["tg"] \in {"absent", "deleting"}
        /\ cloud["workspace"] = "active" => cloud'["workspace"] = "active"
        /\ cloud'["workspace"] = "removed" => cloud["workspace"] = "removed" \/ cloud'["network"] = "absent"
    BY <1>2, <2>1 DEF CloudDeleted
  <2>. QED BY <2>2, <2>3, <2>4 DEF Ages
<1>4. CASE \/ \E m \in Images : ImageDeleted(m)
           \/ RequestDelete \/ OpenGate \/ Pause
  BY <1>4 DEF ImageDeleted, RequestDelete, OpenGate, Pause, Ages, Wanes, cloudVars
<1>. QED BY <1>1, <1>2, <1>4 DEF Environment

----------------------------------------------------------------------------
(* LifeInv: what is recorded, and until when.                              *)

LEMMA EnvironmentLife ==
    ASSUME TypeOK, LifeInv, Ages
    PROVE  LifeInv'
<1>1. GrowInv'
  BY DEF LifeInv, GrowInv, Ages, ctlVars
<1>2. FinalizerInv'
  BY DEF LifeInv, FinalizerInv, Ages, ctlVars
<1>3. TrackInv'
  BY DEF LifeInv, TrackInv, Ages, Wanes, ctlVars, Exists, TypeOK, ApiTypeOK
<1>4. EndInv'
  BY DEF LifeInv, EndInv, Ages, Wanes, ctlVars, Cleared, InfraGone
<1>. QED BY <1>1, <1>2, <1>3, <1>4 DEF LifeInv

LEMMA CreatePathLife ==
    ASSUME TypeOK, LifeInv, Grows
    PROVE  LifeInv'
<1>. USE DEF Grows, GrowsTo
<1>1. GrowInv'
  BY DEF LifeInv, GrowInv, CreatePC
<1>2. FinalizerInv'
  BY DEF LifeInv, FinalizerInv, CreatesOnly, CreatePC
<1>3. TrackInv'
  BY DEF LifeInv, TrackInv, CreatePC, DeletePC
<1>4. EndInv'
  BY DEF LifeInv, FinalizerInv, EndInv, CreatePC
<1>. QED BY <1>1, <1>2, <1>3, <1>4 DEF LifeInv

LEMMA DeletePathLife ==
    ASSUME TypeOK, LifeInv, Shrinks,
           pc' = "patch" /\ ~local'.finalizer => Cleared(Res)
    PROVE  LifeInv'
<1>. USE DEF Shrinks, ShrinksTo
<1>0. phase # "live" /\ pc \notin CreatePC /\ pc # "idle"
  BY DEF LifeInv, FinalizerInv, DeletePC, CreatePC
<1>1. GrowInv'
  BY <1>0 DEF LifeInv, GrowInv
<1>2. FinalizerInv'
  BY <1>0 DEF LifeInv, FinalizerInv, DeletePC
<1>3. TrackInv'
  BY <1>0 DEF LifeInv, TrackInv, DeletePC, CreatePC, Wanes, Exists, TypeOK, ApiTypeOK
<1>4. EndInv'
  BY <1>0 DEF LifeInv, TrackInv, EndInv, Cleared, InfraGone, Wanes
<1>. QED BY <1>1, <1>2, <1>3, <1>4 DEF LifeInv

\* What a patch makes of the object, whichever requests succeed.
LEMMA PatchEffects ==
    ASSUME TypeOK, Patch
    PROVE  /\ stored'.id \in {stored.id, local.id}
           /\ stored'.finalizer \in {stored.finalizer, local.finalizer}
           /\ stored'.provisioned \in {stored.provisioned, local.provisioned}
           /\ stored'.endpoint \in {stored.endpoint, local.endpoint}
           /\ recorded' = recorded \cup stored'.id
           /\ phase' = IF phase = "deleting" /\ ~stored'.finalizer THEN "gone" ELSE phase
           /\ pc = "patch" /\ pc' = "idle" /\ loop' = NoLoop /\ res' = NoResult
           /\ UNCHANGED cloudVars
<1>1. PICK parts \in SUBSET PatchParts :
         /\ stored' = Patched(parts)
         /\ recorded' = recorded \cup stored'.id
         /\ phase' = IF phase = "deleting" /\ ~stored'.finalizer THEN "gone" ELSE phase
  BY DEF Patch
<1>2. /\ Summarized(local).id = local.id /\ Summarized(local).finalizer = local.finalizer
      /\ Summarized(local).provisioned = local.provisioned
      /\ Summarized(local).endpoint = local.endpoint
  BY DEF Summarized, TypeOK, ControllerTypeOK, ObjectType
<1>3. /\ stored'.id \in {stored.id, local.id}
      /\ stored'.finalizer \in {stored.finalizer, local.finalizer}
      /\ stored'.provisioned \in {stored.provisioned, local.provisioned}
      /\ stored'.endpoint \in {stored.endpoint, local.endpoint}
  BY <1>1, <1>2 DEF Patched
<1>. QED BY <1>1, <1>3 DEF Patch, ForgetAll

LEMMA ReconcileEndsLife ==
    ASSUME TypeOK, LifeInv, EnsureFinalizer \/ StartReconcile \/ Patch \/ Crash
    PROVE  LifeInv'
<1>1. CASE EnsureFinalizer
  <2>1. /\ stored'.id = stored.id /\ stored'.provisioned = stored.provisioned
        /\ stored'.endpoint = stored.endpoint /\ stored'.finalizer
        /\ pc = "idle" /\ UNCHANGED <<cloud, phase, recorded, local, pc>>
    BY <1>1 DEF EnsureFinalizer, TypeOK, ApiTypeOK, ObjectType, cloudVars, ctlVars
  <2>. QED BY <2>1 DEF LifeInv, GrowInv, FinalizerInv, TrackInv, EndInv, DeletePC, CreatePC, Exists
<1>2. CASE StartReconcile
  <2>1. /\ local' = stored /\ stored.finalizer /\ UNCHANGED <<stored, phase, recorded, cloud>>
        /\ pc' = IF phase = "live" THEN "prepare" ELSE "images"
    BY <1>2 DEF StartReconcile, apiVars, cloudVars
  <2>. QED BY <2>1 DEF LifeInv, GrowInv, FinalizerInv, TrackInv, EndInv, CreatePC, DeletePC, Exists
<1>3. CASE Patch
  <2>1. pc = "patch" /\ pc' = "idle" /\ cloud' = cloud /\ (phase' = "live" => phase = "live")
    BY <1>3, PatchEffects DEF cloudVars
  <2>2. FinalizerInv'
    BY <1>3, <2>1, PatchEffects DEF LifeInv, FinalizerInv
  <2>3. TrackInv'
    BY <1>3, <2>1, PatchEffects DEF LifeInv, TrackInv, CreatePC, DeletePC, Exists
  <2>. QED BY <2>1, <2>2, <2>3 DEF LifeInv, GrowInv, EndInv
<1>4. CASE Crash
  <2>1. pc' = "idle" /\ UNCHANGED <<stored, phase, recorded, cloud>>
    BY <1>4 DEF Crash, ForgetAll, apiVars, cloudVars
  <2>. QED BY <2>1 DEF LifeInv, GrowInv, FinalizerInv, TrackInv, EndInv, CreatePC, DeletePC, Exists
<1>. QED BY <1>1, <1>2, <1>3, <1>4

----------------------------------------------------------------------------
(* PlaceInv: what lives in what.                                           *)

\* The cloud's part of it survives every step of the delete path and of
\* everybody else.
LEMMA PlaceOfRest ==
    ASSUME TypeOK, PlaceInv, Ages \/ Shrinks
    PROVE  PlaceInv'
<1>1. CASE Ages
  <2>1. NestInv'
    BY <1>1 DEF PlaceInv, NestInv, Ages, ctlVars
  <2>2. GatewayInv'
    BY <1>1, ResourceNames DEF PlaceInv, GatewayInv, Ages, Wanes, ctlVars, Exists
  <2>3. WorkspaceInv'
    BY <1>1, ResourceNames DEF PlaceInv, WorkspaceInv, Ages, Wanes, ctlVars, Exists
  <2>. QED BY <2>1, <2>2, <2>3 DEF PlaceInv
<1>2. CASE Shrinks
  <2>1. pc' \notin CreatePC \ {"patch"} /\ pc' \notin Connections /\ pc # "idle"
    BY <1>2 DEF Shrinks, DeletePC, CreatePC, Connections
  <2>2. Nested(local'.id)
    BY <1>2, <2>1 DEF PlaceInv, NestInv, Nested, Shrinks, ShrinksTo, Connections
  <2>3. NestInv'
    BY <1>2, <2>1, <2>2 DEF PlaceInv, NestInv, Shrinks, CreatePC, Connections
  <2>4. GatewayInv'
    <3>1. ~InUse("tg") => ~Exists("vpcConn") /\ ~Exists("pvsConn")
      BY DistinctAssumption DEF InUse, Blockers, Singletons
    <3>. QED BY <1>2, <2>1, <3>1, ResourceNames DEF PlaceInv, GatewayInv, Shrinks, Wanes, Exists
  <2>5. WorkspaceInv'
    BY <1>2, <2>1, ResourceNames DEF PlaceInv, WorkspaceInv, Shrinks, Wanes, Exists, CreatePC
  <2>. QED BY <2>3, <2>4, <2>5 DEF PlaceInv
<1>. QED BY <1>1, <1>2

LEMMA PlaceOfEnds ==
    ASSUME TypeOK, PlaceInv, EnsureFinalizer \/ StartReconcile \/ Patch \/ Crash
    PROVE  PlaceInv'
<1>1. UNCHANGED cloud
  BY PatchEffects DEF EnsureFinalizer, StartReconcile, Crash, cloudVars
<1>2. pc' \in {"idle", "prepare", "images"}
  BY PatchEffects DEF EnsureFinalizer, StartReconcile, Crash, ForgetAll, ctlVars
<1>3. GatewayInv' /\ WorkspaceInv'
  BY <1>1, <1>2 DEF PlaceInv, GatewayInv, WorkspaceInv, Exists, Connections
<1>4. Nested(stored'.id)
  BY PatchEffects DEF EnsureFinalizer, StartReconcile, Crash, PlaceInv, NestInv, TypeOK, ApiTypeOK,
     ObjectType, apiVars
<1>5. pc' # "idle" => Nested(local'.id)
  BY PatchEffects DEF EnsureFinalizer, StartReconcile, Crash, ForgetAll, PlaceInv, NestInv, ctlVars
<1>. QED BY <1>2, <1>3, <1>4, <1>5 DEF PlaceInv, NestInv, Connections, CreatePC

\* On the create path, what is added is not attached to anything, or it is
\* added where that exists.
LEMMA PlaceOfAdding ==
    ASSUME TypeOK, PlaceInv, Topology = "LoadBalancer",
           UNCHANGED stored, pc # "idle", pc' \in CreatePC \ {"prepare"},
           local.id \subseteq local'.id,
           Connections \cap local'.id # {} => Connections \cap local.id # {} \/ "tg" \in local'.id,
           "network" \in local'.id => "network" \in local.id \/ "workspace" \in local'.id,
           "cos" \in local'.id => "cos" \in local.id \/ HasCOS,
           pc' \in Connections => "tg" \in local'.id /\ cloud'["tg"] \notin {"absent", "deleting"},
           pc' = "components" /\ pvs' = "network" =>
               "workspace" \in local'.id /\ cloud'["workspace"] = "active",
           pc' \in {"cos", "hmac"} => HasCOS,
           cloud'["tg"] \in {"absent", "deleting"} => cloud["tg"] \in {"absent", "deleting"},
           \A c \in Connections : cloud'[c] = cloud[c] \/ cloud'["tg"] \notin {"absent", "deleting"},
           cloud'["workspace"] = "removed" => cloud["workspace"] = "removed",
           cloud'["network"] = cloud["network"] \/ cloud'["workspace"] # "removed"
    PROVE  PlaceInv'
<1>1. NestInv'
  BY DEF PlaceInv, NestInv, Nested
<1>2. GatewayInv'
  BY DEF PlaceInv, GatewayInv, Exists, Connections
<1>3. WorkspaceInv'
  BY DEF PlaceInv, WorkspaceInv, Exists
<1>. QED BY <1>1, <1>2, <1>3 DEF PlaceInv

\* The calls of the create path, as PlaceOfAdding wants them.
LEMMA CreateCallsOne ==
    ASSUME TypeOK
    PROVE  \A r \in Res : \A state : CreateAs(r, state) =>
              cloud'[r] = state /\ \A x \in Res \ {r} : cloud'[x] = cloud[x]
BY DEF TypeOK, CloudTypeOK, CreateAs

\* Which resources each method creates.
LEMMA CreatesOf ==
    ASSUME TypeOK
    PROVE  /\ Prepare \/ Join \/ Finish \/ ReconcileCOSHMACKey => UNCHANGED cloud
           /\ ReconcileWorkspace => UNCHANGED cloud \/ (CreateAs("workspace", "pending") /\ ~Exists("workspace"))
           /\ ReconcileNetwork => UNCHANGED cloud \/ CreateAs("network", "pending")
           /\ ReconcileVPC => UNCHANGED cloud \/ (CreateAs("vpc", "pending") /\ ~Exists("vpc"))
           /\ ReconcileVPCSubnets => UNCHANGED cloud \/ \E s \in SubnetSet : CreateAs(s, "pending")
           /\ ReconcileVPCSecurityGroups =>
                 UNCHANGED cloud \/ \E g \in SecurityGroupSet : CreateAs(g, "active")
           /\ ReconcileLoadBalancers =>
                 UNCHANGED cloud \/ \E l \in LoadBalancerSet : CreateAs(l, "pending")
           /\ ReconcileTransitGateway =>
                 UNCHANGED cloud \/ (CreateAs("tg", "pending") /\ "tg" \notin local.id /\ pc' = "patch")
           /\ ReconcileConnection => UNCHANGED cloud \/ (CreateAs(pc, "pending") /\ ~Exists(pc))
           /\ ReconcileCOSInstance =>
                 UNCHANGED cloud \/ ((\E state \in {"pending", "active"} : CreateAs("cos", state)) /\ ~Exists("cos"))
<1>. USE DEF cloudVars
<1>1. /\ \A i \in DOMAIN Subnets : Subnets[i] \in SubnetSet
      /\ \A i \in DOMAIN SecurityGroups : SecurityGroups[i] \in SecurityGroupSet
      /\ \A i \in DOMAIN LoadBalancers : LoadBalancers[i] \in LoadBalancerSet
  BY DEF SubnetSet, SecurityGroupSet, LoadBalancerSet, Elems
<1>2. Prepare \/ Join \/ Finish \/ ReconcileCOSHMACKey => UNCHANGED cloud
  BY DEF Prepare, Join, Finish, ReconcileCOSHMACKey, KeepHMACKey, IssueHMACKey, HMACKeyLost, COSError
<1>3. ReconcileWorkspace => UNCHANGED cloud \/ (CreateAs("workspace", "pending") /\ ~Exists("workspace"))
  BY DEF ReconcileWorkspace, VerifyWorkspace, ResolveWorkspace, CreateWorkspace, WorkspaceError
<1>4. ReconcileNetwork => UNCHANGED cloud \/ CreateAs("network", "pending")
  BY DEF ReconcileNetwork, VerifyNetwork, ResolveNetwork, CreateNetwork, NetworkError
<1>5. ReconcileVPC => UNCHANGED cloud \/ (CreateAs("vpc", "pending") /\ ~Exists("vpc"))
  BY DEF ReconcileVPC, VerifyVPC, ResolveVPC, CreateVPC, VPCError
<1>6. ReconcileVPCSubnets => UNCHANGED cloud \/ \E s \in SubnetSet : CreateAs(s, "pending")
  BY <1>1 DEF ReconcileVPCSubnets, VerifySubnet, ResolveSubnet, CreateSubnet, SubnetError
<1>7. ReconcileVPCSecurityGroups => UNCHANGED cloud \/ \E g \in SecurityGroupSet : CreateAs(g, "active")
  BY <1>1 DEF ReconcileVPCSecurityGroups, ResolveSecurityGroup, CreateSecurityGroup, SecurityGroupError
<1>8. ReconcileLoadBalancers => UNCHANGED cloud \/ \E l \in LoadBalancerSet : CreateAs(l, "pending")
  BY <1>1 DEF ReconcileLoadBalancers, VerifyLoadBalancer, RecoverLoadBalancer, CreateLoadBalancer,
     LoadBalancerError, LoadBalancersReconciled
<1>9. ReconcileTransitGateway =>
         UNCHANGED cloud \/ (CreateAs("tg", "pending") /\ "tg" \notin local.id /\ pc' = "patch")
  BY DEF ReconcileTransitGateway, CheckTransitGateway, RecoverTransitGateway, CreateTransitGateway,
     TransitGatewayError, TransitGatewayRequeues, TransitGatewayFails
<1>10. ReconcileConnection => UNCHANGED cloud \/ (CreateAs(pc, "pending") /\ ~Exists(pc))
  BY DEF ReconcileConnection, CheckConnection, CreateConnection, ConnectionError
<1>11. ReconcileCOSInstance => UNCHANGED cloud \/ ((\E state \in {"pending", "active"} : CreateAs("cos", state)) /\ ~Exists("cos"))
  <2>1. CreateCOSInstance => (\E state \in {"pending", "active"} : CreateAs("cos", state)) /\ ~Exists("cos")
    BY DEF CreateCOSInstance
  <2>. QED BY <2>1 DEF ReconcileCOSInstance, ResolveCOSInstance, COSError
<1>. QED BY <1>2, <1>3, <1>4, <1>5, <1>6, <1>7, <1>8, <1>9, <1>10, <1>11

\* Which IDs each method records.
LEMMA RecordsOf ==
    ASSUME TypeOK
    PROVE  /\ Prepare => local'.id \subseteq local.id \cup {"resourceGroup"}
           /\ Join \/ Finish => local'.id = local.id
           /\ ReconcileWorkspace => local'.id \subseteq local.id \cup {"workspace"}
           /\ ReconcileNetwork => local'.id \subseteq local.id \cup {"network"}
           /\ ReconcileVPC => local'.id \subseteq local.id \cup {"vpc"}
           /\ ReconcileVPCSubnets => local'.id \subseteq local.id \cup SubnetSet
           /\ ReconcileVPCSecurityGroups => local'.id \subseteq local.id \cup SecurityGroupSet
           /\ ReconcileLoadBalancers => local'.id \subseteq local.id \cup LoadBalancerSet
           /\ ReconcileTransitGateway => local'.id \subseteq local.id \cup {"tg"}
           /\ ReconcileConnection => local'.id \subseteq local.id \cup Connections
           /\ ReconcileCOSInstance \/ ReconcileCOSHMACKey => local'.id \subseteq local.id \cup {"cos"}
<1>0. local \in ObjectType
  BY DEF TypeOK, ControllerTypeOK
<1>. USE <1>0, RecordEffects
<1>1. Prepare => local'.id \subseteq local.id \cup {"resourceGroup"}
  BY DEF Prepare, ObjectType
<1>2. Join \/ Finish => local'.id = local.id
  BY DEF Join, Finish, ObjectType
<1>3. ReconcileWorkspace => local'.id \subseteq local.id \cup {"workspace"}
  BY DEF ReconcileWorkspace, VerifyWorkspace, ResolveWorkspace, CreateWorkspace, WorkspaceError
<1>4. ReconcileNetwork => local'.id \subseteq local.id \cup {"network"}
  BY DEF ReconcileNetwork, VerifyNetwork, ResolveNetwork, CreateNetwork, NetworkError
<1>5. ReconcileVPC => local'.id \subseteq local.id \cup {"vpc"}
  BY DEF ReconcileVPC, VerifyVPC, ResolveVPC, CreateVPC, VPCError
<1>6. ReconcileVPCSubnets => local'.id \subseteq local.id \cup SubnetSet
  <2>1. ReconcileVPCSubnets => local' = local \/ \E s \in SubnetSet : Record(s)
    BY DEF ReconcileVPCSubnets, VerifySubnet, ResolveSubnet, CreateSubnet, SubnetError, SubnetSet, Elems
  <2>. QED BY <2>1
<1>7. ReconcileVPCSecurityGroups => local'.id \subseteq local.id \cup SecurityGroupSet
  BY DEF ReconcileVPCSecurityGroups, ObjectType
<1>8. ReconcileLoadBalancers => local'.id \subseteq local.id \cup LoadBalancerSet
  <2>1. ReconcileLoadBalancers =>
           local' = local \/ \E l \in LoadBalancerSet : \E hostname : SetLoadBalancerStatus(l, hostname)
    BY DEF ReconcileLoadBalancers, VerifyLoadBalancer, RecoverLoadBalancer, CreateLoadBalancer,
       LoadBalancerError, LoadBalancersReconciled, LoadBalancerSet, Elems
  <2>. QED BY <2>1
<1>9. ReconcileTransitGateway => local'.id \subseteq local.id \cup {"tg"}
  <2>1. /\ [local EXCEPT !.id = @ \cup {"tg"}].id = local.id \cup {"tg"}
        /\ [[local EXCEPT !.id = @ \cup {"tg"}] EXCEPT !.cond["TransitGatewayReady"] = "false"].id
              = local.id \cup {"tg"}
        /\ [local EXCEPT !.cond["TransitGatewayReady"] = "false"].id = local.id
    BY DEF ObjectType
  <2>. QED
    BY <2>1 DEF ReconcileTransitGateway, CheckTransitGateway, RecoverTransitGateway,
       CreateTransitGateway, TransitGatewayError, TransitGatewayFails, SetCondition
<1>10. ReconcileConnection => local'.id \subseteq local.id \cup Connections
  <2>. SUFFICES ASSUME ReconcileConnection PROVE local'.id \subseteq local.id \cup Connections
    OBVIOUS
  <2>1. PICK c \in Connections : c = pc
    BY DEF ReconcileConnection, Connections
  <2>. DEFINE o == [local EXCEPT !.id = @ \cup {c}]
  <2>2. /\ o.id = local.id \cup {c}
        /\ [o EXCEPT !.cond["TransitGatewayReady"] = "false"].id = local.id \cup {c}
        /\ [o EXCEPT !.cond["TransitGatewayReady"] = "true"].id = local.id \cup {c}
    BY DEF ObjectType
  <2>3. \A requeue : ConnectionDone(c, o, requeue) => local'.id = local.id \cup {c}
    BY <2>2 DEF ConnectionDone
  <2>4. TransitGatewayFails => local'.id = local.id
    BY DEF TransitGatewayFails, SetCondition, ObjectType
  <2>. HIDE DEF o
  <2>5. \/ \E requeue : ConnectionDone(c, o, requeue)
        \/ local' = [o EXCEPT !.cond["TransitGatewayReady"] = "false"]
        \/ TransitGatewayFails
    BY <2>1 DEF ReconcileConnection, CheckConnection, CreateConnection, ConnectionError, o
  <2>. QED BY <2>2, <2>3, <2>4, <2>5
<1>11. ReconcileCOSInstance \/ ReconcileCOSHMACKey => local'.id \subseteq local.id \cup {"cos"}
  <2>1. LET o == [local EXCEPT !.id = @ \cup {"cos"}]
        IN /\ o.id = local.id \cup {"cos"}
           /\ [o EXCEPT !.cond["COSInstanceReady"] = "false"].id = local.id \cup {"cos"}
    BY DEF ObjectType
  <2>2. /\ [local EXCEPT !.cond["COSInstanceReady"] = "false"].id = local.id
        /\ [local EXCEPT !.hmac = TRUE, !.cond["COSInstanceReady"] = "true"].id = local.id
    BY DEF ObjectType
  <2>. QED
    BY <2>1, <2>2
       DEF ReconcileCOSInstance, ResolveCOSInstance, CreateCOSInstance, COSError, COSFails,
           ReconcileCOSHMACKey, KeepHMACKey, IssueHMACKey, HMACKeyLost, COSReady
<1>. QED BY <1>1, <1>2, <1>3, <1>4, <1>5, <1>6, <1>7, <1>8, <1>9, <1>10, <1>11

LEMMA PlaceOfCreating ==
    ASSUME TypeOK, PlaceInv, ReconcileStep
    PROVE  PlaceInv'
<1>. USE ResourceNames, CreateCallsOne, CreatesOf, RecordsOf DEF apiVars
<1>1. /\ local \in ObjectType /\ UNCHANGED stored /\ pc # "idle" /\ pc' \in CreatePC \ {"prepare"}
      /\ local.id \subseteq local'.id
  BY CreatePathGrows DEF TypeOK, ControllerTypeOK, Grows, GrowsTo, CreatePC
<1>2. pc # "prepare" => Topology = "LoadBalancer"
  BY CreatePathGrows DEF PlaceInv, NestInv, Grows
<1>3. pc = "components" /\ pvs = "network" => "workspace" \in local.id /\ cloud["workspace"] = "active"
  BY DEF PlaceInv, NestInv, WorkspaceInv
<1>4. CASE Prepare
  <2>1. CASE Topology = "LoadBalancer"
    <3>1. pc' \in {"components", "patch"} /\ (pc' = "components" => pvs' = "workspace")
      BY <1>4, <2>1 DEF Prepare
    <3>. QED BY <1>1, <1>4, <2>1, <3>1, PlaceOfAdding DEF Connections
  <2>2. CASE Topology = "VirtualIP"
    <3>1. local'.id = local.id /\ pc' = "patch" /\ UNCHANGED <<cloud, stored>>
      BY <1>1, <1>4, <2>2 DEF Prepare, cloudVars, ObjectType
    <3>. QED BY <1>1, <3>1 DEF PlaceInv, NestInv, GatewayInv, WorkspaceInv, Exists, Connections, CreatePC
  <2>. QED BY <2>1, <2>2, TopologyAssumption
<1>5. CASE ReconcileWorkspace
  <2>1. /\ pc' = "components"
        /\ pvs' = "network" => "workspace" \in local'.id /\ cloud'["workspace"] = "active"
    BY <1>1, <1>5
       DEF ReconcileWorkspace, VerifyWorkspace, ResolveWorkspace, CreateWorkspace, WorkspaceError,
           PowerVSFails, PowerVSRequeues, cloudVars
  <2>2. /\ \A x \in Res \ {"workspace"} : cloud'[x] = cloud[x]
        /\ cloud'["workspace"] = cloud["workspace"] \/ cloud'["workspace"] = "pending"
    BY <1>5
  <2>. QED BY <1>1, <1>2, <1>5, <2>1, <2>2, PlaceOfAdding DEF Connections, ReconcileWorkspace
<1>6. CASE ReconcileNetwork
  <2>1. pc = "components" /\ pvs = "network" /\ pc' = "components" /\ pvs' = "done"
    BY <1>6
       DEF ReconcileNetwork, VerifyNetwork, ResolveNetwork, CreateNetwork, NetworkError,
           PowerVSFails, NetworkPending
  <2>2. \A x \in Res \ {"network"} : cloud'[x] = cloud[x]
    BY <1>6
  <2>. QED BY <1>1, <1>2, <1>3, <1>6, <2>1, <2>2, PlaceOfAdding DEF Connections
<1>7. CASE ReconcileVPC \/ ReconcileVPCSubnets \/ ReconcileVPCSecurityGroups \/ ReconcileLoadBalancers
  <2>1. pc = "components" /\ pc' = pc /\ pvs' = pvs
    BY <1>7 DEF ReconcileVPC, ReconcileVPCSubnets, ReconcileVPCSecurityGroups, ReconcileLoadBalancers
  <2>2. \A x \in {"workspace", "network", "tg", "vpcConn", "pvsConn", "cos"} :
           x \in Res /\ x # "vpc" /\ x \notin SubnetSet \cup SecurityGroupSet \cup LoadBalancerSet
    BY DistinctAssumption DEF Singletons
  <2>3. /\ local'.id \subseteq local.id \cup {"vpc"} \cup SubnetSet \cup SecurityGroupSet \cup LoadBalancerSet
        /\ \A x \in {"workspace", "network", "tg", "vpcConn", "pvsConn", "cos"} : cloud'[x] = cloud[x]
    BY <1>7, <2>2
  <2>. QED BY <1>1, <1>2, <1>3, <2>1, <2>2, <2>3, PlaceOfAdding DEF Connections
<1>8. CASE Join \/ Finish
  <2>1. pc' \in {"patch", "tg"} /\ pc # "prepare"
    BY <1>8 DEF Join, Finish
  <2>. QED BY <1>1, <1>2, <1>8, <2>1, PlaceOfAdding DEF Connections
<1>9. CASE ReconcileTransitGateway
  <2>1. [local EXCEPT !.id = @ \cup {"tg"}].id = local.id \cup {"tg"}
    BY <1>1 DEF ObjectType
  <2>2. /\ pc' \in {"vpcConn", "patch"} /\ pc # "prepare"
        /\ pc' = "vpcConn" => "tg" \in local'.id /\ cloud'["tg"] = "active"
    BY <1>9, <2>1
       DEF ReconcileTransitGateway, CheckTransitGateway, RecoverTransitGateway,
           CreateTransitGateway, TransitGatewayError, TransitGatewayFails,
           TransitGatewayRequeues, cloudVars
  <2>3. /\ \A x \in Res \ {"tg"} : cloud'[x] = cloud[x]
        /\ cloud'["tg"] = cloud["tg"] \/ cloud'["tg"] = "pending"
    BY <1>9
  <2>. QED BY <1>1, <1>2, <1>9, <2>2, <2>3, PlaceOfAdding DEF Connections
<1>10. CASE ReconcileConnection
  <2>1. pc \in Connections /\ "tg" \in local.id /\ cloud["tg"] \notin {"absent", "deleting"}
    BY <1>10 DEF ReconcileConnection, PlaceInv, NestInv, GatewayInv, Connections
  <2>2. pc' \in {"cos", "finish", "pvsConn", "patch"} /\ (pc' = "cos" => HasCOS)
    BY <1>10
       DEF ReconcileConnection, CheckConnection, CreateConnection, ConnectionError,
           ConnectionDone, TransitGatewayFails
  <2>3. \A x \in Res \ Connections : cloud'[x] = cloud[x]
    BY <1>10, <2>1 DEF Connections
  <2>. QED BY <1>1, <1>2, <1>10, <2>1, <2>2, <2>3, PlaceOfAdding DEF Connections
<1>11. CASE ReconcileCOSInstance \/ ReconcileCOSHMACKey
  <2>1. HasCOS /\ pc # "prepare"
    BY <1>11 DEF ReconcileCOSInstance, ReconcileCOSHMACKey, PlaceInv, NestInv
  <2>2. pc' \in {"hmac", "finish", "patch"}
    BY <1>11
       DEF ReconcileCOSInstance, ResolveCOSInstance, CreateCOSInstance, COSError, COSFails,
           ReconcileCOSHMACKey, KeepHMACKey, IssueHMACKey, HMACKeyLost, COSReady
  <2>3. \A x \in Res \ {"cos"} : cloud'[x] = cloud[x]
    BY <1>11
  <2>. QED BY <1>1, <1>2, <1>11, <2>1, <2>2, <2>3, PlaceOfAdding DEF Connections
<1>. QED
  BY <1>4, <1>5, <1>6, <1>7, <1>8, <1>9, <1>10, <1>11 DEF ReconcileStep

----------------------------------------------------------------------------
(* PassedInv: the delete path leaves nothing behind it.                    *)

\* What is behind stays so.
LEMMA PassedKeeps ==
    ASSUME Wanes, UNCHANGED recorded
    PROVE  /\ Cleared(Connections \cup {"tg"}) => Cleared(Connections \cup {"tg"})'
           /\ \A j \in DOMAIN LoadBalancers :
                 Absent({LoadBalancers[j]}) => Absent({LoadBalancers[j]})'
           /\ Absent(LoadBalancerSet) => Absent(LoadBalancerSet)'
           /\ \A j \in DOMAIN SecurityGroups :
                 Cleared({SecurityGroups[j]}) => Cleared({SecurityGroups[j]})'
           /\ Cleared(SecurityGroupSet) => Cleared(SecurityGroupSet)'
           /\ \A j \in DOMAIN Subnets :
                 Absent({Subnets[j]} \cap recorded) => Absent({Subnets[j]} \cap recorded)'
           /\ Absent(SubnetSet \cap recorded) => Absent(SubnetSet \cap recorded)'
           /\ Cleared({"vpc"}) => Cleared({"vpc"})'
           /\ Cleared({"network"}) => Cleared({"network"})'
           /\ Cleared({"workspace", "network"}) => Cleared({"workspace", "network"})'
           /\ Cleared({"cos"}) => Cleared({"cos"})'
<1>1. /\ SubnetSet \subseteq Res /\ SecurityGroupSet \subseteq Res /\ LoadBalancerSet \subseteq Res
      /\ \A j \in DOMAIN Subnets : Subnets[j] \in Res
      /\ \A j \in DOMAIN SecurityGroups : SecurityGroups[j] \in Res
      /\ \A j \in DOMAIN LoadBalancers : LoadBalancers[j] \in Res
  BY DEF SubnetSet, SecurityGroupSet, LoadBalancerSet, Elems, Res
<1>. QED BY <1>1, ResourceNames DEF Wanes, Cleared, Absent, InfraGone, Exists, Connections

\* What is not in the copy any more is gone.
LEMMA UntrackedGone ==
    ASSUME LifeInv, pc # "idle"
    PROVE  \A r \in recorded : Provision(r) /\ r \notin local.id => ~Exists(r)
BY DEF LifeInv, TrackInv

LEMMA ListPositions ==
    ASSUME NEW s \in Seq(STRING), NEW i \in Nat \ {0}
    PROVE  /\ \A j \in DOMAIN s : ~(j < 1)
           /\ i \notin DOMAIN s => \A j \in DOMAIN s : j < i
           /\ \A j \in DOMAIN s : j < i + 1 => j < i \/ j = i
<1>1. DOMAIN s = 1..Len(s) /\ Len(s) \in Nat
  OBVIOUS
<1>. QED BY <1>1

LEMMA GatewayPassed ==
    ASSUME TypeOK, LifeInv, PlaceInv, PassedInv, NoForeignDelete, Shrinks, DeleteTransitGateway
    PROVE  PassedInv'
<1>1. local \in ObjectType /\ pc = "delTG" /\ pc # "idle"
  BY DEF TypeOK, ControllerTypeOK, DeleteTransitGateway
<1>2. NoTransitGateway \in ObjectType
  BY <1>1 DEF NoTransitGateway, ObjectType
<1>3. \/ res'.err
      \/ pc' = "patch"
      \/ /\ pc' = "delLB" /\ loop' = NoLoop /\ UNCHANGED cloudVars
         /\ "tg" \notin local.id \/ ~Exists("tg") \/ (ConnectionToDelete = "none" /\ ~Provision("tg"))
  BY <1>1, <1>2, DeleteEffects DEF DeleteTransitGateway, DeleteTransitGatewayConnection
<1>4. ASSUME "tg" \notin local.id \/ ~Exists("tg") \/ (ConnectionToDelete = "none" /\ ~Provision("tg"))
      PROVE  Cleared(Connections \cup {"tg"})
  <2>1. CASE "tg" \notin local.id
    <3>1. Connections \cap local.id = {}
      BY <1>1, <2>1 DEF PlaceInv, NestInv, Nested
    <3>. QED BY <1>1, <2>1, <3>1, UntrackedGone DEF Cleared, InfraGone, Exists
  <2>2. CASE ~Exists("tg")
    BY <2>2 DEF NoForeignDelete, PlaceInv, GatewayInv, Exists, Provision, Cleared, InfraGone, Connections
  <2>3. CASE ConnectionToDelete = "none" /\ ~Provision("tg")
    BY <1>1, <2>3, UntrackedGone
       DEF ConnectionToDelete, OwnedConnection, Cleared, InfraGone, Exists, Connections
  <2>. QED BY <1>4, <2>1, <2>2, <2>3
<1>5. UNCHANGED recorded /\ Wanes
  BY DEF Shrinks
<1>6. CASE pc' = "delLB" /\ loop' = NoLoop /\ Cleared(Connections \cup {"tg"})
  <2>1. \A j \in DOMAIN LoadBalancers : ~(j < loop'.i)
    BY <1>6, ListPositions, ListAssumption DEF NoLoop
  <2>. QED BY <1>5, <1>6, <2>1, PassedKeeps DEF PassedInv, DeletePC
<1>7. CASE res'.err \/ pc' = "patch"
  BY <1>7 DEF PassedInv, DeletePC
<1>. QED BY <1>3, <1>4, <1>6, <1>7

\* The iterations of the delete loops.
LEMMA NextDeleteEffects ==
    ASSUME TypeOK, NEW requeue \in BOOLEAN, NEW err \in BOOLEAN, NextDelete(requeue, err)
    PROVE  /\ loop'.i = loop.i + 1 /\ pc' = pc /\ res' = res
           /\ loop'.flag = (loop.flag \/ requeue) /\ loop'.err = (loop.err \/ err)
BY DEF TypeOK, ControllerTypeOK, LoopType, NextDelete

LEMMA LoadBalancersPassed ==
    ASSUME TypeOK, LifeInv, PlaceInv, PassedInv, Shrinks, DeleteLoadBalancer
    PROVE  PassedInv'
<1>1. pc = "delLB" /\ UNCHANGED recorded /\ Wanes /\ loop.i \in Nat \ {0} /\ loop \in LoopType
  BY DEF DeleteLoadBalancer, Shrinks, TypeOK, ControllerTypeOK, LoopType
<1>2. LoadBalancers \in Seq(STRING) /\ SecurityGroups \in Seq(STRING)
  BY ListAssumption
<1>3. CASE loop.i \in DOMAIN LoadBalancers
  <2>1. pc' = pc /\ res' = res /\ loop'.i = loop.i + 1
        /\ (~loop'.flag /\ ~loop'.err =>
               ~loop.flag /\ ~loop.err /\ Absent({LoadBalancers[loop.i]}))
    BY <1>3, NextDeleteEffects
       DEF DeleteLoadBalancer, DeleteOneLoadBalancer, Absent, Provision
  <2>2. ASSUME ~res.err, ~loop'.flag, ~loop'.err, NEW j \in DOMAIN LoadBalancers, j < loop'.i
        PROVE  Absent({LoadBalancers[j]})
    <3>1. j < loop.i \/ j = loop.i
      BY <1>1, <1>2, <2>1, <2>2, ListPositions
    <3>. QED BY <1>1, <2>1, <2>2, <3>1 DEF PassedInv
  <2>. QED BY <1>1, <2>1, <2>2, PassedKeeps DEF PassedInv, DeletePC
<1>4. CASE loop.i \notin DOMAIN LoadBalancers
  <2>1. \/ pc' = "patch"
        \/ pc' = "delSG" /\ res'.err
        \/ pc' = "delSG" /\ res' = res /\ loop' = NoLoop /\ ~loop.err /\ ~loop.flag
    BY <1>4, DeleteEffects DEF DeleteLoadBalancer
  <2>2. ~res.err /\ ~loop.err /\ ~loop.flag => Absent(LoadBalancerSet)
    <3>1. \A j \in DOMAIN LoadBalancers : j < loop.i
      BY <1>1, <1>2, <1>4, ListPositions
    <3>. QED BY <1>1, <3>1 DEF PassedInv, Absent, LoadBalancerSet, Elems
  <2>3. CASE pc' = "delSG" /\ res' = res /\ loop' = NoLoop /\ ~loop.err /\ ~loop.flag
    <3>1. \A j \in DOMAIN SecurityGroups : ~(j < loop'.i)
      BY <1>2, <2>3, ListPositions DEF NoLoop
    <3>. QED BY <1>1, <2>2, <2>3, <3>1, PassedKeeps DEF PassedInv, DeletePC
  <2>4. CASE res'.err \/ pc' = "patch"
    BY <2>4 DEF PassedInv, DeletePC
  <2>. QED BY <2>1, <2>3, <2>4
<1>. QED BY <1>3, <1>4

LEMMA SecurityGroupsPassed ==
    ASSUME TypeOK, LifeInv, PlaceInv, PassedInv, Shrinks, DeleteVPCSecurityGroups
    PROVE  PassedInv'
<1>1. /\ pc = "delSG" /\ pc # "idle" /\ UNCHANGED recorded /\ Wanes
      /\ loop.i \in Nat \ {0} /\ loop \in LoopType
  BY DEF DeleteVPCSecurityGroups, Shrinks, TypeOK, ControllerTypeOK, LoopType
<1>2. SecurityGroups \in Seq(STRING) /\ Subnets \in Seq(STRING)
  BY ListAssumption
<1>3. CASE loop.i \in DOMAIN SecurityGroups
  <2>0. SecurityGroups[loop.i] \in SecurityGroupSet
    BY <1>3 DEF SecurityGroupSet, Elems
  <2>1. \/ res'.err
        \/ /\ pc' = pc /\ res' = res /\ loop'.i = loop.i + 1
           /\ \/ Cleared({SecurityGroups[loop.i]})
              \/ cloud' = [cloud EXCEPT ![SecurityGroups[loop.i]] = "absent"]
    BY <1>1, <1>3, NextDeleteEffects, DeleteEffects, UntrackedGone
       DEF DeleteVPCSecurityGroups, DeleteOneSecurityGroup, Cleared, InfraGone, Exists
  <2>2. \/ res'.err
        \/ /\ pc' = pc /\ res' = res /\ loop'.i = loop.i + 1
           /\ Cleared({SecurityGroups[loop.i]}) \/ cloud'[SecurityGroups[loop.i]] = "absent"
    BY <2>0, <2>1, ResourceNames DEF TypeOK, CloudTypeOK
  <2>3. ASSUME ~res.err, pc' = pc, loop'.i = loop.i + 1, 
               Cleared({SecurityGroups[loop.i]}) \/ cloud'[SecurityGroups[loop.i]] = "absent",
               NEW j \in DOMAIN SecurityGroups, j < loop'.i
        PROVE  Cleared({SecurityGroups[j]})'
    <3>1. j < loop.i \/ j = loop.i
      BY <1>1, <1>2, <2>3, ListPositions
    <3>2. CASE j < loop.i
      BY <1>1, <2>3, <3>2, PassedKeeps DEF PassedInv
    <3>3. CASE j = loop.i
      <4>1. CASE Cleared({SecurityGroups[j]})
        BY <1>1, <4>1, PassedKeeps
      <4>2. CASE cloud'[SecurityGroups[j]] = "absent"
        BY <4>2 DEF Cleared, InfraGone
      <4>. QED BY <2>3, <3>3, <4>1, <4>2
    <3>. QED BY <3>1, <3>2, <3>3
  <2>. QED BY <1>1, <2>2, <2>3, PassedKeeps DEF PassedInv, DeletePC
<1>4. CASE loop.i \notin DOMAIN SecurityGroups
  <2>1. \/ pc' = "patch"
        \/ pc' = "delSubnet" /\ res'.err
        \/ pc' = "delSubnet" /\ res' = res /\ loop' = NoLoop /\ ~loop.err /\ ~loop.flag
    BY <1>4, DeleteEffects DEF DeleteVPCSecurityGroups
  <2>2. ~res.err => Cleared(SecurityGroupSet)
    <3>1. \A j \in DOMAIN SecurityGroups : j < loop.i
      BY <1>1, <1>2, <1>4, ListPositions
    <3>. QED BY <1>1, <3>1 DEF PassedInv, Cleared, SecurityGroupSet, Elems
  <2>3. CASE pc' = "delSubnet" /\ res' = res /\ loop' = NoLoop /\ ~loop.err /\ ~loop.flag
    <3>1. \A j \in DOMAIN Subnets : ~(j < loop'.i)
      BY <1>2, <2>3, ListPositions DEF NoLoop
    <3>. QED BY <1>1, <2>2, <2>3, <3>1, PassedKeeps DEF PassedInv, DeletePC
  <2>4. CASE res'.err \/ pc' = "patch"
    BY <2>4 DEF PassedInv, DeletePC
  <2>. QED BY <2>1, <2>3, <2>4
<1>. QED BY <1>3, <1>4

LEMMA SubnetsPassed ==
    ASSUME TypeOK, LifeInv, PlaceInv, PassedInv, Shrinks, DeleteVPCSubnets
    PROVE  PassedInv'
<1>1. /\ pc = "delSubnet" /\ pc # "idle" /\ UNCHANGED recorded /\ Wanes
      /\ loop.i \in Nat \ {0} /\ loop \in LoopType
  BY DEF DeleteVPCSubnets, Shrinks, TypeOK, ControllerTypeOK, LoopType
<1>2. Subnets \in Seq(STRING)
  BY ListAssumption
<1>3. CASE loop.i \in DOMAIN Subnets
  <2>1. pc' = pc /\ res' = res /\ loop'.i = loop.i + 1
        /\ (~loop'.flag /\ ~loop'.err =>
               ~loop.flag /\ ~loop.err /\ Absent({Subnets[loop.i]} \cap recorded))
    BY <1>1, <1>3, NextDeleteEffects, UntrackedGone DEF DeleteVPCSubnets, DeleteOneSubnet, Absent
  <2>2. ASSUME ~res.err, ~loop'.flag, ~loop'.err, NEW j \in DOMAIN Subnets, j < loop'.i
        PROVE  Absent({Subnets[j]} \cap recorded)
    <3>1. j < loop.i \/ j = loop.i
      BY <1>1, <1>2, <2>1, <2>2, ListPositions
    <3>. QED BY <1>1, <2>1, <2>2, <3>1 DEF PassedInv
  <2>. QED BY <1>1, <2>1, <2>2, PassedKeeps DEF PassedInv, DeletePC
<1>4. CASE loop.i \notin DOMAIN Subnets
  <2>1. \/ pc' = "patch"
        \/ pc' = "delVPC" /\ res'.err
        \/ pc' = "delVPC" /\ res' = res /\ loop' = NoLoop /\ ~loop.err /\ ~loop.flag
    BY <1>4, DeleteEffects DEF DeleteVPCSubnets
  <2>2. ~res.err /\ ~loop.err /\ ~loop.flag => Absent(SubnetSet \cap recorded)
    <3>1. \A j \in DOMAIN Subnets : j < loop.i
      BY <1>1, <1>2, <1>4, ListPositions
    <3>. QED BY <1>1, <3>1 DEF PassedInv, Absent, SubnetSet, Elems
  <2>3. CASE pc' = "delVPC" /\ res' = res /\ loop' = NoLoop /\ ~loop.err /\ ~loop.flag
    BY <1>1, <2>2, <2>3, PassedKeeps DEF PassedInv, DeletePC
  <2>4. CASE res'.err \/ pc' = "patch"
    BY <2>4 DEF PassedInv, DeletePC
  <2>. QED BY <2>1, <2>3, <2>4
<1>. QED BY <1>3, <1>4

LEMMA RestPassed ==
    ASSUME TypeOK, LifeInv, PlaceInv, PassedInv, NoForeignDelete, Shrinks,
           DeleteVPC \/ DeleteDHCPServer \/ DeleteWorkspace \/ DeleteCOSInstance
    PROVE  PassedInv'
<1>1. UNCHANGED recorded /\ Wanes /\ local \in ObjectType
      /\ [local EXCEPT !.id = @ \ {"vpc"}] \in ObjectType
  BY DEF Shrinks, TypeOK, ControllerTypeOK, ObjectType
<1>2. CASE DeleteVPC
  <2>1. pc = "delVPC" /\ pc # "idle"
    BY <1>2 DEF DeleteVPC
  <2>2. res'.err \/ pc' = "patch" \/ (pc' = "delDHCP" /\ res' = res /\ Cleared({"vpc"}))
    BY <1>1, <1>2, <2>1, DeleteEffects, UntrackedGone DEF DeleteVPC, Cleared, InfraGone, Exists
  <2>. QED BY <1>1, <2>1, <2>2, PassedKeeps DEF PassedInv, DeletePC
<1>3. CASE DeleteDHCPServer
  <2>1. pc = "delDHCP" /\ pc # "idle"
    BY <1>3 DEF DeleteDHCPServer
  <2>2. \/ res'.err
        \/ pc' = "delWorkspace" /\ res' = res /\ (Provision("workspace") \/ Cleared({"network"}))
        \/ pc' = "delWorkspace" /\ res' = res /\ cloud' = [cloud EXCEPT !["network"] = "deleting"]
    BY <1>1, <1>3, <2>1, DeleteEffects, UntrackedGone
       DEF DeleteDHCPServer, ManagedDHCPServer, StartDelete, Cleared, InfraGone, Exists
  <2>3. cloud' = [cloud EXCEPT !["network"] = "deleting"] => Cleared({"network"})'
    BY ResourceNames DEF TypeOK, CloudTypeOK, Cleared, InfraGone
  <2>. QED BY <1>1, <2>1, <2>2, <2>3, PassedKeeps DEF PassedInv, DeletePC
<1>4. CASE DeleteWorkspace
  <2>1. pc = "delWorkspace" /\ pc # "idle"
    BY <1>4 DEF DeleteWorkspace
  <2>2. \/ res'.err
        \/ pc' = "patch"
        \/ /\ pc' = AfterWorkspace /\ res' = res
           /\ \/ ~(Provision("workspace") /\ "workspace" \in local.id)
              \/ cloud["workspace"] = "removed"
    BY <1>1, <1>4, DeleteEffects DEF DeleteWorkspace
  <2>3. ASSUME ~res.err, \/ ~(Provision("workspace") /\ "workspace" \in local.id)
                         \/ cloud["workspace"] = "removed"
        PROVE  Cleared({"workspace", "network"})
    <3>1. "network" \in local.id => "workspace" \in local.id
      BY <2>1 DEF PlaceInv, NestInv, Nested
    <3>2. CASE ~Provision("workspace")
      BY <2>1, <2>3, <3>2 DEF PassedInv, Cleared
    <3>3. CASE Provision("workspace") /\ "workspace" \notin local.id
      BY <2>1, <3>1, <3>3, UntrackedGone DEF Cleared, InfraGone, Exists
    <3>4. CASE Provision("workspace") /\ cloud["workspace"] = "removed"
      BY <3>4 DEF PlaceInv, WorkspaceInv, Cleared, InfraGone, Exists
    <3>. QED BY <2>3, <3>2, <3>3, <3>4
  <2>4. ~HasCOS => Cleared({"cos"})
    BY <2>1, UntrackedGone DEF PlaceInv, NestInv, Nested, Cleared, InfraGone, Exists
  <2>5. CASE res'.err \/ pc' = "patch"
    BY <2>5 DEF PassedInv, DeletePC
  <2>6. CASE /\ pc' \in {"delCOS", "delEnd"} /\ (pc' = "delEnd" => ~HasCOS) /\ res' = res
             /\ ~res.err => Cleared({"workspace", "network"})
    <3>1. Cleared({"workspace", "network"}) => Cleared({"network"})
      BY DEF Cleared
    <3>. QED BY <1>1, <2>1, <2>4, <2>6, <3>1, PassedKeeps DEF PassedInv, DeletePC
  <2>. QED BY <2>2, <2>3, <2>5, <2>6 DEF AfterWorkspace
<1>5. CASE DeleteCOSInstance
  <2>1. pc = "delCOS" /\ pc # "idle"
    BY <1>5 DEF DeleteCOSInstance
  <2>2. \/ res'.err
        \/ pc' = "delEnd" /\ res' = res /\ Cleared({"cos"})
        \/ pc' = "delEnd" /\ res' = res /\ cloud' = [cloud EXCEPT !["cos"] = "deleting"]
    BY <1>1, <1>5, <2>1, DeleteEffects, UntrackedGone
       DEF DeleteCOSInstance, ManagedCOS, Cleared, InfraGone, Exists
  <2>3. cloud' = [cloud EXCEPT !["cos"] = "deleting"] => Cleared({"cos"})'
    BY ResourceNames DEF TypeOK, CloudTypeOK, Cleared, InfraGone
  <2>. QED BY <1>1, <2>1, <2>2, <2>3, PassedKeeps DEF PassedInv, DeletePC
<1>. QED BY <1>2, <1>3, <1>4, <1>5

\* Everything outside the delete path's methods leaves it at its start or not
\* on it at all.
LEMMA OthersPassed ==
    ASSUME TypeOK, PassedInv,
           \/ Ages \/ Grows
           \/ pc' \in {"idle", "prepare", "images", "delTG", "patch"}
    PROVE  PassedInv'
<1>1. CASE Ages
  BY <1>1, PassedKeeps DEF Ages, ctlVars, PassedInv
<1>2. CASE Grows \/ pc' \in {"idle", "prepare", "images", "delTG", "patch"}
  BY <1>2 DEF Grows, CreatePC, PassedInv, DeletePC
<1>. QED BY <1>1, <1>2

----------------------------------------------------------------------------
(* The whole invariant, and what follows from it.                          *)

\* A deleted object keeps its finalizer until it goes, and what is gone answers
\* for nothing.
GoneInv ==
    /\ phase = "deleting" => stored.finalizer
    /\ phase = "gone" => pc = "idle" /\ Owned = {}

LEMMA PathSteps ==
    ASSUME TypeOK, ContractInv, NoForeignDelete, DeleteStep
    PROVE  Shrinks /\ LifeInv' /\ PassedInv'
<1>1. Shrinks
  BY DeletePathShrinks DEF ContractInv, PlaceInv
<1>2. PassedInv'
  <2>1. CASE DeleteImages \/ DeleteEnds
    BY <2>1, OthersPassed DEF DeleteImages, DeleteEnds, ContractInv
  <2>. QED
    BY <1>1, <2>1, GatewayPassed, LoadBalancersPassed, SecurityGroupsPassed, SubnetsPassed,
       RestPassed DEF DeleteStep, ContractInv
<1>3. ASSUME pc' = "patch", ~local'.finalizer
      PROVE  Cleared(Res)
  <2>1. local.finalizer /\ pc \in {"images", "delEnd"}
    BY <1>1, <1>3 DEF ContractInv, LifeInv, FinalizerInv, Shrinks, DeletePC
  <2>2. CASE pc = "images"
    <3>1. Topology # "LoadBalancer"
      BY <1>3, <2>1, <2>2 DEF DeleteStep, DeleteImages, DeleteTransitGateway, DeleteLoadBalancer,
         DeleteVPCSecurityGroups, DeleteVPCSubnets, DeleteVPC, DeleteDHCPServer, DeleteWorkspace,
         DeleteCOSInstance, DeleteEnds
    <3>2. local.id = {}
      BY <2>2, <3>1 DEF ContractInv, PlaceInv, NestInv, Nested
    <3>. QED BY <2>2, <3>2, UntrackedGone DEF ContractInv, Cleared, InfraGone, Exists
  <2>3. CASE pc = "delEnd"
    <3>1. ~res.err
      BY <1>3, <2>1, <2>3 DEF DeleteStep, DeleteImages, DeleteTransitGateway, DeleteLoadBalancer,
         DeleteVPCSecurityGroups, DeleteVPCSubnets, DeleteVPC, DeleteDHCPServer, DeleteWorkspace,
         DeleteCOSInstance, DeleteEnds
    <3>2. /\ Cleared(Connections \cup {"tg"}) /\ Absent(LoadBalancerSet)
          /\ Cleared(SecurityGroupSet) /\ Absent(SubnetSet \cap recorded)
          /\ Cleared({"vpc"}) /\ Cleared({"workspace", "network"}) /\ Cleared({"cos"})
      BY <2>3, <3>1 DEF ContractInv, PassedInv, DeletePC
    <3>3. \A r \in Singletons \cap recorded : Provision(r) => InfraGone(r)
      BY <3>2, ReferenceAssumption DEF Singletons, Cleared, Connections, Provision
    <3>4. \A r \in (SubnetSet \cup SecurityGroupSet \cup LoadBalancerSet) \cap recorded :
             Provision(r) => InfraGone(r)
      BY <3>2 DEF Cleared, Absent, InfraGone, Exists
    <3>. QED BY <3>3, <3>4 DEF Cleared, Res
  <2>. QED BY <2>1, <2>2, <2>3
<1>4. LifeInv'
  BY <1>1, <1>3, DeletePathLife DEF ContractInv
<1>. QED BY <1>1, <1>2, <1>4

LEMMA ContractStep ==
    ASSUME \A r \in Res : ~CloudVanish(r), TypeOK, NoForeignDelete, ContractInv, [Next]_vars
    PROVE  ContractInv'
<1>1. CASE Environment
  BY <1>1, EnvironmentAges, EnvironmentLife, PlaceOfRest, OthersPassed DEF ContractInv
<1>2. CASE ReconcileStep
  BY <1>2, CreatePathGrows, CreatePathLife, PlaceOfCreating, OthersPassed DEF ContractInv
<1>3. CASE DeleteStep
  BY <1>3, PathSteps, PlaceOfRest DEF ContractInv
<1>4. CASE EnsureFinalizer \/ StartReconcile \/ Patch \/ Crash
  <2>1. pc' \in {"idle", "prepare", "images"}
    BY <1>4 DEF EnsureFinalizer, StartReconcile, Patch, Crash, ForgetAll, ctlVars
  <2>. QED BY <1>4, <2>1, ReconcileEndsLife, PlaceOfEnds, OthersPassed DEF ContractInv
<1>5. CASE ReconcileNotFound \/ UNCHANGED vars
  <2>1. Ages
    BY <1>5 DEF ReconcileNotFound, vars, Ages, Wanes, cloudVars, apiVars
  <2>. QED BY <2>1, EnvironmentLife, PlaceOfRest, OthersPassed DEF ContractInv
<1>. QED BY <1>1, <1>2, <1>3, <1>4, <1>5 DEF Next, Controller

LEMMA GoneStep ==
    ASSUME \A r \in Res : ~CloudVanish(r), TypeOK, TypeOK', NoForeignDelete, ContractInv, GoneInv,
           [Next]_vars
    PROVE  GoneInv'
<1>1. CASE Environment \/ ReconcileNotFound \/ UNCHANGED vars
  <2>1. Ages
    BY <1>1, EnvironmentAges DEF ReconcileNotFound, vars, Ages, Wanes, cloudVars, apiVars
  <2>2. recorded \subseteq Res /\ (Owned = {} => Owned' = {})
    BY <2>1 DEF Ages, Wanes, Owned, InfraGone, TypeOK, ApiTypeOK
  <2>. QED BY <2>1, <2>2 DEF Ages, ctlVars, GoneInv, ContractInv, LifeInv, FinalizerInv, Owned
<1>2. CASE ReconcileStep \/ DeleteStep
  <2>1. pc # "idle" /\ UNCHANGED <<stored, phase>>
    BY <1>2, CreatePathGrows, PathSteps DEF Grows, Shrinks, CreatePC, DeletePC
  <2>. QED BY <2>1 DEF GoneInv
<1>3. CASE EnsureFinalizer \/ StartReconcile \/ Crash
  <2>1. phase # "gone" /\ phase' = phase /\ (stored.finalizer => stored'.finalizer)
    BY <1>3 DEF EnsureFinalizer, StartReconcile, Crash, GoneInv, apiVars, TypeOK, ApiTypeOK, ObjectType
  <2>. QED BY <2>1 DEF GoneInv
<1>4. CASE Patch
  <2>1. pc = "patch" /\ phase # "gone" /\ pc' = "idle" /\ cloud' = cloud
    BY <1>4, PatchEffects DEF GoneInv, cloudVars
  <2>2. ASSUME phase' = "gone"
        PROVE  Owned' = {}
    <3>1. ~stored'.finalizer /\ phase = "deleting"
      BY <1>4, <2>1, <2>2, PatchEffects
    <3>2. ~local.finalizer
      BY <1>4, <3>1, PatchEffects DEF GoneInv
    <3>3. local.id \subseteq recorded /\ Cleared(Res) /\ stored.id \subseteq recorded
      BY <2>1, <3>2 DEF ContractInv, LifeInv, EndInv, TrackInv
    <3>4. recorded' = recorded
      BY <1>4, <3>3, PatchEffects
    <3>. QED BY <2>1, <3>3, <3>4 DEF Owned, Cleared, InfraGone, TypeOK, ApiTypeOK
  <2>3. phase' = "deleting" => stored'.finalizer
    BY <1>4, <2>1, PatchEffects DEF TypeOK, ApiTypeOK
  <2>. QED BY <2>1, <2>2, <2>3 DEF GoneInv
<1>. QED BY <1>1, <1>2, <1>3, <1>4 DEF Next, Controller

\* A connection exists in a gateway: one that the user has already comes with
\* a gateway that the user has, or refers to.
NestedPreexisting == Preexisting \cap Connections # {} => "tg" \in Preexisting \cup Referenced

LEMMA ContractInit ==
    ASSUME NestedPreexisting, Init
    PROVE  ContractInv /\ GoneInv
<1>1. LifeInv /\ GoneInv
  BY DEF Init, LifeInv, GrowInv, FinalizerInv, TrackInv, EndInv, CreatePC, DeletePC, NewObject,
         GoneInv, Owned
<1>2. NestInv
  BY DEF Init, NestInv, Nested, NewObject, Connections, CreatePC
<1>3. GatewayInv
  BY NestingAssumption, ReferenceAssumption, ResourceNames
     DEF Init, NestedPreexisting, GatewayInv, Connections, Exists, Provision
<1>4. WorkspaceInv
  BY ResourceNames DEF Init, WorkspaceInv
<1>5. PassedInv
  BY DEF Init, PassedInv, DeletePC
<1>. QED BY <1>1, <1>2, <1>3, <1>4, <1>5 DEF ContractInv, PlaceInv

\* A status write never drops the ID of a provisioned resource that still
\* exists, and none at all while the cluster is wanted: whatever fails, in
\* whichever order the three patches of an object succeed.
THEOREM IDsAreKept ==
    ASSUME "vanish" \notin FaultKinds, NestedPreexisting
    PROVE  Spec => NeverForgetsLive
<1>1. ContractInv /\ TypeOK /\ [Next]_vars =>
         [\A r \in stored.id \ stored'.id : phase = "live" \/ Provision(r) => cloud[r] = "absent"]_vars
  <2>. SUFFICES ASSUME ContractInv, TypeOK, Next, NEW r \in stored.id \ stored'.id,
                       phase = "live" \/ Provision(r)
                PROVE  cloud[r] = "absent"
    OBVIOUS
  <2>1. stored.id # stored'.id
    OBVIOUS
  <2>2. ~Environment
    BY <2>1 DEF Environment, CloudReady, CloudFail, CloudVanish, CloudDeleted, ImageDeleted,
       RequestDelete, OpenGate, Pause, apiVars
  <2>3. ~ReconcileStep
    BY <2>1, CreatePathGrows DEF Grows
  <2>4. ~DeleteStep
    BY <2>1 DEF DeleteStep, DeleteImages, DeleteTransitGateway, DeleteLoadBalancer,
       DeleteVPCSecurityGroups, DeleteVPCSubnets, DeleteVPC, DeleteDHCPServer, DeleteWorkspace,
       DeleteCOSInstance, DeleteEnds, apiVars
  <2>5. Patch
    BY <2>1, <2>2, <2>3, <2>4 DEF Next, Controller, EnsureFinalizer, StartReconcile, Crash,
       ReconcileNotFound, apiVars, vars, TypeOK, ApiTypeOK, ObjectType
  <2>6. pc # "idle" /\ r \notin local.id /\ r \in recorded
    BY <2>5, PatchEffects DEF ContractInv, LifeInv, TrackInv
  <2>. QED BY <2>6, UntrackedGone DEF ContractInv, LifeInv, TrackInv, Exists
<1>. QED
  BY <1>1, NoVanishing, ContractInit, ContractStep, TypeCorrect, ReferencesAreSafe, PTL DEF Spec, NeverForgetsLive

\* Nothing that is wanted goes while nobody asked for it.
LEMMA WantedStays ==
    ASSUME \A r \in Res : ~CloudVanish(r), TypeOK, Environment, \A r \in Res : cloud[r] # "deleting"
    PROVE  \A r \in Res : cloud'[r] \in {"absent", "deleting", "removed"} => cloud'[r] = cloud[r]
<1>. USE DEF TypeOK, CloudTypeOK
<1>1. ASSUME NEW r \in Res, CloudReady(r) \/ CloudFail(r) \/ CloudDeleted(r) \/ CloudVanish(r)
      PROVE  \A x \in Res : cloud'[x] \in {"absent", "deleting", "removed"} => cloud'[x] = cloud[x]
  BY <1>1 DEF CloudReady, CloudFail, CloudDeleted
<1>. QED BY <1>1 DEF Environment, ImageDeleted, RequestDelete, OpenGate, Pause, cloudVars

\* Every step of the controller, of IBM Cloud and of the user is a step of the
\* contract, or none.
LEMMA StepImplements ==
    ASSUME \A r \in Res : ~CloudVanish(r), TypeOK, TypeOK', NoForeignDelete, ContractInv, GoneInv,
           ContractInv', GoneInv', [Next]_vars
    PROVE  [Contract!Step]_(Contract!contractVars)
<1>. USE DEF Contract!Step, Contract!contractVars
<1>0. /\ recorded \subseteq Res /\ recorded' \subseteq Res /\ Owned' \subseteq Res
      /\ phase \in {"live", "deleting", "gone"}
  BY DEF TypeOK, ApiTypeOK, Owned
<1>1. CASE Environment
  <2>1. Ages
    BY <1>1, EnvironmentAges
  <2>2. UNCHANGED <<stored.provisioned, stored.endpoint, recorded>>
    BY <2>1 DEF Ages
  <2>3. CASE phase' = "live"
    <3>1. phase = "live" /\ \A r \in Res : cloud[r] # "deleting"
      BY <2>1, <2>3 DEF Ages, ContractInv, LifeInv, FinalizerInv
    <3>2. Owned \subseteq Owned'
      BY <1>0, <1>1, <2>2, <3>1, WantedStays DEF Owned, InfraGone
    <3>. QED BY <1>0, <2>2, <2>3, <3>1, <3>2 DEF Contract!Build, Contract!ReportsGrow
  <2>4. CASE phase' # "live" /\ phase = "live"
    <3>1. Owned' = Owned /\ phase' = IF stored.finalizer THEN "deleting" ELSE "gone"
      BY <2>1, <2>4 DEF Ages, Owned, InfraGone
    <3>2. ~stored.finalizer => Owned = {}
      BY <2>4 DEF ContractInv, LifeInv, FinalizerInv, Owned
    <3>. QED BY <2>2, <2>4, <3>1, <3>2 DEF Contract!Delete
  <2>5. CASE phase = "deleting"
    BY <1>0, <2>1, <2>2, <2>5 DEF Ages, Contract!Teardown, Contract!ReportsGrow
  <2>6. CASE phase = "gone"
    BY <2>1, <2>2, <2>6 DEF Ages, GoneInv
  <2>. QED BY <1>0, <2>3, <2>4, <2>5, <2>6
<1>2. CASE ReconcileStep
  <2>1. Grows /\ phase \in {"live", "deleting"}
    BY <1>0, <1>2, CreatePathGrows DEF Grows, GoneInv, CreatePC
  <2>2. Owned \subseteq Owned'
    BY <1>0, <2>1 DEF Grows, CreatesOnly, Owned, InfraGone
  <2>. QED BY <1>0, <2>1, <2>2 DEF Grows, Contract!Build, Contract!Teardown, Contract!ReportsGrow
<1>3. CASE DeleteStep
  <2>1. Shrinks
    BY <1>3, PathSteps
  <2>2. phase = "deleting"
    BY <1>0, <2>1 DEF Shrinks, GoneInv, DeletePC, CreatePC, ContractInv, LifeInv, FinalizerInv
  <2>. QED BY <1>0, <2>1, <2>2 DEF Shrinks, Contract!Teardown, Contract!ReportsGrow
<1>4. CASE Patch
  <2>1. /\ pc = "patch" /\ phase # "gone" /\ cloud' = cloud
        /\ phase' = phase \/ (phase = "deleting" /\ phase' = "gone")
        /\ recorded \subseteq recorded'
    BY <1>4, PatchEffects DEF GoneInv, cloudVars
  <2>2. /\ stored.provisioned => stored'.provisioned
        /\ stored.endpoint => stored'.endpoint
    BY <1>4, <2>1, PatchEffects DEF ContractInv, LifeInv, GrowInv
  <2>3. Owned \subseteq Owned'
    BY <2>1 DEF Owned, InfraGone
  <2>4. phase' = "gone" => Owned' = {}
    BY DEF GoneInv
  <2>. QED BY <1>0, <2>1, <2>2, <2>3, <2>4
           DEF Contract!Build, Contract!Teardown, Contract!Vanish, Contract!ReportsGrow
<1>5. CASE EnsureFinalizer \/ StartReconcile \/ Crash \/ ReconcileNotFound \/ UNCHANGED vars
  <2>1. UNCHANGED <<phase, stored.provisioned, stored.endpoint, recorded, cloud>>
    BY <1>5 DEF EnsureFinalizer, StartReconcile, Crash, ReconcileNotFound, vars, apiVars, cloudVars,
       TypeOK, ApiTypeOK, ObjectType
  <2>. QED BY <2>1 DEF Owned, InfraGone
<1>. QED BY <1>1, <1>2, <1>3, <1>4, <1>5 DEF Next, Controller

\* The controller implements the contract of an infrastructure cluster: what
\* was recorded is kept while the cluster is wanted and is gone or going when
\* the object goes, and what was reported is not taken back.
THEOREM ContractIsImplemented ==
    ASSUME "vanish" \notin FaultKinds, NestedPreexisting
    PROVE  Spec => ImplementsContract
<1>1. Init => Contract!Start
  BY DEF Init, Contract!Start, Owned, NewObject
<1>. QED
  BY <1>1, NoVanishing, ContractInit, ContractStep, GoneStep, StepImplements, TypeCorrect,
     ReferencesAreSafe, PTL
  DEF Spec, ImplementsContract, Contract!Spec

----------------------------------------------------------------------------
(* Nothing is created twice.                                               *)

\* Only the transit gateway has its lookup's error dropped.
TwiceInv == dup \subseteq {"tg"} /\ ("api" \notin FaultKinds => dup = {})

LEMMA TwiceCalls ==
    ASSUME TwiceInv
    PROVE  /\ UNCHANGED cloudVars => TwiceInv'
           /\ UNCHANGED dup => TwiceInv'
           /\ \A r, state : ~Exists(r) /\ CreateAs(r, state) => TwiceInv'
           /\ \A state : "api" \in FaultKinds /\ CreateAs("tg", state) => TwiceInv'
BY DEF TwiceInv, CreateAs, cloudVars

\* A create call for a resource of the cluster is made only when no resource has
\* its name, whatever was lost, crashed or vanished before: none is ever
\* duplicated, but for the transit gateway, whose lookup may fail unnoticed.
THEOREM NothingIsCreatedTwice ==
    Spec => [](dup \subseteq {"tg"} /\ ("api" \notin FaultKinds => NoDuplicates))
<1>1. Init => TwiceInv
  BY DEF Init, TwiceInv
<1>2. TwiceInv /\ [Next]_vars => TwiceInv'
  <2>. SUFFICES ASSUME TwiceInv, [Next]_vars PROVE TwiceInv'
    OBVIOUS
  <2>. USE TwiceCalls
  <2>1. CASE Environment \/ EnsureFinalizer \/ StartReconcile \/ Patch \/ Crash
             \/ ReconcileNotFound \/ UNCHANGED vars
    BY <2>1 DEF Environment, CloudReady, CloudFail, CloudVanish, CloudDeleted, ImageDeleted,
       RequestDelete, OpenGate, Pause, EnsureFinalizer, StartReconcile, Patch, Crash,
       ReconcileNotFound, vars
  <2>2. CASE DeleteStep
    BY <2>2 DEF DeleteStep, DeleteImages, DeleteTransitGateway, DeleteTransitGatewayConnection,
       DeleteLoadBalancer, DeleteOneLoadBalancer, DeleteVPCSecurityGroups, DeleteOneSecurityGroup,
       DeleteVPCSubnets, DeleteOneSubnet, DeleteVPC, DeleteDHCPServer, DeleteWorkspace,
       DeleteCOSInstance, DeleteEnds, DeleteLoopEnds, CallFails, StartDelete
  <2>3. CASE ReconcileTransitGateway
    BY <2>3 DEF ReconcileTransitGateway, CheckTransitGateway, RecoverTransitGateway,
       CreateTransitGateway, TransitGatewayError, Fault
  <2>4. CASE ReconcileStep /\ ~ReconcileTransitGateway
    <3>1. CASE Prepare \/ Join \/ Finish
      BY <3>1 DEF Prepare, Join, Finish
    <3>2. CASE ReconcileWorkspace \/ ReconcileNetwork
      BY <3>2 DEF ReconcileWorkspace, VerifyWorkspace, ResolveWorkspace, CreateWorkspace,
         WorkspaceError, ReconcileNetwork, VerifyNetwork, ResolveNetwork, CreateNetwork, NetworkError
    <3>3. CASE ReconcileVPC \/ ReconcileVPCSubnets
      BY <3>3 DEF ReconcileVPC, VerifyVPC, ResolveVPC, CreateVPC, VPCError,
         ReconcileVPCSubnets, VerifySubnet, ResolveSubnet, CreateSubnet, SubnetError
    <3>4. CASE ReconcileVPCSecurityGroups \/ ReconcileLoadBalancers
      BY <3>4 DEF ReconcileVPCSecurityGroups, ResolveSecurityGroup, CreateSecurityGroup,
         SecurityGroupError, ReconcileLoadBalancers, VerifyLoadBalancer, RecoverLoadBalancer,
         CreateLoadBalancer, LoadBalancerError, LoadBalancersReconciled
    <3>5. CASE ReconcileConnection
      BY <3>5 DEF ReconcileConnection, CheckConnection, CreateConnection, ConnectionError
    <3>6. CASE ReconcileCOSInstance \/ ReconcileCOSHMACKey
      BY <3>6 DEF ReconcileCOSInstance, ResolveCOSInstance, CreateCOSInstance, COSError,
         ReconcileCOSHMACKey, KeepHMACKey, IssueHMACKey, HMACKeyLost
    <3>. QED BY <2>4, <3>1, <3>2, <3>3, <3>4, <3>5, <3>6 DEF ReconcileStep
  <2>. QED BY <2>1, <2>2, <2>3, <2>4 DEF Next, Controller
<1>3. TwiceInv => dup \subseteq {"tg"} /\ ("api" \notin FaultKinds => NoDuplicates)
  BY DEF TwiceInv, NoDuplicates
<1>. QED BY <1>1, <1>2, <1>3, PTL DEF Spec

----------------------------------------------------------------------------
(* Deletion waits for what is attached.                                    *)

\* Nothing is attached to what the cluster will delete but what it attached
\* itself: no subnet or connection under a name the user already has, and no
\* referenced load balancer in a subnet that is not referenced.
NothingForeignAttached ==
    /\ Preexisting \cap (SubnetSet \cup Connections) = {}
    /\ LoadBalancerSet \cap Referenced = {} \/ SubnetSet \subseteq Referenced

\* The IDs the next patch leaves in the status when it succeeds.
Tracked == IF pc = "idle" THEN stored.id ELSE local.id

\* Before anything fails, every subnet and connection that exists is tracked and
\* the workspace of a tracked ID exists; the delete path has met no error.
CleanInv ==
    /\ pc = "idle" => ~res.err /\ ~loop.err
    /\ faults = 0 =>
         /\ ContractInv
         /\ pc \in DeletePC => ~res.err /\ ~loop.err
         /\ \A r \in SubnetSet \cup Connections : Provision(r) /\ Exists(r) => r \in Tracked
         /\ "workspace" \in stored.id \/ (pc # "idle" /\ "workspace" \in local.id) => Exists("workspace")

\* A step at which nothing failed so far is no failure.
LEMMA NoFailure ==
    ASSUME TypeOK, faults' = 0, [Next]_vars
    PROVE  faults = 0 /\ \A kind : ~Fault(kind)
<1>1. faults \in Nat
  BY FaultAssumption DEF TypeOK
<1>2. \A kind : ~Fault(kind)
  BY <1>1 DEF Fault
<1>3. NoFault \/ UNCHANGED faults => faults = 0
  BY DEF NoFault
<1>. USE <1>2, <1>3
<1>4. CASE Environment \/ EnsureFinalizer \/ StartReconcile \/ Patch \/ Crash
           \/ ReconcileNotFound \/ UNCHANGED vars
  BY <1>4 DEF Environment, CloudReady, CloudFail, CloudVanish, CloudDeleted, ImageDeleted,
     RequestDelete, OpenGate, Pause, EnsureFinalizer, StartReconcile, Patch, Crash,
     ReconcileNotFound, vars
<1>5. CASE ReconcileStep
  <2>1. CASE Prepare \/ Join \/ Finish
    BY <2>1 DEF Prepare, Join, Finish
  <2>2. CASE ReconcileWorkspace \/ ReconcileNetwork
    BY <2>2 DEF ReconcileWorkspace, VerifyWorkspace, ResolveWorkspace, CreateWorkspace,
       WorkspaceError, ReconcileNetwork, VerifyNetwork, ResolveNetwork, CreateNetwork, NetworkError
  <2>3. CASE ReconcileVPC \/ ReconcileVPCSubnets
    BY <2>3 DEF ReconcileVPC, VerifyVPC, ResolveVPC, CreateVPC, VPCError,
       ReconcileVPCSubnets, VerifySubnet, ResolveSubnet, CreateSubnet, SubnetError
  <2>4. CASE ReconcileVPCSecurityGroups \/ ReconcileLoadBalancers
    BY <2>4 DEF ReconcileVPCSecurityGroups, ResolveSecurityGroup, CreateSecurityGroup,
       SecurityGroupError, ReconcileLoadBalancers, VerifyLoadBalancer, RecoverLoadBalancer,
       CreateLoadBalancer, LoadBalancerError, LoadBalancersReconciled
  <2>5. CASE ReconcileTransitGateway \/ ReconcileConnection
    BY <2>5 DEF ReconcileTransitGateway, CheckTransitGateway, RecoverTransitGateway,
       CreateTransitGateway, TransitGatewayError, ReconcileConnection, CheckConnection,
       CreateConnection, ConnectionError
  <2>6. CASE ReconcileCOSInstance \/ ReconcileCOSHMACKey
    BY <2>6 DEF ReconcileCOSInstance, ResolveCOSInstance, CreateCOSInstance, COSError,
       ReconcileCOSHMACKey, KeepHMACKey, IssueHMACKey, HMACKeyLost
  <2>. QED BY <1>5, <2>1, <2>2, <2>3, <2>4, <2>5, <2>6 DEF ReconcileStep
<1>6. CASE DeleteStep
  BY <1>6 DEF DeleteStep, DeleteImages, DeleteTransitGateway, DeleteTransitGatewayConnection,
     DeleteLoadBalancer, DeleteOneLoadBalancer, DeleteVPCSecurityGroups, DeleteOneSecurityGroup,
     DeleteVPCSubnets, DeleteOneSubnet, DeleteVPC, DeleteDHCPServer, DeleteWorkspace,
     DeleteCOSInstance, DeleteEnds, DeleteLoopEnds, CallFails
<1>. QED BY <1>2, <1>4, <1>5, <1>6 DEF Next, Controller

\* What the create path makes is tracked at once.
LEMMA CreatedIsTracked ==
    ASSUME TypeOK, \A kind : ~Fault(kind), ReconcileStep
    PROVE  /\ \A r \in SubnetSet \cup Connections : cloud'[r] = cloud[r] \/ r \in local'.id
           /\ "workspace" \in local'.id => "workspace" \in local.id \/ cloud'["workspace"] # "absent"
           /\ cloud["workspace"] # "absent" => cloud'["workspace"] # "absent"
<1>. USE ResourceNames
<1>1. /\ local \in ObjectType /\ local.id \subseteq local'.id
      /\ cloud["workspace"] # "absent" => cloud'["workspace"] # "absent"
  BY CreatePathGrows DEF TypeOK, ControllerTypeOK, Grows, GrowsTo, CreatesOnly
<1>2. /\ \A r \in SubnetSet \cup Connections : r \in Res /\ r \notin {"workspace", "network", "vpc", "tg", "cos"}
      /\ \A r \in SubnetSet \cup Connections : r \notin SecurityGroupSet \cup LoadBalancerSet
      /\ \A r \in SubnetSet \cup SecurityGroupSet \cup LoadBalancerSet \cup Connections : r # "workspace"
  BY DistinctAssumption DEF Singletons, Connections
<1>3. \A r \in SubnetSet \cup Connections : cloud'[r] = cloud[r] \/ r \in local'.id
  <2>1. CASE ReconcileVPCSubnets
    <3>1. UNCHANGED cloud \/ \E s \in SubnetSet : CreateAs(s, "pending") /\ Record(s)
      BY <2>1 DEF ReconcileVPCSubnets, VerifySubnet, ResolveSubnet, CreateSubnet,
         SubnetError, cloudVars, SubnetSet, Elems
    <3>. QED BY <1>1, <1>2, <3>1, RecordEffects, CreateCallsOne
  <2>2. CASE ReconcileConnection
    <3>1. PICK c \in Connections : c = pc
      BY <2>2 DEF ReconcileConnection, Connections
    <3>. DEFINE o == [local EXCEPT !.id = @ \cup {c}]
    <3>2. c \in o.id /\ c \in [o EXCEPT !.cond["TransitGatewayReady"] = "true"].id
      BY <1>1 DEF ObjectType
    <3>3. \A requeue : ConnectionDone(c, o, requeue) => c \in local'.id
      BY <3>2 DEF ConnectionDone
    <3>. HIDE DEF o
    <3>4. UNCHANGED cloud \/ (CreateAs(c, "pending") /\ ConnectionDone(c, o, TRUE))
      BY <2>2, <3>1 DEF ReconcileConnection, CheckConnection, CreateConnection, ConnectionError,
         cloudVars, o
    <3>5. CASE CreateAs(c, "pending") /\ ConnectionDone(c, o, TRUE)
      <4>1. c \in local'.id /\ \A r \in Res \ {c} : cloud'[r] = cloud[r]
        BY <1>2, <3>3, <3>5, CreateCallsOne
      <4>. QED BY <1>2, <4>1
    <3>. QED BY <3>4, <3>5
  <2>3. CASE \/ Prepare \/ ReconcileWorkspace \/ ReconcileNetwork \/ ReconcileVPC
             \/ ReconcileVPCSecurityGroups \/ ReconcileLoadBalancers \/ Join
             \/ ReconcileTransitGateway \/ ReconcileCOSInstance \/ ReconcileCOSHMACKey \/ Finish
    BY <1>2, <2>3, CreatesOf, CreateCallsOne
  <2>. QED BY <2>1, <2>2, <2>3 DEF ReconcileStep
<1>4. "workspace" \in local'.id => "workspace" \in local.id \/ cloud'["workspace"] # "absent"
  <2>1. CASE ReconcileWorkspace
    BY <2>1, CreateCallsOne DEF ReconcileWorkspace, VerifyWorkspace, ResolveWorkspace, CreateWorkspace,
       WorkspaceError, Exists, cloudVars
  <2>2. CASE ReconcileStep /\ ~ReconcileWorkspace
    BY <1>2, <2>2, RecordsOf DEF ReconcileStep, Connections
  <2>. QED BY <2>1, <2>2
<1>. QED BY <1>1, <1>3, <1>4

\* No delete call is refused, and no lookup of the workspace fails.
LEMMA NotRefused ==
    ASSUME NothingForeignAttached, TypeOK, NoForeignDelete, ContractInv, CleanInv, faults = 0,
           \A kind : ~Fault(kind), DeleteStep
    PROVE  pc' \in DeletePC => ~res'.err /\ ~loop'.err
<1>1. /\ pc \in DeletePC /\ ~res.err /\ ~loop.err /\ local.id \subseteq recorded
      /\ \A r \in SubnetSet \cup Connections : Provision(r) /\ Exists(r) => r \in local.id
      /\ "workspace" \in local.id => Exists("workspace")
  BY PathSteps DEF CleanInv, Shrinks, Tracked, DeletePC, ContractInv, LifeInv, TrackInv
<1>2. local \in ObjectType /\ NoTransitGateway \in ObjectType /\ ~NoLoop.err
      /\ [local EXCEPT !.id = @ \ {"vpc"}] \in ObjectType
  BY DEF TypeOK, ControllerTypeOK, NoTransitGateway, ObjectType, NoLoop
<1>3. \A next : \A o \in ObjectType : DeleteDone(next, o) => ~res'.err /\ ~loop'.err
  BY <1>1, <1>2, DeleteEffects
<1>4. DeleteRequeues => pc' = "patch"
  BY DeleteEffects
<1>5. \A requeue \in BOOLEAN : NextDelete(requeue, FALSE) => ~res'.err /\ ~loop'.err
  BY <1>1, NextDeleteEffects
<1>6. \A next : DeleteLoopEnds(next) => ~(pc' \in DeletePC) \/ (~res'.err /\ ~loop'.err)
  BY <1>1, <1>2, <1>3, <1>4 DEF DeleteLoopEnds, DeletePC
<1>. USE <1>1, <1>2, <1>3, <1>4, <1>5, <1>6
<1>7. CASE DeleteImages \/ DeleteEnds
  BY <1>7 DEF DeleteImages, DeleteEnds, DeletePC
<1>8. CASE DeleteTransitGateway
  <2>1. ASSUME Provision("tg"), ConnectionToDelete = "none"
        PROVE  ~CallFails("tg")
    <3>1. Provision("vpcConn") /\ Provision("pvsConn")
      BY <2>1, NestingAssumption DEF Provision
    <3>2. ~Exists("vpcConn") /\ ~Exists("pvsConn")
      BY <2>1, <3>1 DEF ConnectionToDelete, OwnedConnection, Connections
    <3>3. Blockers("tg") \subseteq Connections
      BY DistinctAssumption DEF Blockers, Connections, Singletons
    <3>. QED BY <3>2, <3>3 DEF CallFails, InUse, Connections
  <2>. QED BY <1>8, <2>1 DEF DeleteTransitGateway, DeleteTransitGatewayConnection, DeletePC
<1>9. CASE DeleteLoadBalancer
  <2>1. \A l \in LoadBalancerSet : ~CallFails(l)
    BY DistinctAssumption DEF CallFails, InUse, Blockers, Singletons
  <2>. QED BY <1>9, <2>1 DEF DeleteLoadBalancer, DeleteOneLoadBalancer, LoadBalancerSet, Elems
<1>10. CASE DeleteVPCSecurityGroups
  BY <1>10 DEF DeleteVPCSecurityGroups, DeleteOneSecurityGroup
<1>11. CASE DeleteVPCSubnets
  <2>1. Absent(LoadBalancerSet)
    BY <1>11 DEF ContractInv, PassedInv, DeleteVPCSubnets, DeletePC
  <2>2. ASSUME NEW s \in SubnetSet, Provision(s)
        PROVE  ~CallFails(s)
    BY <2>1, <2>2, DistinctAssumption
       DEF NothingForeignAttached, Provision, CallFails, InUse, Blockers, Absent
  <2>. QED BY <1>11, <2>2 DEF DeleteVPCSubnets, DeleteOneSubnet, SubnetSet, Elems
<1>12. CASE DeleteVPC
  <2>1. Absent(SubnetSet \cap recorded)
    BY <1>12 DEF ContractInv, PassedInv, DeleteVPC, DeletePC
  <2>2. Provision("vpc") => ~CallFails("vpc")
    <3>. SUFFICES ASSUME Provision("vpc") PROVE ~InUse("vpc")
      BY DEF CallFails
    <3>1. \A s \in SubnetSet : Provision(s) /\ ~Exists(s)
      BY <2>1, NestingAssumption DEF Provision, Absent
    <3>. QED BY <3>1, DistinctAssumption DEF InUse, Blockers, Singletons
  <2>. QED BY <1>12, <2>2 DEF DeleteVPC, DeletePC
<1>13. CASE DeleteDHCPServer
  <2>1. ~CallFails("network")
    BY DistinctAssumption DEF CallFails, InUse, Blockers, Singletons
  <2>. QED BY <1>13, <2>1 DEF DeleteDHCPServer
<1>14. CASE DeleteWorkspace \/ DeleteCOSInstance
  BY <1>14 DEF DeleteWorkspace, DeleteCOSInstance, DeletePC
<1>. QED
  BY <1>7, <1>8, <1>9, <1>10, <1>11, <1>12, <1>13, <1>14 DEF DeleteStep

LEMMA CleanStep ==
    ASSUME NothingForeignAttached, TypeOK, NoForeignDelete, CleanInv, [Next]_vars
    PROVE  CleanInv'
<1>. USE ResourceNames
<1>1. pc' = "idle" => ~res'.err /\ ~loop'.err
  <2>1. ForgetAll => ~res'.err /\ ~loop'.err
    BY DEF ForgetAll, NoResult, NoLoop
  <2>2. CASE Environment \/ EnsureFinalizer \/ ReconcileNotFound \/ UNCHANGED vars
    BY <2>2 DEF Environment, CloudReady, CloudFail, CloudVanish, CloudDeleted, ImageDeleted,
       RequestDelete, OpenGate, Pause, EnsureFinalizer, ReconcileNotFound, vars, ctlVars, CleanInv
  <2>3. CASE ReconcileStep
    BY <2>3, CreatePathGrows DEF Grows, CreatePC
  <2>4. CASE DeleteStep
    <3>1. pc' # "idle"
      BY <2>4 DEF DeleteStep, DeleteImages, DeleteTransitGateway, DeleteTransitGatewayConnection,
         DeleteLoadBalancer, DeleteOneLoadBalancer, DeleteVPCSecurityGroups, DeleteOneSecurityGroup,
         DeleteVPCSubnets, DeleteOneSubnet, DeleteVPC, DeleteDHCPServer, DeleteWorkspace,
         AfterWorkspace, DeleteCOSInstance, DeleteEnds, DeleteLoopEnds, NextDelete,
         DeleteDone, DeleteFails, DeleteRequeues
    <3>. QED BY <3>1
  <2>5. CASE StartReconcile \/ Patch \/ Crash
    BY <2>1, <2>5 DEF StartReconcile, Patch, Crash
  <2>. QED BY <2>2, <2>3, <2>4, <2>5 DEF Next, Controller
<1>. SUFFICES ASSUME faults' = 0
              PROVE  /\ ContractInv'
                     /\ pc' \in DeletePC => ~res'.err /\ ~loop'.err
                     /\ \A r \in SubnetSet \cup Connections : Provision(r) /\ Exists(r)' => r \in Tracked'
                     /\ "workspace" \in stored'.id \/ (pc' # "idle" /\ "workspace" \in local'.id) =>
                           Exists("workspace")'
  BY <1>1 DEF CleanInv
<1>2. faults = 0 /\ (\A kind : ~Fault(kind)) /\ \A r \in Res : ~CloudVanish(r)
  BY NoFailure, NoVanishing
<1>3. ContractInv /\ ContractInv'
  BY <1>2, ContractStep DEF CleanInv
<1>4. CASE Environment \/ ReconcileNotFound \/ UNCHANGED vars
  <2>1. Ages
    BY <1>2, <1>4, EnvironmentAges DEF ReconcileNotFound, vars, Ages, Wanes, cloudVars, apiVars
  <2>2. cloud["workspace"] # "absent" => cloud'["workspace"] # "absent"
    <3>1. ASSUME NEW r \in Res, CloudReady(r) \/ CloudFail(r) \/ CloudDeleted(r)
          PROVE  cloud["workspace"] # "absent" => cloud'["workspace"] # "absent"
      <4>1. "workspace" \notin Cascade(r)
        BY DistinctAssumption DEF Cascade, Singletons
      <4>. QED BY <3>1, <4>1 DEF CloudReady, CloudFail, CloudDeleted, TypeOK, CloudTypeOK
    <3>. QED BY <1>2, <1>4, <3>1 DEF Environment, ImageDeleted, RequestDelete, OpenGate, Pause,
                cloudVars, ReconcileNotFound, vars
  <2>. QED BY <1>2, <1>3, <2>1, <2>2 DEF Ages, Wanes, ctlVars, CleanInv, Tracked, Exists, Connections
<1>5. CASE ReconcileStep
  <2>1. Grows
    BY <1>5, CreatePathGrows
  <2>2. pc # "idle" /\ pc' # "idle" /\ pc' \notin DeletePC /\ local.id \subseteq local'.id /\ stored' = stored
    BY <2>1 DEF Grows, GrowsTo, CreatePC, DeletePC
  <2>. QED BY <1>2, <1>3, <1>5, <2>2, CreatedIsTracked DEF CleanInv, Tracked, Exists
<1>6. CASE DeleteStep
  <2>1. Shrinks
    BY <1>3, <1>6, PathSteps
  <2>2. pc' \in DeletePC => ~res'.err /\ ~loop'.err
    BY <1>2, <1>3, <1>6, NotRefused
  <2>3. pc # "idle" /\ pc' # "idle"
    BY <2>1 DEF Shrinks, DeletePC
  <2>4. \A r \in SubnetSet \cup Connections : Provision(r) /\ Exists(r)' => r \in Tracked'
    BY <1>2, <2>1, <2>3 DEF Shrinks, ShrinksTo, Wanes, CleanInv, Tracked, Exists, Connections
  <2>5. Exists("workspace") => Exists("workspace")'
    BY <1>6, DistinctAssumption
       DEF DeleteStep, DeleteImages, DeleteTransitGateway, DeleteTransitGatewayConnection,
         DeleteLoadBalancer, DeleteOneLoadBalancer, DeleteVPCSecurityGroups, DeleteOneSecurityGroup,
         DeleteVPCSubnets, DeleteOneSubnet, DeleteVPC, DeleteDHCPServer, DeleteWorkspace,
         DeleteCOSInstance, DeleteEnds, DeleteLoopEnds, StartDelete, CallFails, Exists, cloudVars,
         Singletons, SecurityGroupSet, Elems, TypeOK, CloudTypeOK
  <2>. QED BY <1>2, <1>3, <2>1, <2>2, <2>3, <2>4, <2>5 DEF Shrinks, ShrinksTo, CleanInv
<1>7. CASE EnsureFinalizer \/ StartReconcile
  <2>1. /\ stored'.id = stored.id /\ pc = "idle" /\ UNCHANGED <<cloud, res, loop>>
        /\ pc' = "idle" \/ local' = stored
    BY <1>7 DEF EnsureFinalizer, StartReconcile, TypeOK, ApiTypeOK, ObjectType, ctlVars, apiVars, cloudVars
  <2>. QED BY <1>2, <1>3, <2>1 DEF CleanInv, Tracked, Exists
<1>8. CASE Patch
  <2>1. pc # "idle" /\ pc' = "idle" /\ cloud' = cloud
    BY <1>8, PatchEffects DEF cloudVars
  <2>2. stored'.id = local.id
    <3>1. PICK parts \in SUBSET PatchParts :
             /\ IF parts = PatchParts THEN NoFault ELSE Fault("patch")
             /\ stored' = Patched(parts)
      BY <1>8 DEF Patch
    <3>2. parts = PatchParts
      BY <1>2, <3>1
    <3>3. Summarized(local).id = local.id
      BY DEF Summarized, TypeOK, ControllerTypeOK, ObjectType
    <3>. QED BY <3>1, <3>2, <3>3 DEF Patched, PatchParts
  <2>. QED BY <1>2, <1>3, <2>1, <2>2 DEF CleanInv, Tracked, Exists, DeletePC
<1>9. ~Crash
  BY <1>2 DEF Crash
<1>. QED BY <1>4, <1>5, <1>6, <1>7, <1>8, <1>9 DEF Next, Controller

\* Until something fails, no delete call is refused because the resource is in
\* use: the delete path waits for connections, load balancers and subnets.
THEOREM DeletionIsNotRefused ==
    ASSUME NothingForeignAttached
    PROVE  Spec => []NoRefusedDelete
<1>1. Init => CleanInv
  <2>. SUFFICES ASSUME Init PROVE CleanInv
    OBVIOUS
  <2>1. NestedPreexisting
    BY DEF NothingForeignAttached, NestedPreexisting
  <2>2. \A r \in SubnetSet \cup Connections : Provision(r) => ~Exists(r)
    BY ResourceNames DEF Init, Connections, NothingForeignAttached, Provision, Exists
  <2>. QED BY <2>1, <2>2, ContractInit DEF Init, CleanInv, NoResult, NoLoop, NewObject, DeletePC
<1>2. CleanInv => NoRefusedDelete
  BY DEF CleanInv, NoRefusedDelete, DeletePC, DeletingCondition
<1>. QED BY <1>1, <1>2, CleanStep, TypeCorrect, ReferencesAreSafe, PTL DEF Spec

----------------------------------------------------------------------------
(* Initialization.Provisioned is reported over infrastructure that works.  *)

VPCUp == cloud["vpc"] \in {"active", "failed"}
AllExist(S) == \A r \in S : Exists(r)
VPCSideUp == VPCUp /\ AllExist(SubnetSet) /\ AllExist(SecurityGroupSet) /\ AllExist(LoadBalancerSet)

\* This reconcile ends where its two goroutines join.
EndsAtJoin == res.err \/ res.requeue

\* What the goroutine for the workspace has behind it.
PowerVSStage ==
    pc = "components" /\ (pvs = "network" \/ (pvs = "done" /\ ~EndsAtJoin)) =>
        cloud["workspace"] = "active"

\* What the goroutine for the VPC has behind it.  A VPC found by its name may be
\* pending, but then none of its subnets is recorded, and the first one that is
\* makes this reconcile end.
VPCStage ==
    pc = "components" =>
    /\ vpc = "subnet" =>
         /\ "vpc" \in local.id
         /\ \/ VPCUp
            \/ loop.flag
            \/ Provision("vpc") /\ loop.i = 1 /\ local.id \cap SubnetSet = {}
         /\ \A j \in DOMAIN Subnets : j < loop.i => Exists(Subnets[j])
    /\ vpc \in {"sg", "lb"} => VPCUp /\ AllExist(SubnetSet)
    /\ vpc = "sg" => \A j \in DOMAIN SecurityGroups : j < loop.i => Exists(SecurityGroups[j])
    /\ vpc = "lb" => /\ AllExist(SecurityGroupSet)
                     /\ \A j \in DOMAIN LoadBalancers : j < loop.i => Exists(LoadBalancers[j])
    /\ vpc = "done" /\ ~EndsAtJoin => VPCSideUp

\* What reconcile has behind it after they joined.
JoinedStage ==
    /\ pc \in {"tg", "vpcConn", "pvsConn", "cos", "hmac", "finish"} =>
         cloud["workspace"] = "active" /\ VPCSideUp
    /\ pc \in {"vpcConn", "pvsConn", "cos", "hmac", "finish"} =>
         "tg" \in local.id /\ cloud["tg"] = "active"
    /\ pc \in {"cos", "hmac", "finish"} \/ (pc = "pvsConn" /\ ~loop.flag) => cloud["vpcConn"] = "active"
    /\ pc \in {"cos", "hmac", "finish"} => cloud["pvsConn"] = "active"
    /\ pc = "hmac" \/ (pc = "finish" /\ HasCOS) => cloud["cos"] = "active"
    /\ pc = "finish" /\ HasCOS => secret

\* A subnet is recorded with its VPC.
SubnetInv ==
    /\ stored.id \cap SubnetSet # {} => "vpc" \in stored.id
    /\ pc # "idle" /\ local.id \cap SubnetSet # {} => "vpc" \in local.id

\* NetworkReady, wherever it is kept, speaks of a network that is active.
NetworkInv ==
    \/ stored.cond["NetworkReady"] = "true"
    \/ res.cond["NetworkReady"] = "true"
    \/ pc # "idle" /\ local.cond["NetworkReady"] = "true"
    => cloud["network"] = "active"

\* The infrastructure works.
Up ==
    /\ \A r \in {"workspace", "network", "tg", "vpcConn", "pvsConn"} : cloud[r] = "active"
    /\ HasCOS => cloud["cos"] = "active" /\ secret
    /\ VPCSideUp

\* A provisioned cluster works, and the ID of its gateway is known.  Without the
\* ID the next reconcile might make a second gateway, which is pending.
ProvisionedInv ==
    Topology = "LoadBalancer" =>
    /\ stored.provisioned => Up /\ "tg" \in stored.id
    /\ pc # "idle" /\ local.provisioned => Up /\ "tg" \in local.id

Standing == \A r \in Res : cloud[r] \notin {"deleting", "removed"}

StageInv == PowerVSStage /\ VPCStage /\ JoinedStage
ReadyInv == Standing /\ StageInv /\ SubnetInv /\ NetworkInv /\ ProvisionedInv
LiveInv == phase = "live" => ReadyInv

\* What exists or works goes on to, but for a gateway whose ID is not known.
Firm ==
    /\ \A r \in Res : cloud[r] # "absent" => cloud'[r] # "absent"
    /\ \A r \in Res \ {"tg"} : cloud[r] \in {"active", "failed"} => cloud'[r] = cloud[r]
    /\ "tg" \in local.id /\ cloud["tg"] = "active" => cloud'["tg"] = "active"
    /\ secret => secret'
    /\ \A r \in Res : cloud'[r] \notin {"deleting", "removed"}

LEMMA FirmEnvironment ==
    ASSUME \A r \in Res : ~CloudVanish(r), TypeOK, Standing,
           Environment \/ UNCHANGED cloudVars
    PROVE  Firm /\ (cloud["tg"] = "active" => cloud'["tg"] = "active")
<1>. USE ResourceNames DEF TypeOK, CloudTypeOK, Standing
<1>1. ASSUME NEW r \in Res, CloudReady(r) \/ CloudFail(r) \/ CloudDeleted(r) \/ CloudVanish(r)
      PROVE  Firm /\ (cloud["tg"] = "active" => cloud'["tg"] = "active")
  BY <1>1 DEF CloudReady, CloudFail, CloudDeleted, Firm
<1>2. CASE UNCHANGED cloudVars
  BY <1>2 DEF cloudVars, Firm
<1>. QED BY <1>1, <1>2 DEF Environment, ImageDeleted, RequestDelete, OpenGate, Pause

\* A create call is made for what does not exist, or for a gateway that is not known.
LEMMA FirmCalls ==
    ASSUME TypeOK, Standing
    PROVE  /\ UNCHANGED cloudVars => Firm
           /\ UNCHANGED cloud /\ (secret => secret') => Firm
           /\ \A r \in Res : \A state \in {"pending", "active"} :
                 /\ CreateAs(r, state) /\ UNCHANGED secret
                 /\ ~Exists(r) \/ (r = "tg" /\ "tg" \notin local.id)
                 => Firm
<1>. USE DEF TypeOK, CloudTypeOK, Standing
<1>1. UNCHANGED cloudVars => Firm
  BY DEF Firm, cloudVars
<1>2. UNCHANGED cloud /\ (secret => secret') => Firm
  BY DEF Firm
<1>3. ASSUME NEW r \in Res, NEW state \in {"pending", "active"}, CreateAs(r, state), UNCHANGED secret,
             ~Exists(r) \/ (r = "tg" /\ "tg" \notin local.id)
      PROVE  Firm
  BY <1>3 DEF CreateAs, Exists, Firm
<1>. QED BY <1>1, <1>2, <1>3

LEMMA FirmCreating ==
    ASSUME TypeOK, Standing, ReconcileStep
    PROVE  Firm
<1>. USE FirmCalls, ResourceNames
<1>1. CASE Prepare \/ Join \/ Finish
  BY <1>1 DEF Prepare, Join, Finish
<1>2. CASE ReconcileWorkspace \/ ReconcileNetwork
  BY <1>2 DEF ReconcileWorkspace, VerifyWorkspace, ResolveWorkspace, CreateWorkspace,
     WorkspaceError, ReconcileNetwork, VerifyNetwork, ResolveNetwork, CreateNetwork, NetworkError
<1>3. CASE ReconcileVPC \/ ReconcileVPCSubnets
  BY <1>3 DEF ReconcileVPC, VerifyVPC, ResolveVPC, CreateVPC, VPCError,
     ReconcileVPCSubnets, VerifySubnet, ResolveSubnet, CreateSubnet, SubnetError
<1>4. CASE ReconcileVPCSecurityGroups \/ ReconcileLoadBalancers
  BY <1>4 DEF ReconcileVPCSecurityGroups, ResolveSecurityGroup, CreateSecurityGroup,
     SecurityGroupError, ReconcileLoadBalancers, VerifyLoadBalancer, RecoverLoadBalancer,
     CreateLoadBalancer, LoadBalancerError, LoadBalancersReconciled
<1>5. CASE ReconcileTransitGateway \/ ReconcileConnection
  BY <1>5 DEF ReconcileTransitGateway, CheckTransitGateway, RecoverTransitGateway,
     CreateTransitGateway, TransitGatewayError, ReconcileConnection, CheckConnection,
     CreateConnection, ConnectionError
<1>6. CASE ReconcileCOSInstance \/ ReconcileCOSHMACKey
  BY <1>6 DEF ReconcileCOSInstance, ResolveCOSInstance, CreateCOSInstance, COSError,
     ReconcileCOSHMACKey, KeepHMACKey, IssueHMACKey, HMACKeyLost
<1>. QED BY <1>1, <1>2, <1>3, <1>4, <1>5, <1>6 DEF ReconcileStep

\* What works still works after such a step.
LEMMA FirmKeeps ==
    ASSUME TypeOK, Firm
    PROVE  /\ Standing'
           /\ VPCUp => VPCUp'
           /\ AllExist(SubnetSet) => \A r \in SubnetSet : cloud'[r] # "absent"
           /\ AllExist(SecurityGroupSet) => \A r \in SecurityGroupSet : cloud'[r] # "absent"
           /\ AllExist(LoadBalancerSet) => \A r \in LoadBalancerSet : cloud'[r] # "absent"
           /\ VPCSideUp => VPCSideUp'
           /\ \A r \in {"workspace", "network", "vpcConn", "pvsConn", "cos"} :
                 cloud[r] = "active" => cloud'[r] = "active"
           /\ Up /\ "tg" \in local.id => Up'
<1>1. /\ Standing'
      /\ VPCUp => VPCUp'
      /\ AllExist(SubnetSet) => \A r \in SubnetSet : cloud'[r] # "absent"
      /\ AllExist(SecurityGroupSet) => \A r \in SecurityGroupSet : cloud'[r] # "absent"
      /\ AllExist(LoadBalancerSet) => \A r \in LoadBalancerSet : cloud'[r] # "absent"
      /\ \A r \in {"workspace", "network", "vpcConn", "pvsConn", "cos"} :
            cloud[r] = "active" => cloud'[r] = "active"
  BY ResourceNames DEF Firm, Standing, VPCUp, AllExist, Exists
<1>2. VPCSideUp => VPCSideUp'
  BY <1>1 DEF VPCSideUp, AllExist, Exists
<1>3. Up /\ "tg" \in local.id => Up'
  BY <1>1, <1>2 DEF Up, Firm
<1>. QED BY <1>1, <1>2, <1>3

\* A wanted cluster's copy is ahead of the object; the rest of what ReadyInv needs.
Wanted ==
    /\ phase = "live"
    /\ pc # "idle" => /\ pc \in CreatePC /\ stored.id \subseteq local.id
                      /\ stored.provisioned => local.provisioned

LEMMA ContractWanted ==
    ASSUME ContractInv, phase = "live"
    PROVE  Wanted
BY DEF ContractInv, LifeInv, FinalizerInv, TrackInv, GrowInv, Wanted

\* Steps of a reconcile that report no more than what works.
LEMMA ReportKeeps ==
    ASSUME TypeOK, Wanted, ReadyInv, Firm, UNCHANGED stored, pc # "idle",
           local.id \subseteq local'.id,
           local'.provisioned => local.provisioned \/ Topology # "LoadBalancer" \/ (Up' /\ "tg" \in local'.id),
           res'.cond["NetworkReady"] = "true" =>
              res.cond["NetworkReady"] = "true" \/ cloud'["network"] = "active",
           local'.cond["NetworkReady"] = "true" =>
              \/ local.cond["NetworkReady"] = "true" \/ res.cond["NetworkReady"] = "true"
              \/ cloud'["network"] = "active",
           local'.id \cap SubnetSet # {} => local.id \cap SubnetSet # {} \/ "vpc" \in local'.id
    PROVE  Standing' /\ SubnetInv' /\ NetworkInv' /\ ProvisionedInv'
<1>1. Standing'
  BY FirmKeeps
<1>2. SubnetInv'
  BY DEF ReadyInv, SubnetInv
<1>3. NetworkInv'
  BY FirmKeeps DEF ReadyInv, NetworkInv
<1>4. ProvisionedInv'
  BY FirmKeeps DEF ReadyInv, ProvisionedInv, Wanted
<1>. QED BY <1>1, <1>2, <1>3, <1>4

\* A step that leaves the controller alone keeps what it has behind it.
LEMMA StageKeeps ==
    ASSUME TypeOK, StageInv, Firm, UNCHANGED ctlVars
    PROVE  StageInv'
<1>. USE FirmKeeps, ResourceNames DEF ctlVars
<1>1. PowerVSStage'
  BY DEF StageInv, PowerVSStage, EndsAtJoin
<1>2. VPCStage'
  <2>1. \A r \in Res : Exists(r) => cloud'[r] # "absent"
    BY DEF Firm, Exists
  <2>. QED BY <2>1 DEF StageInv, VPCStage, EndsAtJoin, Exists, AllExist
<1>3. JoinedStage'
  BY DEF StageInv, JoinedStage, Firm
<1>. QED BY <1>1, <1>2, <1>3 DEF StageInv

\* What everybody else does to a wanted cluster.
LEMMA EnvironmentReady ==
    ASSUME \A r \in Res : ~CloudVanish(r), TypeOK, ContractInv, LiveInv, phase' = "live",
           Environment \/ ReconcileNotFound \/ UNCHANGED vars
    PROVE  ReadyInv'
<1>1. UNCHANGED <<stored, ctlVars>> /\ phase = "live" /\ ReadyInv /\ Wanted
  <2>1. UNCHANGED <<stored, ctlVars>> /\ phase = "live"
    BY DEF Environment, CloudReady, CloudFail, CloudVanish, CloudDeleted, ImageDeleted,
       RequestDelete, OpenGate, Pause, apiVars, ReconcileNotFound, vars
  <2>. QED BY <2>1, ContractWanted DEF LiveInv
<1>2. Firm /\ (cloud["tg"] = "active" => cloud'["tg"] = "active")
  BY <1>1, FirmEnvironment DEF ReadyInv, ReconcileNotFound, vars
<1>3. StageInv'
  BY <1>1, <1>2, StageKeeps DEF ReadyInv
<1>4. SubnetInv' /\ NetworkInv'
  BY <1>1, <1>2, FirmKeeps DEF ReadyInv, SubnetInv, NetworkInv, ctlVars
<1>5. ProvisionedInv'
  <2>1. Up => Up'
    BY <1>2, FirmKeeps, ResourceNames DEF Up, Firm
  <2>. QED BY <1>1, <2>1 DEF ReadyInv, ProvisionedInv, ctlVars
<1>. QED BY <1>2, <1>3, <1>4, <1>5, FirmKeeps DEF ReadyInv

\* The start and the end of a reconcile.
LEMMA EndsReady ==
    ASSUME TypeOK, ContractInv, LiveInv, phase' = "live",
           EnsureFinalizer \/ StartReconcile \/ Patch \/ Crash
    PROVE  ReadyInv'
<1>1. CASE EnsureFinalizer
  <2>1. /\ stored'.id = stored.id /\ stored'.provisioned = stored.provisioned
        /\ stored'.cond = stored.cond
        /\ pc = "idle" /\ phase = "live" /\ UNCHANGED <<cloudVars, ctlVars>>
    BY <1>1 DEF EnsureFinalizer, TypeOK, ApiTypeOK, ObjectType
  <2>. QED BY <2>1 DEF LiveInv, ReadyInv, Standing, StageInv, PowerVSStage, VPCStage, JoinedStage,
           SubnetInv, NetworkInv, ProvisionedInv, Up, VPCSideUp, VPCUp, AllExist, Exists, cloudVars, ctlVars
<1>2. CASE StartReconcile
  <2>1. /\ local' = stored /\ pc' = "prepare" /\ phase = "live"
        /\ pc = "idle" /\ UNCHANGED <<cloudVars, stored, res>>
    BY <1>2 DEF StartReconcile, apiVars
  <2>. QED BY <2>1 DEF LiveInv, ReadyInv, Standing, StageInv, PowerVSStage, VPCStage, JoinedStage,
           SubnetInv, NetworkInv, ProvisionedInv, Up, VPCSideUp, VPCUp, AllExist, Exists, cloudVars
<1>3. CASE Patch \/ Crash
  <2>1. /\ pc' = "idle" /\ res' = NoResult /\ UNCHANGED cloudVars /\ pc # "idle" /\ phase = "live"
    BY <1>3, PatchEffects DEF Crash, ForgetAll, apiVars
  <2>2. /\ \/ stored'.id = stored.id /\ stored'.provisioned = stored.provisioned
           \/ stored'.id = local.id /\ stored'.provisioned = local.provisioned
        /\ stored'.cond["NetworkReady"] \in {stored.cond["NetworkReady"], local.cond["NetworkReady"]}
    <3>1. CASE Crash
      BY <3>1 DEF Crash, apiVars
    <3>2. CASE Patch
      <4>1. PICK parts \in SUBSET PatchParts : stored' = Patched(parts)
        BY <3>2 DEF Patch
      <4>2. Summarized(local).id = local.id /\ Summarized(local).provisioned = local.provisioned
        BY DEF Summarized, TypeOK, ControllerTypeOK, ObjectType
      <4>3. Summarized(local).cond["NetworkReady"] = local.cond["NetworkReady"]
        BY DEF Summarized, TypeOK, ControllerTypeOK, ObjectType, Conditions, ConditionTypes
      <4>. QED BY <4>1, <4>2, <4>3 DEF Patched
    <3>. QED BY <1>3, <3>1, <3>2
  <2>3. ReadyInv
    BY <2>1 DEF LiveInv
  <2>4. Standing' /\ StageInv' /\ SubnetInv'
    BY <2>1, <2>2, <2>3 DEF ReadyInv, Standing, StageInv, PowerVSStage, VPCStage, JoinedStage, SubnetInv, cloudVars
  <2>5. NetworkInv'
    <3>1. NoResult.cond["NetworkReady"] # "true"
      BY ConditionNames DEF NoResult
    <3>. QED BY <2>1, <2>2, <2>3, <3>1 DEF ReadyInv, NetworkInv, cloudVars
  <2>6. ProvisionedInv'
    <3>1. Up => Up'
      BY <2>1 DEF Up, VPCSideUp, VPCUp, AllExist, Exists, cloudVars
    <3>. QED BY <2>1, <2>2, <2>3, <3>1 DEF ReadyInv, ProvisionedInv
  <2>. QED BY <2>4, <2>5, <2>6 DEF ReadyInv
<1>. QED BY <1>1, <1>2, <1>3

----------------------------------------------------------------------------
(* The same for the create path, method by method.                         *)

\* What an outcome of a goroutine does to its result.
LEMMA OutcomeEffects ==
    ASSUME res \in ResultType, loop \in LoopType
    PROVE  /\ \A c \in ConditionTypes : PowerVSFails(c) =>
                 EndsAtJoin' /\ (res'.cond["NetworkReady"] = "true" => res.cond["NetworkReady"] = "true")
           /\ PowerVSRequeues => EndsAtJoin' /\ res'.cond = res.cond
           /\ \A c \in ConditionTypes : VPCFails(c) =>
                 EndsAtJoin' /\ (res'.cond["NetworkReady"] = "true" => res.cond["NetworkReady"] = "true")
           /\ VPCRequeues => EndsAtJoin' /\ res'.cond = res.cond
           /\ \A c \in ConditionTypes \ {"NetworkReady"} :
                 res' = [res EXCEPT !.cond[c] = "true"] =>
                    /\ res'.cond["NetworkReady"] = res.cond["NetworkReady"]
                    /\ EndsAtJoin' <=> EndsAtJoin
           /\ res' = [res EXCEPT !.cond["NetworkReady"] = "true"] => (EndsAtJoin' <=> EndsAtJoin)
<1>. USE ConditionNames DEF EndsAtJoin, ResultType
<1>1. \A c \in ConditionTypes : PowerVSFails(c) =>
         EndsAtJoin' /\ (res'.cond["NetworkReady"] = "true" => res.cond["NetworkReady"] = "true")
  BY DEF PowerVSFails
<1>2. PowerVSRequeues => EndsAtJoin' /\ res'.cond = res.cond
  BY DEF PowerVSRequeues
<1>3. \A c \in ConditionTypes : VPCFails(c) =>
         EndsAtJoin' /\ (res'.cond["NetworkReady"] = "true" => res.cond["NetworkReady"] = "true")
  BY DEF VPCFails
<1>4. VPCRequeues => EndsAtJoin' /\ res'.cond = res.cond
  BY DEF VPCRequeues
<1>5. \A c \in ConditionTypes \ {"NetworkReady"} :
         res' = [res EXCEPT !.cond[c] = "true"] =>
            /\ res'.cond["NetworkReady"] = res.cond["NetworkReady"]
            /\ EndsAtJoin' <=> EndsAtJoin
  OBVIOUS
<1>6. res' = [res EXCEPT !.cond["NetworkReady"] = "true"] => (EndsAtJoin' <=> EndsAtJoin)
  OBVIOUS
<1>. QED BY <1>1, <1>2, <1>3, <1>4, <1>5, <1>6

\* What recording an ID leaves alone.
LEMMA RecordKeeps ==
    ASSUME local \in ObjectType
    PROVE  /\ \A r : Record(r) =>
                 /\ local'.id = local.id \cup {r}
                 /\ local'.cond = local.cond /\ local'.provisioned = local.provisioned
           /\ \A l, hostname : SetLoadBalancerStatus(l, hostname) =>
                 /\ local'.id = local.id \cup {l}
                 /\ local'.cond = local.cond /\ local'.provisioned = local.provisioned
BY DEF Record, SetLoadBalancerStatus, ObjectType

\* The names of which SubnetInv and the stages speak.
LEMMA SubnetNames ==
    /\ \A r \in Singletons \cup SecurityGroupSet \cup LoadBalancerSet : r \notin SubnetSet
    /\ \A r \in {"resourceGroup", "workspace", "network", "vpc", "tg", "vpcConn", "pvsConn", "cos"} :
          r \in Singletons
BY DistinctAssumption DEF Singletons

LEMMA PrepareReady ==
    ASSUME TypeOK, Wanted, ReadyInv, Firm, Prepare
    PROVE  ReadyInv'
<1>1. local \in ObjectType /\ pc = "prepare" /\ UNCHANGED <<stored, res>>
  BY DEF Prepare, TypeOK, ControllerTypeOK, apiVars
<1>2. /\ local'.cond = local.cond /\ local.id \subseteq local'.id /\ local'.id \subseteq local.id \cup {"resourceGroup"}
      /\ local'.provisioned => local.provisioned \/ Topology # "LoadBalancer"
  BY <1>1, RecordKeeps DEF Prepare, ObjectType
<1>3. pc' = "patch" \/ (pc' = "components" /\ pvs' = "workspace" /\ vpc' = "vpc")
  BY DEF Prepare
<1>4. StageInv'
  BY <1>3 DEF StageInv, PowerVSStage, VPCStage, JoinedStage
<1>. QED BY <1>1, <1>2, <1>4, ReportKeeps, SubnetNames DEF ReadyInv

\* What one goroutine has behind it is not disturbed by the other.
LEMMA GoroutinesKeep ==
    ASSUME TypeOK, StageInv, Firm, pc = "components", pc' = pc, EndsAtJoin => EndsAtJoin'
    PROVE  /\ JoinedStage'
           /\ UNCHANGED pvs => PowerVSStage'
           /\ UNCHANGED <<vpc, loop>> /\ local.id \subseteq local'.id /\ local'.id \cap SubnetSet \subseteq local.id
              => VPCStage'
<1>1. JoinedStage'
  BY DEF JoinedStage
<1>2. UNCHANGED pvs => PowerVSStage'
  BY FirmKeeps DEF StageInv, PowerVSStage
<1>3. ASSUME UNCHANGED <<vpc, loop>>, local.id \subseteq local'.id, local'.id \cap SubnetSet \subseteq local.id
      PROVE  VPCStage'
  <2>1. \A r \in Res : Exists(r) => cloud'[r] # "absent"
    BY DEF Firm, Exists
  <2>. QED BY <1>3, <2>1, FirmKeeps, ResourceNames DEF StageInv, VPCStage, Exists, AllExist
<1>. QED BY <1>1, <1>2, <1>3

LEMMA ReconcileWorkspaceReady ==
    ASSUME TypeOK, Wanted, ReadyInv, Firm, ReconcileWorkspace
    PROVE  ReadyInv'
<1>1. /\ local \in ObjectType /\ res \in ResultType /\ loop \in LoopType
      /\ pc = "components" /\ UNCHANGED <<stored, pc, vpc, loop>>
  BY DEF ReconcileWorkspace, TypeOK, ControllerTypeOK, apiVars
<1>2. /\ local'.cond = local.cond /\ local'.provisioned = local.provisioned
      /\ local.id \subseteq local'.id /\ local'.id \subseteq local.id \cup {"workspace"}
  BY <1>1, RecordKeeps
     DEF ReconcileWorkspace, VerifyWorkspace, ResolveWorkspace, CreateWorkspace, WorkspaceError
<1>3. /\ \/ pvs' = "network" /\ cloud'["workspace"] = "active"
         \/ pvs' = "done" /\ EndsAtJoin'
      /\ EndsAtJoin => EndsAtJoin'
      /\ res'.cond["NetworkReady"] = "true" => res.cond["NetworkReady"] = "true"
  <2>1. \/ /\ pvs' = "network" /\ cloud'["workspace"] = "active"
           /\ res' = [res EXCEPT !.cond["WorkspaceReady"] = "true"]
        \/ PowerVSFails("WorkspaceReady")
        \/ PowerVSRequeues
    BY DEF ReconcileWorkspace, VerifyWorkspace, ResolveWorkspace, CreateWorkspace, WorkspaceError, cloudVars
  <2>. QED BY <1>1, <2>1, OutcomeEffects, ConditionNames DEF PowerVSFails, PowerVSRequeues
<1>4. local'.id \cap SubnetSet \subseteq local.id
  BY <1>2, SubnetNames
<1>5. StageInv'
  BY <1>1, <1>2, <1>3, <1>4, GoroutinesKeep DEF ReadyInv, StageInv, PowerVSStage
<1>. QED BY <1>1, <1>2, <1>3, <1>4, <1>5, ReportKeeps DEF ReadyInv

LEMMA ReconcileNetworkReady ==
    ASSUME TypeOK, Wanted, ReadyInv, Firm, ReconcileNetwork
    PROVE  ReadyInv'
<1>1. /\ local \in ObjectType /\ res \in ResultType /\ loop \in LoopType
      /\ pc = "components" /\ pvs = "network" /\ UNCHANGED <<stored, pc, vpc, loop>>
  BY DEF ReconcileNetwork, TypeOK, ControllerTypeOK, apiVars
<1>2. /\ local'.cond = local.cond /\ local'.provisioned = local.provisioned
      /\ local.id \subseteq local'.id /\ local'.id \subseteq local.id \cup {"network"}
  BY <1>1, RecordKeeps
     DEF ReconcileNetwork, VerifyNetwork, ResolveNetwork, CreateNetwork, NetworkError
<1>3. /\ EndsAtJoin => EndsAtJoin'
      /\ res'.cond["NetworkReady"] = "true" =>
            res.cond["NetworkReady"] = "true" \/ cloud'["network"] = "active"
  <2>1. \/ cloud'["network"] = "active" /\ res' = [res EXCEPT !.cond["NetworkReady"] = "true"]
        \/ PowerVSFails("NetworkReady")
        \/ NetworkPending
    BY DEF ReconcileNetwork, VerifyNetwork, ResolveNetwork, CreateNetwork, NetworkError, cloudVars
  <2>. QED BY <1>1, <2>1, OutcomeEffects, ConditionNames DEF NetworkPending, EndsAtJoin
<1>4. local'.id \cap SubnetSet \subseteq local.id
  BY <1>2, SubnetNames
<1>5. cloud'["workspace"] = "active"
  BY <1>1, FirmKeeps DEF ReadyInv, StageInv, PowerVSStage
<1>6. StageInv'
  BY <1>1, <1>2, <1>3, <1>4, <1>5, GoroutinesKeep DEF ReadyInv, StageInv, PowerVSStage
<1>. QED BY <1>1, <1>2, <1>3, <1>4, <1>6, ReportKeeps DEF ReadyInv

\* Whatever the methods of the other goroutine do, they leave this much alone.
LEMMA VPCMethods ==
    ASSUME TypeOK,
           ReconcileVPC \/ ReconcileVPCSubnets \/ ReconcileVPCSecurityGroups \/ ReconcileLoadBalancers
    PROVE  /\ pc = "components" /\ UNCHANGED <<stored, pc, pvs>>
           /\ local'.cond = local.cond /\ local'.provisioned = local.provisioned
           /\ local.id \subseteq local'.id
<1>0. local \in ObjectType
  BY DEF TypeOK, ControllerTypeOK
<1>. USE <1>0, RecordKeeps DEF apiVars
<1>1. CASE ReconcileVPC
  BY <1>1 DEF ReconcileVPC, VerifyVPC, ResolveVPC, CreateVPC, VPCError
<1>2. CASE ReconcileVPCSubnets
  BY <1>2 DEF ReconcileVPCSubnets, VerifySubnet, ResolveSubnet, CreateSubnet, SubnetError
<1>3. CASE ReconcileVPCSecurityGroups
  BY <1>3 DEF ReconcileVPCSecurityGroups, ObjectType
<1>4. CASE ReconcileLoadBalancers
  BY <1>4 DEF ReconcileLoadBalancers, VerifyLoadBalancer, RecoverLoadBalancer, CreateLoadBalancer,
     LoadBalancerError, LoadBalancersReconciled
<1>. QED BY <1>1, <1>2, <1>3, <1>4

\* What is left to show of them.
LEMMA VPCMethodReady ==
    ASSUME TypeOK, Wanted, ReadyInv, Firm,
           ReconcileVPC \/ ReconcileVPCSubnets \/ ReconcileVPCSecurityGroups \/ ReconcileLoadBalancers,
           VPCStage', EndsAtJoin => EndsAtJoin',
           res'.cond["NetworkReady"] = "true" => res.cond["NetworkReady"] = "true",
           local'.id \cap SubnetSet \subseteq local.id \/ "vpc" \in local.id
    PROVE  ReadyInv'
<1>1. StageInv'
  BY VPCMethods, GoroutinesKeep DEF ReadyInv, StageInv
<1>2. local'.id \cap SubnetSet # {} => local.id \cap SubnetSet # {} \/ "vpc" \in local'.id
  BY VPCMethods
<1>. QED BY <1>1, <1>2, VPCMethods, ReportKeeps DEF ReadyInv

\* How they may end, and go on.
LEMMA VPCOutcomeEffects ==
    ASSUME TypeOK
    PROVE  /\ \A c \in ConditionTypes \ {"NetworkReady"} : VPCFails(c) =>
                 /\ vpc' = "done" /\ EndsAtJoin'
                 /\ res'.cond["NetworkReady"] = "true" => res.cond["NetworkReady"] = "true"
           /\ VPCRequeues =>
                 vpc' = "done" /\ EndsAtJoin' /\ res'.cond["NetworkReady"] = res.cond["NetworkReady"]
           /\ \A next : \A c \in ConditionTypes \ {"NetworkReady"} : VPCProceeds(c, next) =>
                 /\ vpc' = next /\ loop' = NoLoop /\ (EndsAtJoin' <=> EndsAtJoin)
                 /\ res'.cond["NetworkReady"] = res.cond["NetworkReady"]
           /\ \A flag \in BOOLEAN : NextIteration(flag) =>
                 /\ vpc' = vpc /\ loop'.i = loop.i + 1 /\ loop'.flag = (loop.flag \/ flag)
                 /\ (EndsAtJoin' <=> EndsAtJoin) /\ res'.cond["NetworkReady"] = res.cond["NetworkReady"]
<1>1. res \in ResultType /\ loop \in LoopType
  BY DEF TypeOK, ControllerTypeOK
<1>2. \A c \in ConditionTypes \ {"NetworkReady"} : VPCFails(c) =>
         /\ vpc' = "done" /\ EndsAtJoin'
         /\ res'.cond["NetworkReady"] = "true" => res.cond["NetworkReady"] = "true"
  <2>1. \A c : VPCFails(c) => vpc' = "done"
    BY DEF VPCFails
  <2>. QED BY <1>1, <2>1, OutcomeEffects
<1>3. VPCRequeues =>
         vpc' = "done" /\ EndsAtJoin' /\ res'.cond["NetworkReady"] = res.cond["NetworkReady"]
  <2>1. VPCRequeues => vpc' = "done"
    BY DEF VPCRequeues
  <2>. QED BY <1>1, <2>1, OutcomeEffects
<1>4. \A next : \A c \in ConditionTypes \ {"NetworkReady"} : VPCProceeds(c, next) =>
         /\ vpc' = next /\ loop' = NoLoop /\ (EndsAtJoin' <=> EndsAtJoin)
         /\ res'.cond["NetworkReady"] = res.cond["NetworkReady"]
  BY <1>1, OutcomeEffects DEF VPCProceeds
<1>5. \A flag \in BOOLEAN : NextIteration(flag) =>
         /\ vpc' = vpc /\ loop'.i = loop.i + 1 /\ loop'.flag = (loop.flag \/ flag)
         /\ (EndsAtJoin' <=> EndsAtJoin) /\ res'.cond["NetworkReady"] = res.cond["NetworkReady"]
  BY <1>1 DEF NextIteration, LoopType, EndsAtJoin
<1>. QED BY <1>2, <1>3, <1>4, <1>5

LEMMA ReconcileVPCReady ==
    ASSUME TypeOK, Wanted, ReadyInv, Firm, NoForeignDelete, ReconcileVPC
    PROVE  ReadyInv'
<1>1. /\ local \in ObjectType /\ res \in ResultType /\ loop \in LoopType
      /\ pc = "components" /\ vpc = "vpc" /\ UNCHANGED <<stored, pc>>
  BY DEF ReconcileVPC, TypeOK, ControllerTypeOK, apiVars
<1>2. local'.id \subseteq local.id \cup {"vpc"}
  BY RecordsOf
<1>3. \/ VPCFails("VPCReady") \/ VPCRequeues
      \/ /\ VPCProceeds("VPCReady", "subnet") /\ "vpc" \in local'.id
         /\ VPCUp' \/ (Provision("vpc") /\ "vpc" \notin local.id)
  <2>1. VerifyVPC => VPCRequeues \/ (VPCProceeds("VPCReady", "subnet") /\ "vpc" \in local'.id /\ VPCUp')
    BY ResourceNames DEF VerifyVPC, ReadyInv, Standing, VPCUp, cloudVars, TypeOK, CloudTypeOK, CloudStates
  <2>2. ResolveVPC => /\ VPCProceeds("VPCReady", "subnet") /\ "vpc" \in local'.id /\ "vpc" \notin local.id
                      /\ Provision("vpc") \/ VPCUp'
    BY <1>1, RecordKeeps DEF ResolveVPC, Provision, NoForeignDelete, VPCUp, cloudVars
  <2>. QED BY <2>1, <2>2 DEF ReconcileVPC, CreateVPC, VPCError
<1>4. /\ EndsAtJoin => EndsAtJoin'
      /\ res'.cond["NetworkReady"] = "true" => res.cond["NetworkReady"] = "true"
      /\ \/ vpc' = "done" /\ EndsAtJoin'
         \/ /\ vpc' = "subnet" /\ loop' = NoLoop /\ "vpc" \in local'.id
            /\ VPCUp' \/ (Provision("vpc") /\ "vpc" \notin local.id)
  BY <1>3, VPCOutcomeEffects, ConditionNames
<1>5. local'.id \cap SubnetSet \subseteq local.id
  BY <1>2, SubnetNames
<1>6. VPCStage'
  <2>1. CASE vpc' = "done" /\ EndsAtJoin'
    BY <2>1 DEF VPCStage
  <2>2. CASE vpc' = "subnet" /\ loop' = NoLoop
    <3>1. VPCUp' \/ (Provision("vpc") /\ local'.id \cap SubnetSet = {})
      BY <1>1, <1>4, <1>5, <2>2 DEF ReadyInv, SubnetInv
    <3>2. loop'.i = 1 /\ \A j \in DOMAIN Subnets : ~(j < loop'.i)
      BY <2>2, ListAssumption DEF NoLoop
    <3>. QED BY <1>4, <2>2, <3>1, <3>2 DEF VPCStage
  <2>. QED BY <1>4, <2>1, <2>2
<1>. QED BY <1>4, <1>5, <1>6, VPCMethodReady

LEMMA ReconcileVPCSubnetsReady ==
    ASSUME TypeOK, Wanted, ReadyInv, Firm, Subnets # <<>>, ReconcileVPCSubnets
    PROVE  ReadyInv'
<1>1. /\ local \in ObjectType /\ loop \in LoopType /\ loop.i \in Nat \ {0} /\ loop.flag \in BOOLEAN
      /\ pc = "components" /\ vpc = "subnet" /\ UNCHANGED <<stored, pc>>
      /\ Subnets \in Seq(STRING)
  BY ListAssumption DEF ReconcileVPCSubnets, TypeOK, ControllerTypeOK, LoopType, apiVars
<1>2. /\ "vpc" \in local.id
      /\ VPCUp \/ loop.flag \/ (Provision("vpc") /\ loop.i = 1 /\ local.id \cap SubnetSet = {})
      /\ \A j \in DOMAIN Subnets : j < loop.i => Exists(Subnets[j])
  BY <1>1 DEF ReadyInv, StageInv, VPCStage
<1>3. /\ \A j \in DOMAIN Subnets : j < loop.i => cloud'[Subnets[j]] # "absent"
      /\ VPCUp => VPCUp'
      /\ "vpc" \in local'.id
  BY <1>2, FirmKeeps, ResourceNames, VPCMethods DEF Firm, Exists
\* The next subnet.
<1>4. ASSUME NEW s \in SubnetSet, loop.i \in DOMAIN Subnets, s = Subnets[loop.i],
             \/ NextIteration(FALSE) /\ s \in local.id
             \/ NextIteration(Provision(s))
             \/ NextIteration(TRUE),
             cloud'[s] # "absent"
      PROVE  ReadyInv'
  <2>1. PICK flag \in BOOLEAN : NextIteration(flag) /\ (flag \/ s \in local.id \/ ~Provision(s))
    BY <1>4 DEF Provision
  <2>2. /\ vpc' = "subnet" /\ loop'.i = loop.i + 1 /\ loop'.flag = (loop.flag \/ flag)
        /\ (EndsAtJoin' <=> EndsAtJoin) /\ res'.cond["NetworkReady"] = res.cond["NetworkReady"]
    BY <1>1, <2>1, VPCOutcomeEffects
  <2>3. VPCUp' \/ loop'.flag
    <3>1. ~Provision(s) => ~Provision("vpc")
      BY <1>4, NestingAssumption DEF Provision
    <3>. QED BY <1>2, <1>3, <1>4, <2>1, <2>2, <3>1
  <2>4. \A j \in DOMAIN Subnets : j < loop'.i => cloud'[Subnets[j]] # "absent"
    BY <1>1, <1>3, <1>4, <2>2
  <2>5. VPCStage'
    BY <1>1, <1>3, <2>2, <2>3, <2>4 DEF VPCStage, Exists
  <2>. QED BY <1>2, <2>2, <2>5, VPCMethodReady
\* The list is through.
<1>5. CASE loop.i \notin DOMAIN Subnets /\ ~loop.flag /\ VPCProceeds("VPCSubnetReady", "sg")
  <2>1. \A j \in DOMAIN Subnets : j < loop.i
    BY <1>1, <1>5
  <2>2. loop.i # 1
    BY <1>1, <1>5
  <2>3. VPCUp' /\ AllExist(SubnetSet)'
    BY <1>2, <1>3, <1>5, <2>1, <2>2 DEF AllExist, Exists, SubnetSet, Elems
  <2>4. /\ vpc' = "sg" /\ loop' = NoLoop /\ (EndsAtJoin' <=> EndsAtJoin)
        /\ res'.cond["NetworkReady"] = res.cond["NetworkReady"]
    BY <1>5, VPCOutcomeEffects, ConditionNames
  <2>5. \A j \in DOMAIN SecurityGroups : ~(j < loop'.i)
    BY <2>4, ListAssumption DEF NoLoop
  <2>6. VPCStage'
    BY <2>3, <2>4, <2>5 DEF VPCStage
  <2>. QED BY <1>2, <2>4, <2>6, VPCMethodReady
\* The goroutine ends, and this reconcile with it.
<1>6. CASE VPCFails("VPCSubnetReady") \/ VPCRequeues
  <2>1. /\ vpc' = "done" /\ EndsAtJoin'
        /\ res'.cond["NetworkReady"] = "true" => res.cond["NetworkReady"] = "true"
    BY <1>6, VPCOutcomeEffects, ConditionNames
  <2>2. VPCStage'
    BY <2>1 DEF VPCStage
  <2>. QED BY <1>2, <2>1, <2>2, VPCMethodReady
<1>7. CASE loop.i \in DOMAIN Subnets
  <2>1. PICK s \in SubnetSet : s = Subnets[loop.i]
    BY <1>7, ResourceNames
  <2>2. \/ VPCFails("VPCSubnetReady")
        \/ /\ \/ NextIteration(FALSE) /\ s \in local.id
              \/ NextIteration(Provision(s))
              \/ NextIteration(TRUE)
           /\ cloud'[s] # "absent"
    <3>1. VerifySubnet(s) \/ ResolveSubnet(s) \/ CreateSubnet(s) \/ SubnetError(s)
      BY <1>7, <2>1 DEF ReconcileVPCSubnets
    <3>2. CreateSubnet(s) => cloud'[s] # "absent"
      BY ResourceNames, CreateCallsOne DEF CreateSubnet
    <3>. QED BY <3>1, <3>2 DEF VerifySubnet, ResolveSubnet, CreateSubnet, SubnetError, Exists, cloudVars
  <2>. QED BY <1>4, <1>6, <1>7, <2>1, <2>2
<1>. QED BY <1>5, <1>6, <1>7 DEF ReconcileVPCSubnets

LEMMA ReconcileVPCSecurityGroupsReady ==
    ASSUME TypeOK, Wanted, ReadyInv, Firm, ReconcileVPCSecurityGroups
    PROVE  ReadyInv'
<1>1. /\ local \in ObjectType /\ loop \in LoopType /\ loop.i \in Nat \ {0}
      /\ pc = "components" /\ vpc = "sg" /\ UNCHANGED <<stored, pc>>
      /\ SecurityGroups \in Seq(STRING)
  BY ListAssumption DEF ReconcileVPCSecurityGroups, TypeOK, ControllerTypeOK, LoopType, apiVars
<1>2. /\ VPCUp' /\ AllExist(SubnetSet)'
      /\ \A j \in DOMAIN SecurityGroups : j < loop.i => cloud'[SecurityGroups[j]] # "absent"
  BY <1>1, FirmKeeps, ResourceNames DEF ReadyInv, StageInv, VPCStage, Firm, AllExist, Exists
<1>3. local'.id \cap SubnetSet \subseteq local.id
  BY RecordsOf, SubnetNames
<1>4. ASSUME NEW g \in SecurityGroupSet, loop.i \in DOMAIN SecurityGroups, g = SecurityGroups[loop.i],
             NextIteration(FALSE), cloud'[g] # "absent"
      PROVE  ReadyInv'
  <2>1. /\ vpc' = "sg" /\ loop'.i = loop.i + 1 /\ (EndsAtJoin' <=> EndsAtJoin)
        /\ res'.cond["NetworkReady"] = res.cond["NetworkReady"]
    BY <1>1, <1>4, VPCOutcomeEffects
  <2>2. \A j \in DOMAIN SecurityGroups : j < loop'.i => cloud'[SecurityGroups[j]] # "absent"
    BY <1>1, <1>2, <1>4, <2>1
  <2>3. VPCStage'
    BY <1>1, <1>2, <2>1, <2>2 DEF VPCStage, Exists
  <2>. QED BY <1>3, <2>1, <2>3, VPCMethodReady
<1>5. CASE loop.i \notin DOMAIN SecurityGroups
  <2>1. \A j \in DOMAIN SecurityGroups : j < loop.i
    BY <1>1, <1>5
  <2>2. AllExist(SecurityGroupSet)'
    BY <1>2, <2>1 DEF AllExist, Exists, SecurityGroupSet, Elems
  <2>3. /\ vpc' = "lb" /\ loop' = NoLoop /\ (EndsAtJoin' <=> EndsAtJoin)
        /\ res'.cond["NetworkReady"] = res.cond["NetworkReady"]
    BY <1>5, VPCOutcomeEffects, ConditionNames DEF ReconcileVPCSecurityGroups
  <2>4. \A j \in DOMAIN LoadBalancers : ~(j < loop'.i)
    BY <2>3, ListAssumption DEF NoLoop
  <2>5. VPCStage'
    BY <1>2, <2>2, <2>3, <2>4 DEF VPCStage
  <2>. QED BY <1>3, <2>3, <2>5, VPCMethodReady
<1>6. CASE VPCFails("VPCSecurityGroupReady")
  <2>1. /\ vpc' = "done" /\ EndsAtJoin'
        /\ res'.cond["NetworkReady"] = "true" => res.cond["NetworkReady"] = "true"
    BY <1>6, VPCOutcomeEffects, ConditionNames
  <2>2. VPCStage'
    BY <2>1 DEF VPCStage
  <2>. QED BY <1>3, <2>1, <2>2, VPCMethodReady
<1>7. CASE loop.i \in DOMAIN SecurityGroups
  <2>1. PICK g \in SecurityGroupSet : g = SecurityGroups[loop.i]
    BY <1>7, ResourceNames
  <2>2. ResolveSecurityGroup(g) \/ CreateSecurityGroup(g) \/ SecurityGroupError
    BY <1>7, <2>1 DEF ReconcileVPCSecurityGroups
  <2>3. CreateSecurityGroup(g) => cloud'[g] # "absent"
    BY ResourceNames, CreateCallsOne DEF CreateSecurityGroup
  <2>4. VPCFails("VPCSecurityGroupReady") \/ (NextIteration(FALSE) /\ cloud'[g] # "absent")
    BY <2>2, <2>3 DEF ResolveSecurityGroup, CreateSecurityGroup, SecurityGroupError, Exists, cloudVars
  <2>. QED BY <1>4, <1>6, <1>7, <2>1, <2>4
<1>. QED BY <1>5, <1>7

LEMMA ReconcileLoadBalancersReady ==
    ASSUME TypeOK, Wanted, ReadyInv, Firm, ReconcileLoadBalancers
    PROVE  ReadyInv'
<1>1. /\ local \in ObjectType /\ res \in ResultType /\ loop \in LoopType /\ loop.i \in Nat \ {0}
      /\ pc = "components" /\ vpc = "lb" /\ UNCHANGED <<stored, pc>>
      /\ LoadBalancers \in Seq(STRING)
  BY ListAssumption DEF ReconcileLoadBalancers, TypeOK, ControllerTypeOK, LoopType, apiVars
<1>2. /\ VPCUp' /\ AllExist(SubnetSet)' /\ AllExist(SecurityGroupSet)'
      /\ \A j \in DOMAIN LoadBalancers : j < loop.i => cloud'[LoadBalancers[j]] # "absent"
  BY <1>1, FirmKeeps, ResourceNames DEF ReadyInv, StageInv, VPCStage, Firm, AllExist, Exists
<1>3. local'.id \cap SubnetSet \subseteq local.id
  BY RecordsOf, SubnetNames
<1>4. ASSUME NEW l \in LoadBalancerSet, loop.i \in DOMAIN LoadBalancers, l = LoadBalancers[loop.i],
             NEW flag \in BOOLEAN, NextIteration(flag), cloud'[l] # "absent"
      PROVE  ReadyInv'
  <2>1. /\ vpc' = "lb" /\ loop'.i = loop.i + 1 /\ (EndsAtJoin' <=> EndsAtJoin)
        /\ res'.cond["NetworkReady"] = res.cond["NetworkReady"]
    BY <1>1, <1>4, VPCOutcomeEffects
  <2>2. \A j \in DOMAIN LoadBalancers : j < loop'.i => cloud'[LoadBalancers[j]] # "absent"
    BY <1>1, <1>2, <1>4, <2>1
  <2>3. VPCStage'
    BY <1>1, <1>2, <2>1, <2>2 DEF VPCStage, Exists
  <2>. QED BY <1>3, <2>1, <2>3, VPCMethodReady
<1>5. CASE loop.i \notin DOMAIN LoadBalancers
  <2>1. \A j \in DOMAIN LoadBalancers : j < loop.i
    BY <1>1, <1>5
  <2>2. AllExist(LoadBalancerSet)'
    BY <1>2, <2>1 DEF AllExist, Exists, LoadBalancerSet, Elems
  <2>3. /\ vpc' = "done" /\ (EndsAtJoin' <=> EndsAtJoin)
        /\ res'.cond["NetworkReady"] = res.cond["NetworkReady"]
    <3>1. vpc' = "done" /\ (res' = res \/ res' = [res EXCEPT !.cond["VPCLoadBalancerReady"] = "true"])
      BY <1>5 DEF ReconcileLoadBalancers, LoadBalancersReconciled
    <3>. QED BY <1>1, <3>1, OutcomeEffects, ConditionNames DEF EndsAtJoin
  <2>4. VPCStage'
    BY <1>2, <2>2, <2>3 DEF VPCStage, VPCSideUp
  <2>. QED BY <1>3, <2>3, <2>4, VPCMethodReady
<1>6. CASE VPCFails("VPCLoadBalancerReady")
  <2>1. /\ vpc' = "done" /\ EndsAtJoin'
        /\ res'.cond["NetworkReady"] = "true" => res.cond["NetworkReady"] = "true"
    BY <1>6, VPCOutcomeEffects, ConditionNames
  <2>2. VPCStage'
    BY <2>1 DEF VPCStage
  <2>. QED BY <1>3, <2>1, <2>2, VPCMethodReady
<1>7. CASE loop.i \in DOMAIN LoadBalancers
  <2>1. PICK l \in LoadBalancerSet : l = LoadBalancers[loop.i]
    BY <1>7, ResourceNames
  <2>2. VerifyLoadBalancer(l) \/ RecoverLoadBalancer(l) \/ CreateLoadBalancer(l) \/ LoadBalancerError(l)
    BY <1>7, <2>1 DEF ReconcileLoadBalancers
  <2>3. CreateLoadBalancer(l) => cloud'[l] # "absent"
    BY ResourceNames, CreateCallsOne DEF CreateLoadBalancer
  <2>4. VPCFails("VPCLoadBalancerReady")
        \/ ((\E flag \in BOOLEAN : NextIteration(flag)) /\ cloud'[l] # "absent")
    BY <2>2, <2>3 DEF VerifyLoadBalancer, RecoverLoadBalancer, CreateLoadBalancer, LoadBalancerError,
       Exists, cloudVars
  <2>. QED BY <1>4, <1>6, <1>7, <2>1, <2>4
<1>. QED BY <1>5, <1>7

\* Both goroutines are done: without error or requeue, both sides are up.
LEMMA JoinReady ==
    ASSUME TypeOK, Wanted, ReadyInv, Firm, Join
    PROVE  ReadyInv'
<1>1. /\ pc = "components" /\ pvs = "done" /\ vpc = "done" /\ UNCHANGED stored
      /\ pc' \in {"patch", "tg"} /\ (pc' = "tg" => ~EndsAtJoin)
      /\ res' = NoResult /\ local'.id = local.id /\ local'.provisioned = local.provisioned
  BY DEF Join, apiVars, TypeOK, ControllerTypeOK, ObjectType, EndsAtJoin
<1>2. local'.cond["NetworkReady"] \in {local.cond["NetworkReady"], res.cond["NetworkReady"]}
  BY ConditionNames DEF Join, TypeOK, ControllerTypeOK, ObjectType
<1>3. res'.cond["NetworkReady"] # "true"
  BY <1>1, ConditionNames DEF NoResult
<1>4. StageInv'
  BY <1>1, FirmKeeps DEF ReadyInv, StageInv, PowerVSStage, VPCStage, JoinedStage
<1>. QED BY <1>1, <1>2, <1>3, <1>4, ReportKeeps DEF ReadyInv

\* What the methods after the join leave alone.
LEMMA JoinedMethods ==
    ASSUME TypeOK,
           ReconcileTransitGateway \/ ReconcileConnection \/ ReconcileCOSInstance \/ ReconcileCOSHMACKey
    PROVE  /\ UNCHANGED <<stored, res>>
           /\ local.id \subseteq local'.id /\ local'.provisioned = local.provisioned
           /\ local'.cond["NetworkReady"] = local.cond["NetworkReady"]
           /\ local'.id \cap SubnetSet \subseteq local.id
<1>1. local \in ObjectType
  BY DEF TypeOK, ControllerTypeOK
<1>2. UNCHANGED <<stored, res>>
  BY DEF ReconcileTransitGateway, ReconcileConnection, ReconcileCOSInstance, ReconcileCOSHMACKey, apiVars
<1>3. local'.id \cap SubnetSet \subseteq local.id
  BY RecordsOf, SubnetNames DEF Connections
<1>4. /\ local.id \subseteq local'.id /\ local'.provisioned = local.provisioned
      /\ local'.cond["NetworkReady"] = local.cond["NetworkReady"]
  <2> DEFINE Kept(o) == /\ local.id \subseteq o.id /\ o.provisioned = local.provisioned
                        /\ o.cond["NetworkReady"] = local.cond["NetworkReady"]
  <2>1. /\ Kept(local)
        /\ Kept([local EXCEPT !.cond["TransitGatewayReady"] = "false"])
        /\ Kept([local EXCEPT !.cond["COSInstanceReady"] = "false"])
        /\ Kept([local EXCEPT !.hmac = TRUE, !.cond["COSInstanceReady"] = "true"])
    BY <1>1 DEF ObjectType
  <2>2. ASSUME NEW r
        PROVE LET o == [local EXCEPT !.id = @ \cup {r}]
              IN /\ Kept(o)
                 /\ Kept([o EXCEPT !.cond["TransitGatewayReady"] = "false"])
                 /\ Kept([o EXCEPT !.cond["TransitGatewayReady"] = "true"])
                 /\ Kept([o EXCEPT !.cond["COSInstanceReady"] = "false"])
    BY <1>1 DEF ObjectType
  <2> SUFFICES Kept(local')
    BY DEF Kept
  <2> HIDE DEF Kept
  <2>3. CASE ReconcileTransitGateway
    <3>1. LET o == [local EXCEPT !.id = @ \cup {"tg"}]
          IN Kept(o) /\ Kept([o EXCEPT !.cond["TransitGatewayReady"] = "false"])
      BY <2>2
    <3>2. CASE CheckTransitGateway
      BY <3>1, <3>2 DEF CheckTransitGateway
    <3>3. CASE RecoverTransitGateway
      BY <3>1, <3>3 DEF RecoverTransitGateway, Record
    <3>4. CASE CreateTransitGateway
      BY <2>1, <3>1, <3>4 DEF CreateTransitGateway, TransitGatewayFails, SetCondition, Record
    <3>5. CASE TransitGatewayError
      BY <2>1, <3>5 DEF TransitGatewayError, TransitGatewayFails, SetCondition
    <3>. QED BY <2>3, <3>2, <3>3, <3>4, <3>5 DEF ReconcileTransitGateway
  <2>4. CASE ReconcileConnection
    BY <2>1, <2>2, <2>4 DEF ReconcileConnection, CheckConnection, CreateConnection,
                ConnectionError, ConnectionDone, TransitGatewayFails, SetCondition
  <2>5. CASE ReconcileCOSInstance
    BY <2>1, <2>2, <2>5 DEF ReconcileCOSInstance, ResolveCOSInstance, CreateCOSInstance,
                COSError, COSFails
  <2>6. CASE ReconcileCOSHMACKey
    BY <2>1, <2>2, <2>6 DEF ReconcileCOSHMACKey, KeepHMACKey, IssueHMACKey, HMACKeyLost,
                COSError, COSFails, COSReady
  <2> QED BY <2>3, <2>4, <2>5, <2>6
<1>. QED BY <1>2, <1>3, <1>4

\* What is left to show of them.
LEMMA JoinedMethodReady ==
    ASSUME TypeOK, Wanted, ReadyInv, Firm,
           ReconcileTransitGateway \/ ReconcileConnection \/ ReconcileCOSInstance \/ ReconcileCOSHMACKey,
           pc # "idle", pc' # "components", JoinedStage'
    PROVE  ReadyInv'
<1>1. StageInv'
  BY DEF StageInv, PowerVSStage, VPCStage
<1>2. local'.id \cap SubnetSet # {} => local.id \cap SubnetSet # {}
  BY JoinedMethods
<1>. QED BY <1>1, <1>2, JoinedMethods, ReportKeeps DEF ReadyInv

LEMMA ReconcileTransitGatewayReady ==
    ASSUME TypeOK, Wanted, ReadyInv, Firm, ReconcileTransitGateway
    PROVE  ReadyInv'
<1>1. pc = "tg" /\ local \in ObjectType
  BY DEF ReconcileTransitGateway, TypeOK, ControllerTypeOK
<1>2. [local EXCEPT !.id = @ \cup {"tg"}].id = local.id \cup {"tg"}
  BY <1>1 DEF ObjectType
<1>3. /\ pc' \in {"vpcConn", "patch"}
      /\ pc' = "vpcConn" => "tg" \in local'.id /\ cloud'["tg"] = "active"
  BY <1>2
     DEF ReconcileTransitGateway, CheckTransitGateway, RecoverTransitGateway, CreateTransitGateway,
         TransitGatewayError, TransitGatewayFails, TransitGatewayRequeues, cloudVars
<1>4. JoinedStage'
  BY <1>1, <1>3, FirmKeeps DEF ReadyInv, StageInv, JoinedStage
<1>. QED BY <1>1, <1>3, <1>4, JoinedMethodReady

\* A connection that is pending sets the flag, or ends this reconcile.
LEMMA ReconcileConnectionReady ==
    ASSUME TypeOK, Wanted, ReadyInv, Firm, ReconcileConnection
    PROVE  ReadyInv'
<1>1. pc \in {"vpcConn", "pvsConn"} /\ loop \in LoopType
  BY DEF ReconcileConnection, TypeOK, ControllerTypeOK
<1>2. /\ cloud'["workspace"] = "active" /\ VPCSideUp' /\ "tg" \in local'.id /\ cloud'["tg"] = "active"
      /\ pc = "pvsConn" /\ ~loop.flag => cloud'["vpcConn"] = "active"
  BY <1>1, FirmKeeps, JoinedMethods DEF ReadyInv, StageInv, JoinedStage, Firm
<1>3. ASSUME NEW o, NEW requeue \in BOOLEAN, ConnectionDone(pc, o, requeue),
             ~requeue => cloud'[pc] = "active"
      PROVE  ReadyInv'
  <2>1. CASE pc = "vpcConn"
    <3>1. pc' = "pvsConn" /\ loop'.flag = requeue
      BY <1>1, <1>3, <2>1 DEF ConnectionDone, LoopType
    <3>2. JoinedStage'
      BY <1>2, <1>3, <2>1, <3>1 DEF JoinedStage
    <3>. QED BY <2>1, <3>1, <3>2, JoinedMethodReady
  <2>2. CASE pc = "pvsConn"
    <3>1. \/ pc' = "patch"
          \/ pc' = (IF HasCOS THEN "cos" ELSE "finish") /\ ~loop.flag /\ ~requeue
      BY <1>3, <2>2 DEF ConnectionDone
    <3>2. JoinedStage'
      BY <1>2, <1>3, <2>2, <3>1 DEF JoinedStage
    <3>. QED BY <2>2, <3>1, <3>2, JoinedMethodReady
  <2>. QED BY <1>1, <2>1, <2>2
<1>4. CASE pc' = "patch"
  <2>1. JoinedStage'
    BY <1>4 DEF JoinedStage
  <2>. QED BY <1>1, <1>4, <2>1, JoinedMethodReady
<1>5. CASE CheckConnection(pc)
  BY <1>3, <1>4, <1>5 DEF CheckConnection, cloudVars
<1>6. CASE CreateConnection(pc) \/ ConnectionError
  BY <1>3, <1>4, <1>6 DEF CreateConnection, ConnectionError, TransitGatewayFails
<1>. QED BY <1>5, <1>6 DEF ReconcileConnection

LEMMA ReconcileCOSReady ==
    ASSUME TypeOK, Wanted, ReadyInv, Firm, ReconcileCOSInstance \/ ReconcileCOSHMACKey
    PROVE  ReadyInv'
<1>1. pc \in {"cos", "hmac"}
  BY DEF ReconcileCOSInstance, ReconcileCOSHMACKey
<1>2. /\ cloud'["workspace"] = "active" /\ VPCSideUp' /\ "tg" \in local'.id /\ cloud'["tg"] = "active"
      /\ cloud'["vpcConn"] = "active" /\ cloud'["pvsConn"] = "active"
      /\ pc = "hmac" => cloud'["cos"] = "active"
  BY <1>1, FirmKeeps, JoinedMethods DEF ReadyInv, StageInv, JoinedStage, Firm
<1>3. \/ pc' = "patch"
      \/ pc' = "hmac" /\ cloud'["cos"] = "active"
      \/ pc = "hmac" /\ pc' = "finish" /\ secret'
  <2>1. CASE ReconcileCOSInstance
    <3>1. \A state : CreateAs("cos", state) => cloud'["cos"] = state
      BY CreateCallsOne, ResourceNames
    <3>. QED BY <2>1, <3>1 DEF ReconcileCOSInstance, ResolveCOSInstance, CreateCOSInstance, COSError, COSFails,
             cloudVars
  <2>2. CASE ReconcileCOSHMACKey
    <3>1. KeepHMACKey => pc' = "finish" /\ secret'
      BY DEF KeepHMACKey, COSReady, cloudVars
    <3>2. IssueHMACKey => pc' = "patch" \/ (pc' = "finish" /\ secret')
      BY DEF IssueHMACKey, COSReady, COSFails
    <3>3. HMACKeyLost \/ COSError => pc' = "patch"
      BY DEF HMACKeyLost, COSError, COSFails
    <3>. QED BY <2>2, <3>1, <3>2, <3>3 DEF ReconcileCOSHMACKey
  <2>. QED BY <2>1, <2>2
<1>4. JoinedStage'
  BY <1>2, <1>3 DEF JoinedStage
<1>. QED BY <1>1, <1>3, <1>4, JoinedMethodReady

\* The end of reconcile: NetworkReady was not waited for, but is looked at.
LEMMA FinishReady ==
    ASSUME TypeOK, Wanted, ReadyInv, Firm, Finish
    PROVE  ReadyInv'
<1>1. /\ pc = "finish" /\ pc' = "patch" /\ UNCHANGED <<stored, res, cloudVars>> /\ local \in ObjectType
      /\ \/ local' = local
         \/ /\ local.cond["NetworkReady"] = "true"
            /\ local' = [local EXCEPT !.endpoint = TRUE, !.provisioned = TRUE]
  BY DEF Finish, apiVars, TypeOK, ControllerTypeOK
<1>2. local'.id = local.id /\ local'.cond = local.cond
  BY <1>1 DEF ObjectType
<1>3. local'.provisioned => local.provisioned \/ (Up' /\ "tg" \in local'.id)
  <2>1. local.cond["NetworkReady"] = "true" => Up /\ "tg" \in local.id
    BY <1>1 DEF ReadyInv, NetworkInv, StageInv, JoinedStage, Up
  <2>2. Up /\ "tg" \in local.id => Up'
    BY FirmKeeps
  <2>. QED BY <1>1, <1>2, <2>1, <2>2
<1>4. StageInv'
  BY <1>1 DEF StageInv, PowerVSStage, VPCStage, JoinedStage
<1>. QED BY <1>1, <1>2, <1>3, <1>4, ReportKeeps DEF ReadyInv

LEMMA LiveStep ==
    ASSUME \A r \in Res : ~CloudVanish(r), Subnets # <<>>, TypeOK, NoForeignDelete, ContractInv, LiveInv,
           [Next]_vars
    PROVE  LiveInv'
<1>. SUFFICES ASSUME phase' = "live" PROVE ReadyInv'
  BY DEF LiveInv
<1>1. CASE Environment \/ ReconcileNotFound \/ UNCHANGED vars
  BY <1>1, EnvironmentReady
<1>2. CASE EnsureFinalizer \/ StartReconcile \/ Patch \/ Crash
  BY <1>2, EndsReady
<1>3. CASE DeleteStep
  <2>1. phase = "live" /\ pc \in DeletePC
    BY <1>3, PathSteps DEF Shrinks
  <2>. QED BY <2>1, ContractWanted DEF Wanted, DeletePC, CreatePC
<1>4. CASE ReconcileStep
  <2>1. phase = "live" /\ Wanted /\ ReadyInv
    BY <1>4, CreatePathGrows, ContractWanted DEF Grows, LiveInv
  <2>2. Firm
    BY <1>4, <2>1, FirmCreating DEF ReadyInv
  <2>. QED
    BY <1>4, <2>1, <2>2, PrepareReady, ReconcileWorkspaceReady, ReconcileNetworkReady,
       ReconcileVPCReady, ReconcileVPCSubnetsReady, ReconcileVPCSecurityGroupsReady,
       ReconcileLoadBalancersReady, JoinReady, ReconcileTransitGatewayReady,
       ReconcileConnectionReady, ReconcileCOSReady, FinishReady
    DEF ReconcileStep
<1>. QED BY <1>1, <1>2, <1>3, <1>4 DEF Next, Controller

\* Initialization.Provisioned stands for infrastructure that works, for as long
\* as the cluster is wanted: although two of its conditions are not waited for,
\* each goroutine looks at its own part only, and patches may be lost or partial.
THEOREM ProvisionedClustersWork ==
    ASSUME "vanish" \notin FaultKinds, NestedPreexisting, Subnets # <<>>
    PROVE  Spec => []ProvisionedMeansReady
<1>1. Init => LiveInv
  <2>1. Init => Standing
    BY DEF Init, Standing
  <2>2. Init => StageInv /\ SubnetInv /\ ProvisionedInv
    BY DEF Init, StageInv, PowerVSStage, VPCStage, JoinedStage, SubnetInv, ProvisionedInv, NewObject
  <2>3. Init => NetworkInv
    BY ConditionNames DEF Init, NetworkInv, NewObject, NoResult
  <2>. QED BY <2>1, <2>2, <2>3 DEF LiveInv, ReadyInv
<1>2. LiveInv => ProvisionedMeansReady
  BY DEF LiveInv, ReadyInv, ProvisionedInv, Up, VPCSideUp, VPCUp, AllExist, ProvisionedMeansReady
<1>. QED
  BY <1>1, <1>2, NoVanishing, ContractInit, ContractStep, LiveStep, TypeCorrect, ReferencesAreSafe, PTL
  DEF Spec
=============================================================================
