--------------------------- MODULE VPCClusterProofs --------------------------
(***************************************************************************)
(* Proofs about VPCCluster, for every set of specs and any failures.       *)
(***************************************************************************)
EXTENDS VPCCluster, TLAPS

----------------------------------------------------------------------------
(* Types.                                                                  *)

\* The fault counter stays within its bound.
LEMMA FaultArithmetic ==
    ASSUME faults \in 0..MaxFaults
    PROVE /\ NoFault => faults' \in 0..MaxFaults
          /\ \A kind : Fault(kind) => faults' \in 0..MaxFaults
BY BoundAssumption DEF NoFault, Fault

\* A fresh object is well formed.
LEMMA NewObjectType == NewObject \in ObjectType
BY DEF NewObject, ObjectType, Status, LBStates

\* Writing fields of an object keeps it well formed.
LEMMA ObjectUpdates ==
    ASSUME NEW o \in ObjectType, NEW b \in BOOLEAN, NEW l \in LBs,
           NEW st \in LBStates, NEW v \in Status
    PROVE /\ [o EXCEPT !.finalizer = b] \in ObjectType
          /\ [o EXCEPT !.host = l] \in ObjectType
          /\ [o EXCEPT !.lb = l, !.lbState = st, !.ready = b, !.lbReady = v] \in ObjectType
          /\ [o EXCEPT !.host = l, !.lb = l, !.ready = b, !.lbState = st, !.lbReady = v]
                \in ObjectType
          /\ [o EXCEPT !.vpc = b, !.vpcReady = v] \in ObjectType
          /\ [o EXCEPT !.vpcReady = v] \in ObjectType
          /\ [o EXCEPT !.subnet = b, !.subnetReady = v] \in ObjectType
          /\ [o EXCEPT !.subnetReady = v] \in ObjectType
          /\ [o EXCEPT !.lbState = st] \in ObjectType
          /\ [o EXCEPT !.lbReady = v] \in ObjectType
BY DEF ObjectType

\* The values written to objects.
LEMMA Written ==
    ASSUME TypeOK
    PROVE /\ VPCFound \in ObjectType /\ VPCFailed \in ObjectType
          /\ SubnetFound \in ObjectType /\ SubnetFailed \in ObjectType
          /\ \A o \in ObjectType : Finalized(o) \in ObjectType
          /\ \A o \in ObjectType, b \in LBs : ReconcileLBState(o, b) \in ObjectType
<1>1. local \in ObjectType /\ lbs \in [LBs -> LBStates]
  BY DEF TypeOK, ControllerTypeOK, CloudTypeOK
<1>2. {"true", "false", "unknown", "none"} \subseteq Status /\ {TRUE, FALSE} \subseteq BOOLEAN
      /\ LBs # {} /\ LBStates # {}
  BY DEF Status, LBs, LBStates
<1>3. /\ VPCFound \in ObjectType /\ VPCFailed \in ObjectType
      /\ SubnetFound \in ObjectType /\ SubnetFailed \in ObjectType
  BY <1>1, <1>2, ObjectUpdates DEF VPCFound, VPCFailed, SubnetFound, SubnetFailed
<1>4. \A o \in ObjectType : Finalized(o) \in ObjectType
  BY <1>2, ObjectUpdates DEF Finalized
<1>5. ASSUME NEW o \in ObjectType, NEW b \in LBs PROVE ReconcileLBState(o, b) \in ObjectType
  <2>. DEFINE v == CASE lbs[b] = "create_pending" -> "false"
                     [] lbs[b] = "active" -> "true"
                     [] OTHER -> "unknown"
  <2>1. v \in Status /\ lbs[b] \in LBStates /\ (lbs[b] = "active") \in BOOLEAN
    BY <1>1, <1>2
  <2>. HIDE DEF v
  <2>2. [o EXCEPT !.lb = b, !.lbState = lbs[b], !.ready = (lbs[b] = "active"), !.lbReady = v]
           \in ObjectType
    BY <2>1, ObjectUpdates
  <2>. QED BY <2>2 DEF ReconcileLBState, v
<1>. QED BY <1>3, <1>4, <1>5

\* GetLoadBalancerByHostname.
LEMMA GetLoadBalancerByHostnameType ==
    ASSUME TypeOK, GetLoadBalancerByHostname
    PROVE  TypeOK'
<1>1. CloudTypeOK' /\ ApiTypeOK'
  BY DEF TypeOK, CloudTypeOK, ApiTypeOK, LBs, LBStates, GetLoadBalancerByHostname,
         networkVars, cloudVars, apiVars, ctlVars
<1>2. faults' \in 0..MaxFaults
  BY FaultArithmetic DEF TypeOK, GetLoadBalancerByHostname
<1>3. local' \in ObjectType
  <2>1. local.host \in LBs /\ local \in ObjectType
    BY DEF TypeOK, ControllerTypeOK, ObjectType, GetLoadBalancerByHostname
  <2>. QED BY <2>1, Written DEF Fails, GetLoadBalancerByHostname
<1>4. ControllerTypeOK'
  BY <1>3 DEF TypeOK, ControllerTypeOK, Fails, AfterVPC, AfterSubnet,
         GetLoadBalancerByHostname
<1>. QED BY <1>1, <1>2, <1>4 DEF TypeOK

\* FindVPC.
LEMMA FindVPCType ==
    ASSUME TypeOK, FindVPC
    PROVE  TypeOK'
<1>1. CloudTypeOK' /\ ApiTypeOK'
  BY DEF TypeOK, CloudTypeOK, ApiTypeOK, LBs, LBStates, FindVPC, networkVars,
         cloudVars, apiVars, ctlVars
<1>2. faults' \in 0..MaxFaults
  BY FaultArithmetic DEF TypeOK, FindVPC
<1>3. local' \in ObjectType
  BY Written DEF TypeOK, ControllerTypeOK, Fails, FindVPC
<1>4. ControllerTypeOK'
  BY <1>3 DEF TypeOK, ControllerTypeOK, Fails, AfterVPC, AfterSubnet, FindVPC
<1>. QED BY <1>1, <1>2, <1>4 DEF TypeOK

\* CreateVPC.
LEMMA CreateVPCType ==
    ASSUME TypeOK, CreateVPC
    PROVE  TypeOK'
<1>1. CloudTypeOK' /\ ApiTypeOK'
  BY DEF TypeOK, CloudTypeOK, ApiTypeOK, LBs, LBStates, CreateVPC, networkVars,
         cloudVars, apiVars, ctlVars
<1>2. faults' \in 0..MaxFaults
  BY FaultArithmetic DEF TypeOK, CreateVPC
<1>3. local' \in ObjectType
  BY Written DEF TypeOK, ControllerTypeOK, Fails, CreateVPC
<1>4. ControllerTypeOK'
  BY <1>3 DEF TypeOK, ControllerTypeOK, Fails, AfterVPC, AfterSubnet, CreateVPC
<1>. QED BY <1>1, <1>2, <1>4 DEF TypeOK

\* UpdateDefaultSG.
LEMMA UpdateDefaultSGType ==
    ASSUME TypeOK, UpdateDefaultSG
    PROVE  TypeOK'
<1>1. CloudTypeOK' /\ ApiTypeOK'
  BY DEF TypeOK, CloudTypeOK, ApiTypeOK, LBs, LBStates, UpdateDefaultSG, networkVars,
         cloudVars, apiVars, ctlVars
<1>2. faults' \in 0..MaxFaults
  BY FaultArithmetic DEF TypeOK, UpdateDefaultSG
<1>3. local' \in ObjectType
  BY Written DEF TypeOK, ControllerTypeOK, Fails, UpdateDefaultSG
<1>4. ControllerTypeOK'
  BY <1>3 DEF TypeOK, ControllerTypeOK, Fails, AfterVPC, AfterSubnet, UpdateDefaultSG
<1>. QED BY <1>1, <1>2, <1>4 DEF TypeOK

\* FindSubnet.
LEMMA FindSubnetType ==
    ASSUME TypeOK, FindSubnet
    PROVE  TypeOK'
<1>1. CloudTypeOK' /\ ApiTypeOK'
  BY DEF TypeOK, CloudTypeOK, ApiTypeOK, LBs, LBStates, FindSubnet, networkVars,
         cloudVars, apiVars, ctlVars
<1>2. faults' \in 0..MaxFaults
  BY FaultArithmetic DEF TypeOK, FindSubnet
<1>3. local' \in ObjectType
  BY Written DEF TypeOK, ControllerTypeOK, Fails, FindSubnet
<1>4. ControllerTypeOK'
  BY <1>3 DEF TypeOK, ControllerTypeOK, Fails, AfterVPC, AfterSubnet, FindSubnet
<1>. QED BY <1>1, <1>2, <1>4 DEF TypeOK

\* CreateSubnet.
LEMMA CreateSubnetType ==
    ASSUME TypeOK, CreateSubnet
    PROVE  TypeOK'
<1>1. CloudTypeOK' /\ ApiTypeOK'
  BY DEF TypeOK, CloudTypeOK, ApiTypeOK, LBs, LBStates, CreateSubnet, networkVars,
         cloudVars, apiVars, ctlVars
<1>2. faults' \in 0..MaxFaults
  BY FaultArithmetic DEF TypeOK, CreateSubnet
<1>3. local' \in ObjectType
  BY Written DEF TypeOK, ControllerTypeOK, Fails, CreateSubnet
<1>4. ControllerTypeOK'
  BY <1>3 DEF TypeOK, ControllerTypeOK, Fails, AfterVPC, AfterSubnet, CreateSubnet
<1>. QED BY <1>1, <1>2, <1>4 DEF TypeOK

\* CreatePublicGateWay.
LEMMA CreatePublicGateWayType ==
    ASSUME TypeOK, CreatePublicGateWay
    PROVE  TypeOK'
<1>1. CloudTypeOK' /\ ApiTypeOK'
  BY DEF TypeOK, CloudTypeOK, ApiTypeOK, LBs, LBStates, CreatePublicGateWay,
         networkVars, cloudVars, apiVars, ctlVars
<1>2. faults' \in 0..MaxFaults
  BY FaultArithmetic DEF TypeOK, CreatePublicGateWay
<1>3. local' \in ObjectType
  BY Written DEF TypeOK, ControllerTypeOK, Fails, CreatePublicGateWay
<1>4. ControllerTypeOK'
  BY <1>3 DEF TypeOK, ControllerTypeOK, Fails, AfterVPC, AfterSubnet,
         CreatePublicGateWay
<1>. QED BY <1>1, <1>2, <1>4 DEF TypeOK

\* AttachPublicGateWay.
LEMMA AttachPublicGateWayType ==
    ASSUME TypeOK, AttachPublicGateWay
    PROVE  TypeOK'
<1>1. CloudTypeOK' /\ ApiTypeOK'
  BY DEF TypeOK, CloudTypeOK, ApiTypeOK, LBs, LBStates, AttachPublicGateWay,
         networkVars, cloudVars, apiVars, ctlVars
<1>2. faults' \in 0..MaxFaults
  BY FaultArithmetic DEF TypeOK, AttachPublicGateWay
<1>3. local' \in ObjectType
  BY Written DEF TypeOK, ControllerTypeOK, Fails, AttachPublicGateWay
<1>4. ControllerTypeOK'
  BY <1>3 DEF TypeOK, ControllerTypeOK, Fails, AfterVPC, AfterSubnet,
         AttachPublicGateWay
<1>. QED BY <1>1, <1>2, <1>4 DEF TypeOK

\* FindLoadBalancer.
LEMMA FindLoadBalancerType ==
    ASSUME TypeOK, FindLoadBalancer
    PROVE  TypeOK'
<1>1. CloudTypeOK' /\ ApiTypeOK'
  BY DEF TypeOK, CloudTypeOK, ApiTypeOK, LBs, LBStates, FindLoadBalancer, networkVars,
         cloudVars, apiVars, ctlVars
<1>2. faults' \in 0..MaxFaults
  BY FaultArithmetic DEF TypeOK, FindLoadBalancer
<1>3. local' \in ObjectType
  <2>1. [local EXCEPT !.host = "own"] \in ObjectType
    BY ObjectUpdates DEF TypeOK, ControllerTypeOK, LBs, LBStates, Status
  <2>. QED BY <2>1, Written DEF TypeOK, ControllerTypeOK, Fails, FindLoadBalancer, LBs
<1>4. ControllerTypeOK'
  BY <1>3 DEF TypeOK, ControllerTypeOK, Fails, AfterVPC, AfterSubnet, FindLoadBalancer
<1>. QED BY <1>1, <1>2, <1>4 DEF TypeOK

\* CreateLoadBalancer.
LEMMA CreateLoadBalancerType ==
    ASSUME TypeOK, CreateLoadBalancer
    PROVE  TypeOK'
<1>1. CloudTypeOK' /\ ApiTypeOK'
  BY DEF TypeOK, CloudTypeOK, ApiTypeOK, LBs, LBStates, CreateLoadBalancer,
         networkVars, cloudVars, apiVars, ctlVars
<1>2. faults' \in 0..MaxFaults
  BY FaultArithmetic DEF TypeOK, CreateLoadBalancer
<1>3. local' \in ObjectType
  <2>1. [local EXCEPT !.host = "own", !.lb = "own", !.ready = FALSE,
                      !.lbState = "create_pending", !.lbReady = "false"] \in ObjectType
    BY ObjectUpdates DEF TypeOK, ControllerTypeOK, LBs, LBStates, Status
  <2>. QED BY <2>1 DEF TypeOK, ControllerTypeOK, CreateLoadBalancer
<1>4. ControllerTypeOK'
  BY <1>3 DEF TypeOK, ControllerTypeOK, Fails, AfterVPC, AfterSubnet,
         CreateLoadBalancer
<1>. QED BY <1>1, <1>2, <1>4 DEF TypeOK

\* ListInstances.
LEMMA ListInstancesType ==
    ASSUME TypeOK, ListInstances
    PROVE  TypeOK'
<1>1. CloudTypeOK' /\ ApiTypeOK'
  BY DEF TypeOK, CloudTypeOK, ApiTypeOK, LBs, LBStates, ListInstances, networkVars,
         cloudVars, apiVars, ctlVars
<1>2. faults' \in 0..MaxFaults
  BY FaultArithmetic DEF TypeOK, ListInstances
<1>3. local' \in ObjectType
  BY Written DEF TypeOK, ControllerTypeOK, Fails, ListInstances
<1>4. ControllerTypeOK'
  BY <1>3 DEF TypeOK, ControllerTypeOK, Fails, AfterVPC, AfterSubnet, ListInstances
<1>. QED BY <1>1, <1>2, <1>4 DEF TypeOK

\* FindLoadBalancerToDelete.
LEMMA FindLoadBalancerToDeleteType ==
    ASSUME TypeOK, FindLoadBalancerToDelete
    PROVE  TypeOK'
<1>1. CloudTypeOK' /\ ApiTypeOK'
  BY DEF TypeOK, CloudTypeOK, ApiTypeOK, LBs, LBStates, FindLoadBalancerToDelete,
         networkVars, cloudVars, apiVars, ctlVars
<1>2. faults' \in 0..MaxFaults
  BY FaultArithmetic DEF TypeOK, FindLoadBalancerToDelete
<1>3. local' \in ObjectType
  <2>1. local \in ObjectType /\ lbs \in [LBs -> LBStates]
    BY DEF TypeOK, CloudTypeOK, ControllerTypeOK
  <2>2. CASE local.host # NoLB /\ lbs[local.host] # "absent"
    <3>. DEFINE o == [local EXCEPT !.lbState = lbs[local.host]]
    <3>1. local.host \in LBs
      BY <2>1, <2>2 DEF ObjectType
    <3>2. o \in ObjectType
      BY <2>1, <3>1, ObjectUpdates DEF Status
    <3>3. [o EXCEPT !.lbReady = "false"] \in ObjectType
      BY <3>1, <3>2, ObjectUpdates DEF Status, LBStates
    <3>. QED BY <2>1, <2>2, <3>2, <3>3, Written DEF Fails, FindLoadBalancerToDelete
  <2>3. CASE ~(local.host # NoLB /\ lbs[local.host] # "absent")
    BY <2>1, <2>3, Written DEF Fails, FindLoadBalancerToDelete
  <2>. QED BY <2>2, <2>3
<1>4. ControllerTypeOK'
  BY <1>3 DEF TypeOK, ControllerTypeOK, Fails, AfterVPC, AfterSubnet,
         FindLoadBalancerToDelete
<1>. QED BY <1>1, <1>2, <1>4 DEF TypeOK

\* DeleteLoadBalancer.
LEMMA DeleteLoadBalancerType ==
    ASSUME TypeOK, DeleteLoadBalancer
    PROVE  TypeOK'
<1>1. CloudTypeOK' /\ ApiTypeOK'
  BY DEF TypeOK, CloudTypeOK, ApiTypeOK, LBs, LBStates, DeleteLoadBalancer,
         networkVars, cloudVars, apiVars, ctlVars
<1>2. faults' \in 0..MaxFaults
  BY FaultArithmetic DEF TypeOK, DeleteLoadBalancer
<1>3. local' \in ObjectType
  BY Written DEF TypeOK, ControllerTypeOK, Fails, DeleteLoadBalancer
<1>4. ControllerTypeOK'
  BY <1>3 DEF TypeOK, ControllerTypeOK, Fails, AfterVPC, AfterSubnet,
         DeleteLoadBalancer
<1>. QED BY <1>1, <1>2, <1>4 DEF TypeOK

\* FindSubnetToDelete.
LEMMA FindSubnetToDeleteType ==
    ASSUME TypeOK, FindSubnetToDelete
    PROVE  TypeOK'
<1>1. CloudTypeOK' /\ ApiTypeOK'
  BY DEF TypeOK, CloudTypeOK, ApiTypeOK, LBs, LBStates, FindSubnetToDelete,
         networkVars, cloudVars, apiVars, ctlVars
<1>2. faults' \in 0..MaxFaults
  BY FaultArithmetic DEF TypeOK, FindSubnetToDelete
<1>3. local' \in ObjectType
  BY Written DEF TypeOK, ControllerTypeOK, Fails, FindSubnetToDelete
<1>4. ControllerTypeOK'
  BY <1>3 DEF TypeOK, ControllerTypeOK, Fails, AfterVPC, AfterSubnet,
         FindSubnetToDelete
<1>. QED BY <1>1, <1>2, <1>4 DEF TypeOK

\* GetSubnetPublicGateway.
LEMMA GetSubnetPublicGatewayType ==
    ASSUME TypeOK, GetSubnetPublicGateway
    PROVE  TypeOK'
<1>1. CloudTypeOK' /\ ApiTypeOK'
  BY DEF TypeOK, CloudTypeOK, ApiTypeOK, LBs, LBStates, GetSubnetPublicGateway,
         networkVars, cloudVars, apiVars, ctlVars
<1>2. faults' \in 0..MaxFaults
  BY FaultArithmetic DEF TypeOK, GetSubnetPublicGateway
<1>3. local' \in ObjectType
  BY Written DEF TypeOK, ControllerTypeOK, Fails, GetSubnetPublicGateway
<1>4. ControllerTypeOK'
  BY <1>3 DEF TypeOK, ControllerTypeOK, Fails, AfterVPC, AfterSubnet,
         GetSubnetPublicGateway
<1>. QED BY <1>1, <1>2, <1>4 DEF TypeOK

\* UnsetPublicGateway.
LEMMA UnsetPublicGatewayType ==
    ASSUME TypeOK, UnsetPublicGateway
    PROVE  TypeOK'
<1>1. CloudTypeOK' /\ ApiTypeOK'
  BY DEF TypeOK, CloudTypeOK, ApiTypeOK, LBs, LBStates, UnsetPublicGateway,
         networkVars, cloudVars, apiVars, ctlVars
<1>2. faults' \in 0..MaxFaults
  BY FaultArithmetic DEF TypeOK, UnsetPublicGateway
<1>3. local' \in ObjectType
  BY Written DEF TypeOK, ControllerTypeOK, Fails, UnsetPublicGateway
<1>4. ControllerTypeOK'
  BY <1>3 DEF TypeOK, ControllerTypeOK, Fails, AfterVPC, AfterSubnet,
         UnsetPublicGateway
<1>. QED BY <1>1, <1>2, <1>4 DEF TypeOK

\* DeletePublicGateway.
LEMMA DeletePublicGatewayType ==
    ASSUME TypeOK, DeletePublicGateway
    PROVE  TypeOK'
<1>1. CloudTypeOK' /\ ApiTypeOK'
  BY DEF TypeOK, CloudTypeOK, ApiTypeOK, LBs, LBStates, DeletePublicGateway,
         networkVars, cloudVars, apiVars, ctlVars
<1>2. faults' \in 0..MaxFaults
  BY FaultArithmetic DEF TypeOK, DeletePublicGateway
<1>3. local' \in ObjectType
  BY Written DEF TypeOK, ControllerTypeOK, Fails, DeletePublicGateway
<1>4. ControllerTypeOK'
  BY <1>3 DEF TypeOK, ControllerTypeOK, Fails, AfterVPC, AfterSubnet,
         DeletePublicGateway
<1>. QED BY <1>1, <1>2, <1>4 DEF TypeOK

\* DeleteSubnet.
LEMMA DeleteSubnetType ==
    ASSUME TypeOK, DeleteSubnet
    PROVE  TypeOK'
<1>1. CloudTypeOK' /\ ApiTypeOK'
  BY DEF TypeOK, CloudTypeOK, ApiTypeOK, LBs, LBStates, DeleteSubnet, networkVars,
         cloudVars, apiVars, ctlVars
<1>2. faults' \in 0..MaxFaults
  BY FaultArithmetic DEF TypeOK, DeleteSubnet
<1>3. local' \in ObjectType
  BY Written DEF TypeOK, ControllerTypeOK, Fails, DeleteSubnet
<1>4. ControllerTypeOK'
  BY <1>3 DEF TypeOK, ControllerTypeOK, Fails, AfterVPC, AfterSubnet, DeleteSubnet
<1>. QED BY <1>1, <1>2, <1>4 DEF TypeOK

\* DeleteVPC.
LEMMA DeleteVPCType ==
    ASSUME TypeOK, DeleteVPC
    PROVE  TypeOK'
<1>1. CloudTypeOK' /\ ApiTypeOK'
  BY DEF TypeOK, CloudTypeOK, ApiTypeOK, LBs, LBStates, DeleteVPC, networkVars,
         cloudVars, apiVars, ctlVars
<1>2. faults' \in 0..MaxFaults
  BY FaultArithmetic DEF TypeOK, DeleteVPC
<1>3. local' \in ObjectType
  BY Written DEF TypeOK, ControllerTypeOK, Fails, DeleteVPC
<1>4. ControllerTypeOK'
  BY <1>3 DEF TypeOK, ControllerTypeOK, Fails, AfterVPC, AfterSubnet, DeleteVPC
<1>. QED BY <1>1, <1>2, <1>4 DEF TypeOK

\* The environment, the gates and the start of a reconcile.
LEMMA EnvironmentType ==
    ASSUME TypeOK,
           Environment \/ TogglePause \/ DeleteObject \/ ReconcileReturns \/ EnsureFinalizer
             \/ StartReconcile
    PROVE  TypeOK'
<1>1. CASE Environment
  <2>1. ASSUME NEW b \in LBs, LBProgress(b) \/ LBUpdates(b) PROVE TypeOK'
    <3>1. lbs' \in [LBs -> LBStates] /\ faults' \in 0..MaxFaults
      BY <2>1, FaultArithmetic DEF LBProgress, LBUpdates, TypeOK, CloudTypeOK, LBStates
    <3>. QED BY <2>1, <3>1 DEF LBProgress, LBUpdates, TypeOK, CloudTypeOK, ApiTypeOK,
                ControllerTypeOK, networkVars, apiVars, ctlVars
  <2>2. CASE StartInstances \/ StopInstances
    <3>1. instances' = TRUE \/ instances' = FALSE
      BY <2>2 DEF StartInstances, StopInstances
    <3>2. UNCHANGED <<vpc, rule, subnet, gateway, lbs, spec, stored, phase, gate, local, pc, faults>>
      BY <2>2 DEF StartInstances, StopInstances, networkVars, apiVars, ctlVars
    <3>3. instances' \in BOOLEAN
      BY <3>1, Zenon
    <3>4. CloudTypeOK'
      BY <3>2, <3>3, Zenon DEF TypeOK, CloudTypeOK
    <3>5. ApiTypeOK' /\ ControllerTypeOK' /\ faults' \in 0..MaxFaults
      BY <3>2 DEF TypeOK, ApiTypeOK, ControllerTypeOK
    <3>. QED BY <3>4, <3>5 DEF TypeOK
  <2>3. CASE SetOwner
    BY <2>3 DEF SetOwner, TypeOK, CloudTypeOK, ApiTypeOK, ControllerTypeOK, networkVars,
                cloudVars, ctlVars
  <2>. QED BY <1>1, <2>1, <2>2, <2>3 DEF Environment
<1>2. CASE TogglePause \/ DeleteObject \/ ReconcileReturns
  BY <1>2 DEF TogglePause, DeleteObject, ReconcileReturns, TypeOK, CloudTypeOK, ApiTypeOK,
              ControllerTypeOK, networkVars, cloudVars, apiVars, ctlVars, vars
<1>3. CASE EnsureFinalizer
  <2>1. stored' \in ObjectType
    BY <1>3, ObjectUpdates DEF EnsureFinalizer, TypeOK, ApiTypeOK, LBs, LBStates, Status
  <2>. QED BY <1>3, <2>1 DEF EnsureFinalizer, TypeOK, CloudTypeOK, ApiTypeOK,
              ControllerTypeOK, networkVars, cloudVars, ctlVars
<1>4. CASE StartReconcile
  BY <1>4 DEF StartReconcile, TypeOK, CloudTypeOK, ApiTypeOK, ControllerTypeOK, networkVars,
              cloudVars, apiVars
<1>. QED BY <1>1, <1>2, <1>3, <1>4

\* The deferred patch, whichever of its parts gets through, and a crash.
LEMMA PatchType ==
    ASSUME TypeOK, Patch \/ Crash
    PROVE  TypeOK'
<1>1. \A parts : Patched(parts) \in ObjectType
  BY DEF TypeOK, ApiTypeOK, ControllerTypeOK, Patched, ObjectType
<1>2. CASE Patch
  <2>1. stored' \in ObjectType /\ local' = NewObject /\ pc' = "idle" /\ UNCHANGED <<cloudVars, spec, gate>>
        /\ (phase' = "gone" \/ phase' = phase)
    BY <1>1, <1>2 DEF Patch, Forget
  <2>2. faults' \in 0..MaxFaults
    BY <1>2, FaultArithmetic DEF Patch, TypeOK
  <2>. QED BY <2>1, <2>2, NewObjectType DEF TypeOK, CloudTypeOK, ApiTypeOK, ControllerTypeOK,
              networkVars, cloudVars
<1>3. CASE Crash
  BY <1>3, NewObjectType, FaultArithmetic
     DEF Crash, Forget, TypeOK, CloudTypeOK, ApiTypeOK, ControllerTypeOK, networkVars, cloudVars,
         apiVars
<1>. QED BY <1>2, <1>3

\* The first state is well typed.
LEMMA InitType == Init => TypeOK
<1>. SUFFICES ASSUME Init PROVE TypeOK
  OBVIOUS
<1>1. spec.host \in LBs \cup {NoLB}
  BY SpecAssumption DEF Init, SpecType, LBs
<1>2. stored \in ObjectType /\ local \in ObjectType
  BY <1>1, NewObjectType DEF Init, ObjectType
<1>3. lbs \in [LBs -> LBStates] /\ faults \in 0..MaxFaults
  BY BoundAssumption DEF Init, LBStates
<1>. QED BY <1>2, <1>3, Zenon DEF Init, TypeOK, CloudTypeOK, ApiTypeOK, ControllerTypeOK

\* Every step keeps the types.
LEMMA TypeStep == TypeOK /\ [Next]_vars => TypeOK'
<1>. SUFFICES ASSUME TypeOK, [Next]_vars PROVE TypeOK'
  OBVIOUS
<1>1. CASE ReconcileSteps
  BY <1>1, GetLoadBalancerByHostnameType, FindVPCType, CreateVPCType,
     UpdateDefaultSGType, FindSubnetType, CreateSubnetType, CreatePublicGateWayType,
     AttachPublicGateWayType, FindLoadBalancerType, CreateLoadBalancerType
     DEF ReconcileSteps
<1>2. CASE DeleteSteps
  BY <1>2, ListInstancesType, FindLoadBalancerToDeleteType, DeleteLoadBalancerType,
     FindSubnetToDeleteType, GetSubnetPublicGatewayType, UnsetPublicGatewayType,
     DeletePublicGatewayType, DeleteSubnetType, DeleteVPCType
     DEF DeleteSteps
<1>3. CASE UNCHANGED vars
  BY <1>3 DEF TypeOK, CloudTypeOK, ApiTypeOK, ControllerTypeOK, networkVars, cloudVars,
              apiVars, ctlVars, vars
<1>. QED BY <1>1, <1>2, <1>3, EnvironmentType, PatchType DEF Next, Steps

----------------------------------------------------------------------------
(* The inductive invariant.                                                *)

DeletePcs == {"instances", "findLB", "deleteLB", "findSubnet", "findGateway", "unset",
              "deleteGateway", "deleteSubnet", "deleteVPC"}
NetworkPcs == DeletePcs \ {"instances", "findLB", "deleteLB"}

\* The endpoint is the spec's, or the controller's own; the copy has the
\* persisted one, and a load balancer is made only where there is none.
EndpointInv ==
    /\ spec.host = "given" => stored.host = "given" /\ (pc # "idle" => local.host = "given")
    /\ spec.host # "given" =>
         /\ stored.host # "given" /\ stored.lb # "given"
         /\ local.host # "given" /\ local.lb # "given"
    /\ pc # "idle" /\ stored.host # NoLB => local.host = stored.host
    /\ pc \in {"lb", "createLB"} => local.host = NoLB

\* The finalizer is dropped in memory, at the end of a deletion, before it is
\* dropped for good.
FinalizerInv ==
    /\ phase = "deleting" => stored.finalizer
    /\ pc # "idle" => stored.finalizer
    /\ pc \notin {"idle", "patch"} => local.finalizer
    /\ pc = "patch" /\ ~local.finalizer => phase = "deleting"

\* A deletion works on what was persisted.
DeletionInv ==
    pc \in DeletePcs =>
        /\ phase = "deleting"
        /\ local.vpc = stored.vpc /\ local.host = stored.host /\ local.lb = stored.lb
        /\ pc \in {"instances", "findLB"} => local.lbState = stored.lbState
        /\ pc = "deleteLB" => local.host = "own"

\* Only the controller's own load balancer is ever deleted, and once it was
\* seen in deletion it does not come back.
WaitInv ==
    /\ lbs["given"] # "delete_pending"
    /\ \/ lbs["own"] = "delete_pending" \/ stored.lbState = "delete_pending"
       \/ local.lbState = "delete_pending"
       => stored.host = "own"
    /\ stored.lbState = "delete_pending" \/ local.lbState = "delete_pending"
       => lbs["own"] \in {"delete_pending", "absent"}

\* The network goes after the load balancer, and the finalizer after both.
OrderInv ==
    /\ pc \in NetworkPcs /\ local.lb # NoLB => lbs["own"] = "absent"
    /\ /\ pc = "patch" /\ ~local.finalizer
       /\ stored.host = "own" /\ stored.vpc /\ stored.lb # NoLB
       /\ stored.lbState = "delete_pending"
       => ~NetworkLeft

VPCInv == TypeOK /\ EndpointInv /\ FinalizerInv /\ DeletionInv /\ WaitInv /\ OrderInv

\* The fields of the copy that the invariant is about.
SameCopy ==
    /\ local'.host = local.host /\ local'.lb = local.lb /\ local'.lbState = local.lbState
    /\ local'.vpc = local.vpc /\ local'.finalizer = local.finalizer

\* What the steps that build the VPC and the subnet have in common.
Builds ==
    /\ pc \notin {"idle", "patch", "lb", "createLB"} \cup DeletePcs
    /\ pc' \notin {"idle", "createLB"} \cup DeletePcs
    /\ pc' = "lb" => local.host = NoLB
    /\ local'.host = local.host /\ local'.lb = local.lb /\ local'.lbState = local.lbState
    /\ local'.finalizer = local.finalizer
    /\ UNCHANGED <<lbs, spec, stored, phase>>

\* What the steps that take the subnet and its gateway down have in common.
Dismantles ==
    /\ pc \in NetworkPcs /\ pc' \in NetworkPcs \cup {"patch"}
    /\ SameCopy
    /\ UNCHANGED <<lbs, spec, stored, phase>>

\* FindVPC builds.
LEMMA FindVPCBuilds ==
    ASSUME TypeOK, FindVPC
    PROVE  Builds
BY DEF TypeOK, ControllerTypeOK, ObjectType, Builds, DeletePcs, Fails, FindVPC,
       VPCFound, VPCFailed, AfterVPC, AfterSubnet, networkVars, cloudVars, apiVars

\* CreateVPC builds.
LEMMA CreateVPCBuilds ==
    ASSUME TypeOK, CreateVPC
    PROVE  Builds
BY DEF TypeOK, ControllerTypeOK, ObjectType, Builds, DeletePcs, Fails, CreateVPC,
       VPCFailed, networkVars, cloudVars, apiVars

\* UpdateDefaultSG builds.
LEMMA UpdateDefaultSGBuilds ==
    ASSUME TypeOK, UpdateDefaultSG
    PROVE  Builds
BY DEF TypeOK, ControllerTypeOK, ObjectType, Builds, DeletePcs, Fails,
       UpdateDefaultSG, VPCFound, VPCFailed, AfterVPC, AfterSubnet, networkVars,
       cloudVars, apiVars

\* FindSubnet builds.
LEMMA FindSubnetBuilds ==
    ASSUME TypeOK, FindSubnet
    PROVE  Builds
BY DEF TypeOK, ControllerTypeOK, ObjectType, Builds, DeletePcs, Fails, FindSubnet,
       SubnetFound, SubnetFailed, AfterSubnet, networkVars, cloudVars, apiVars

\* CreateSubnet builds.
LEMMA CreateSubnetBuilds ==
    ASSUME TypeOK, CreateSubnet
    PROVE  Builds
BY DEF TypeOK, ControllerTypeOK, ObjectType, Builds, DeletePcs, Fails, CreateSubnet,
       SubnetFailed, networkVars, cloudVars, apiVars

\* CreatePublicGateWay builds.
LEMMA CreatePublicGateWayBuilds ==
    ASSUME TypeOK, CreatePublicGateWay
    PROVE  Builds
BY DEF TypeOK, ControllerTypeOK, ObjectType, Builds, DeletePcs, Fails,
       CreatePublicGateWay, SubnetFailed, networkVars, cloudVars, apiVars

\* AttachPublicGateWay builds.
LEMMA AttachPublicGateWayBuilds ==
    ASSUME TypeOK, AttachPublicGateWay
    PROVE  Builds
BY DEF TypeOK, ControllerTypeOK, ObjectType, Builds, DeletePcs, Fails,
       AttachPublicGateWay, SubnetFound, SubnetFailed, AfterSubnet, networkVars,
       cloudVars, apiVars

\* FindSubnetToDelete dismantles.
LEMMA FindSubnetToDeleteDismantles ==
    ASSUME TypeOK, FindSubnetToDelete
    PROVE  Dismantles
BY DEF TypeOK, ControllerTypeOK, ObjectType, Dismantles, SameCopy, NetworkPcs,
       DeletePcs, Fails, FindSubnetToDelete, SubnetFailed, networkVars, cloudVars,
       apiVars

\* GetSubnetPublicGateway dismantles.
LEMMA GetSubnetPublicGatewayDismantles ==
    ASSUME TypeOK, GetSubnetPublicGateway
    PROVE  Dismantles
BY DEF TypeOK, ControllerTypeOK, ObjectType, Dismantles, SameCopy, NetworkPcs,
       DeletePcs, Fails, GetSubnetPublicGateway, networkVars, cloudVars, apiVars

\* UnsetPublicGateway dismantles.
LEMMA UnsetPublicGatewayDismantles ==
    ASSUME TypeOK, UnsetPublicGateway
    PROVE  Dismantles
BY DEF TypeOK, ControllerTypeOK, ObjectType, Dismantles, SameCopy, NetworkPcs,
       DeletePcs, Fails, UnsetPublicGateway, networkVars, cloudVars, apiVars

\* DeletePublicGateway dismantles.
LEMMA DeletePublicGatewayDismantles ==
    ASSUME TypeOK, DeletePublicGateway
    PROVE  Dismantles
BY DEF TypeOK, ControllerTypeOK, ObjectType, Dismantles, SameCopy, NetworkPcs,
       DeletePcs, Fails, DeletePublicGateway, networkVars, cloudVars, apiVars

\* DeleteSubnet dismantles.
LEMMA DeleteSubnetDismantles ==
    ASSUME TypeOK, DeleteSubnet
    PROVE  Dismantles
BY DEF TypeOK, ControllerTypeOK, ObjectType, Dismantles, SameCopy, NetworkPcs,
       DeletePcs, Fails, DeleteSubnet, networkVars, cloudVars, apiVars

\* The load balancers, the machines and the gates.
LEMMA EnvironmentInv ==
    ASSUME VPCInv, TypeOK', Environment \/ TogglePause
    PROVE  VPCInv'
<1>1. EndpointInv'
  BY SpecAssumption DEF VPCInv, EndpointInv, DeletionInv, TypeOK, CloudTypeOK,
         ApiTypeOK, ControllerTypeOK, ObjectType, DeletePcs, NetworkPcs, NetworkLeft,
         VPCInUse, LBs, LBStates, NoLB, SpecType, Environment, LBProgress, LBUpdates,
         StartInstances, StopInstances, SetOwner, TogglePause, networkVars, cloudVars,
         apiVars, ctlVars
<1>2. FinalizerInv'
  BY SpecAssumption DEF VPCInv, FinalizerInv, DeletionInv, TypeOK, CloudTypeOK,
         ApiTypeOK, ControllerTypeOK, ObjectType, DeletePcs, NetworkPcs, NetworkLeft,
         VPCInUse, LBs, LBStates, NoLB, SpecType, Environment, LBProgress, LBUpdates,
         StartInstances, StopInstances, SetOwner, TogglePause, networkVars, cloudVars,
         apiVars, ctlVars
<1>3. DeletionInv'
  BY SpecAssumption DEF VPCInv, DeletionInv, TypeOK, CloudTypeOK, ApiTypeOK,
         ControllerTypeOK, ObjectType, DeletePcs, NetworkPcs, NetworkLeft, VPCInUse,
         LBs, LBStates, NoLB, SpecType, Environment, LBProgress, LBUpdates,
         StartInstances, StopInstances, SetOwner, TogglePause, networkVars, cloudVars,
         apiVars, ctlVars
<1>4. WaitInv'
  BY SpecAssumption DEF VPCInv, WaitInv, EndpointInv, DeletionInv, TypeOK,
         CloudTypeOK, ApiTypeOK, ControllerTypeOK, ObjectType, DeletePcs, NetworkPcs,
         NetworkLeft, VPCInUse, LBs, LBStates, NoLB, SpecType, Environment,
         LBProgress, LBUpdates, StartInstances, StopInstances, SetOwner, TogglePause,
         networkVars, cloudVars, apiVars, ctlVars
<1>5. OrderInv'
  BY SpecAssumption DEF VPCInv, OrderInv, WaitInv, EndpointInv, DeletionInv,
         FinalizerInv, TypeOK, CloudTypeOK, ApiTypeOK, ControllerTypeOK, ObjectType,
         DeletePcs, NetworkPcs, NetworkLeft, VPCInUse, LBs, LBStates, NoLB, SpecType,
         Environment, LBProgress, LBUpdates, StartInstances, StopInstances, SetOwner,
         TogglePause, networkVars, cloudVars, apiVars, ctlVars
<1>. QED BY <1>1, <1>2, <1>3, <1>4, <1>5 DEF VPCInv

\* The deletion request, and a reconcile that does nothing.
LEMMA DeleteObjectInv ==
    ASSUME VPCInv, TypeOK', DeleteObject \/ ReconcileReturns
    PROVE  VPCInv'
<1>1. EndpointInv'
  BY SpecAssumption DEF VPCInv, EndpointInv, DeletionInv, TypeOK, CloudTypeOK,
         ApiTypeOK, ControllerTypeOK, ObjectType, DeletePcs, NetworkPcs, NetworkLeft,
         VPCInUse, LBs, LBStates, NoLB, SpecType, DeleteObject, ReconcileReturns,
         vars, networkVars, cloudVars, apiVars, ctlVars
<1>2. FinalizerInv'
  BY SpecAssumption DEF VPCInv, FinalizerInv, DeletionInv, TypeOK, CloudTypeOK,
         ApiTypeOK, ControllerTypeOK, ObjectType, DeletePcs, NetworkPcs, NetworkLeft,
         VPCInUse, LBs, LBStates, NoLB, SpecType, DeleteObject, ReconcileReturns,
         vars, networkVars, cloudVars, apiVars, ctlVars
<1>3. DeletionInv'
  BY SpecAssumption DEF VPCInv, DeletionInv, TypeOK, CloudTypeOK, ApiTypeOK,
         ControllerTypeOK, ObjectType, DeletePcs, NetworkPcs, NetworkLeft, VPCInUse,
         LBs, LBStates, NoLB, SpecType, DeleteObject, ReconcileReturns, vars,
         networkVars, cloudVars, apiVars, ctlVars
<1>4. WaitInv'
  BY SpecAssumption DEF VPCInv, WaitInv, EndpointInv, DeletionInv, TypeOK,
         CloudTypeOK, ApiTypeOK, ControllerTypeOK, ObjectType, DeletePcs, NetworkPcs,
         NetworkLeft, VPCInUse, LBs, LBStates, NoLB, SpecType, DeleteObject,
         ReconcileReturns, vars, networkVars, cloudVars, apiVars, ctlVars
<1>5. OrderInv'
  BY SpecAssumption DEF VPCInv, OrderInv, WaitInv, EndpointInv, DeletionInv,
         FinalizerInv, TypeOK, CloudTypeOK, ApiTypeOK, ControllerTypeOK, ObjectType,
         DeletePcs, NetworkPcs, NetworkLeft, VPCInUse, LBs, LBStates, NoLB, SpecType,
         DeleteObject, ReconcileReturns, vars, networkVars, cloudVars, apiVars,
         ctlVars
<1>. QED BY <1>1, <1>2, <1>3, <1>4, <1>5 DEF VPCInv

\* The finalizer.
LEMMA EnsureFinalizerInv ==
    ASSUME VPCInv, TypeOK', EnsureFinalizer
    PROVE  VPCInv'
<1>1. EndpointInv'
  BY SpecAssumption DEF VPCInv, EndpointInv, DeletionInv, TypeOK, CloudTypeOK,
         ApiTypeOK, ControllerTypeOK, ObjectType, DeletePcs, NetworkPcs, NetworkLeft,
         VPCInUse, LBs, LBStates, NoLB, SpecType, EnsureFinalizer, networkVars,
         cloudVars, apiVars, ctlVars
<1>2. FinalizerInv'
  BY SpecAssumption DEF VPCInv, FinalizerInv, DeletionInv, TypeOK, CloudTypeOK,
         ApiTypeOK, ControllerTypeOK, ObjectType, DeletePcs, NetworkPcs, NetworkLeft,
         VPCInUse, LBs, LBStates, NoLB, SpecType, EnsureFinalizer, networkVars,
         cloudVars, apiVars, ctlVars
<1>3. DeletionInv'
  BY SpecAssumption DEF VPCInv, DeletionInv, TypeOK, CloudTypeOK, ApiTypeOK,
         ControllerTypeOK, ObjectType, DeletePcs, NetworkPcs, NetworkLeft, VPCInUse,
         LBs, LBStates, NoLB, SpecType, EnsureFinalizer, networkVars, cloudVars,
         apiVars, ctlVars
<1>4. WaitInv'
  BY SpecAssumption DEF VPCInv, WaitInv, EndpointInv, DeletionInv, TypeOK,
         CloudTypeOK, ApiTypeOK, ControllerTypeOK, ObjectType, DeletePcs, NetworkPcs,
         NetworkLeft, VPCInUse, LBs, LBStates, NoLB, SpecType, EnsureFinalizer,
         networkVars, cloudVars, apiVars, ctlVars
<1>5. OrderInv'
  BY SpecAssumption DEF VPCInv, OrderInv, WaitInv, EndpointInv, DeletionInv,
         FinalizerInv, TypeOK, CloudTypeOK, ApiTypeOK, ControllerTypeOK, ObjectType,
         DeletePcs, NetworkPcs, NetworkLeft, VPCInUse, LBs, LBStates, NoLB, SpecType,
         EnsureFinalizer, networkVars, cloudVars, apiVars, ctlVars
<1>. QED BY <1>1, <1>2, <1>3, <1>4, <1>5 DEF VPCInv

\* A reconcile starts from the persisted object.
LEMMA StartReconcileInv ==
    ASSUME VPCInv, TypeOK', StartReconcile
    PROVE  VPCInv'
<1>1. EndpointInv'
  BY SpecAssumption DEF VPCInv, EndpointInv, DeletionInv, TypeOK, CloudTypeOK,
         ApiTypeOK, ControllerTypeOK, ObjectType, DeletePcs, NetworkPcs, NetworkLeft,
         VPCInUse, LBs, LBStates, NoLB, SpecType, StartReconcile, networkVars,
         cloudVars, apiVars, ctlVars
<1>2. FinalizerInv'
  BY SpecAssumption DEF VPCInv, FinalizerInv, DeletionInv, TypeOK, CloudTypeOK,
         ApiTypeOK, ControllerTypeOK, ObjectType, DeletePcs, NetworkPcs, NetworkLeft,
         VPCInUse, LBs, LBStates, NoLB, SpecType, StartReconcile, networkVars,
         cloudVars, apiVars, ctlVars
<1>3. DeletionInv'
  BY SpecAssumption DEF VPCInv, DeletionInv, TypeOK, CloudTypeOK, ApiTypeOK,
         ControllerTypeOK, ObjectType, DeletePcs, NetworkPcs, NetworkLeft, VPCInUse,
         LBs, LBStates, NoLB, SpecType, StartReconcile, networkVars, cloudVars,
         apiVars, ctlVars
<1>4. WaitInv'
  BY SpecAssumption DEF VPCInv, WaitInv, EndpointInv, DeletionInv, TypeOK,
         CloudTypeOK, ApiTypeOK, ControllerTypeOK, ObjectType, DeletePcs, NetworkPcs,
         NetworkLeft, VPCInUse, LBs, LBStates, NoLB, SpecType, StartReconcile,
         networkVars, cloudVars, apiVars, ctlVars
<1>5. OrderInv'
  BY SpecAssumption DEF VPCInv, OrderInv, WaitInv, EndpointInv, DeletionInv,
         FinalizerInv, TypeOK, CloudTypeOK, ApiTypeOK, ControllerTypeOK, ObjectType,
         DeletePcs, NetworkPcs, NetworkLeft, VPCInUse, LBs, LBStates, NoLB, SpecType,
         StartReconcile, networkVars, cloudVars, apiVars, ctlVars
<1>. QED BY <1>1, <1>2, <1>3, <1>4, <1>5 DEF VPCInv

\* Building the network.
LEMMA BuildsInv ==
    ASSUME VPCInv, TypeOK', Builds
    PROVE  VPCInv'
<1>1. EndpointInv'
  BY SpecAssumption DEF VPCInv, EndpointInv, DeletionInv, TypeOK, CloudTypeOK,
         ApiTypeOK, ControllerTypeOK, ObjectType, DeletePcs, NetworkPcs, NetworkLeft,
         VPCInUse, LBs, LBStates, NoLB, SpecType, Builds, networkVars, cloudVars,
         apiVars, ctlVars
<1>2. FinalizerInv'
  BY SpecAssumption DEF VPCInv, FinalizerInv, DeletionInv, TypeOK, CloudTypeOK,
         ApiTypeOK, ControllerTypeOK, ObjectType, DeletePcs, NetworkPcs, NetworkLeft,
         VPCInUse, LBs, LBStates, NoLB, SpecType, Builds, networkVars, cloudVars,
         apiVars, ctlVars
<1>3. DeletionInv'
  BY SpecAssumption DEF VPCInv, DeletionInv, TypeOK, CloudTypeOK, ApiTypeOK,
         ControllerTypeOK, ObjectType, DeletePcs, NetworkPcs, NetworkLeft, VPCInUse,
         LBs, LBStates, NoLB, SpecType, Builds, networkVars, cloudVars, apiVars,
         ctlVars
<1>4. WaitInv'
  BY SpecAssumption DEF VPCInv, WaitInv, EndpointInv, DeletionInv, TypeOK,
         CloudTypeOK, ApiTypeOK, ControllerTypeOK, ObjectType, DeletePcs, NetworkPcs,
         NetworkLeft, VPCInUse, LBs, LBStates, NoLB, SpecType, Builds, networkVars,
         cloudVars, apiVars, ctlVars
<1>5. OrderInv'
  BY SpecAssumption DEF VPCInv, OrderInv, WaitInv, EndpointInv, DeletionInv,
         FinalizerInv, TypeOK, CloudTypeOK, ApiTypeOK, ControllerTypeOK, ObjectType,
         DeletePcs, NetworkPcs, NetworkLeft, VPCInUse, LBs, LBStates, NoLB, SpecType,
         Builds, networkVars, cloudVars, apiVars, ctlVars
<1>. QED BY <1>1, <1>2, <1>3, <1>4, <1>5 DEF VPCInv

\* Taking the network down.
LEMMA DismantlesInv ==
    ASSUME VPCInv, TypeOK', Dismantles
    PROVE  VPCInv'
<1>1. EndpointInv'
  BY SpecAssumption DEF VPCInv, EndpointInv, DeletionInv, TypeOK, CloudTypeOK,
         ApiTypeOK, ControllerTypeOK, ObjectType, DeletePcs, NetworkPcs, NetworkLeft,
         VPCInUse, LBs, LBStates, NoLB, SpecType, Dismantles, SameCopy, networkVars,
         cloudVars, apiVars, ctlVars
<1>2. FinalizerInv'
  BY SpecAssumption DEF VPCInv, FinalizerInv, DeletionInv, TypeOK, CloudTypeOK,
         ApiTypeOK, ControllerTypeOK, ObjectType, DeletePcs, NetworkPcs, NetworkLeft,
         VPCInUse, LBs, LBStates, NoLB, SpecType, Dismantles, SameCopy, networkVars,
         cloudVars, apiVars, ctlVars
<1>3. DeletionInv'
  BY SpecAssumption DEF VPCInv, DeletionInv, TypeOK, CloudTypeOK, ApiTypeOK,
         ControllerTypeOK, ObjectType, DeletePcs, NetworkPcs, NetworkLeft, VPCInUse,
         LBs, LBStates, NoLB, SpecType, Dismantles, SameCopy, networkVars, cloudVars,
         apiVars, ctlVars
<1>4. WaitInv'
  BY SpecAssumption DEF VPCInv, WaitInv, EndpointInv, DeletionInv, TypeOK,
         CloudTypeOK, ApiTypeOK, ControllerTypeOK, ObjectType, DeletePcs, NetworkPcs,
         NetworkLeft, VPCInUse, LBs, LBStates, NoLB, SpecType, Dismantles, SameCopy,
         networkVars, cloudVars, apiVars, ctlVars
<1>5. OrderInv'
  BY SpecAssumption DEF VPCInv, OrderInv, WaitInv, EndpointInv, DeletionInv,
         FinalizerInv, TypeOK, CloudTypeOK, ApiTypeOK, ControllerTypeOK, ObjectType,
         DeletePcs, NetworkPcs, NetworkLeft, VPCInUse, LBs, LBStates, NoLB, SpecType,
         Dismantles, SameCopy, networkVars, cloudVars, apiVars, ctlVars
<1>. QED BY <1>1, <1>2, <1>3, <1>4, <1>5 DEF VPCInv

\* GetLoadBalancerByHostname.
LEMMA GetLoadBalancerByHostnameInv ==
    ASSUME VPCInv, TypeOK', GetLoadBalancerByHostname
    PROVE  VPCInv'
<1>. DEFINE Effect ==
       /\ pc = "host" /\ pc' \in {"vpc", "patch"}
       /\ local'.host = local.host /\ local'.finalizer = local.finalizer
       /\ \/ local'.lb = local.lb /\ local'.lbState = local.lbState
          \/ /\ local.host \in LBs
             /\ local'.lb = local.host /\ local'.lbState = lbs[local.host]
       /\ UNCHANGED <<lbs, spec, stored, phase>>
<1>0. Effect
  BY DEF VPCInv, TypeOK, CloudTypeOK, ControllerTypeOK, ObjectType, LBs, LBStates,
         GetLoadBalancerByHostname, Fails, ReconcileLBState, networkVars, cloudVars,
         apiVars
<1>. HIDE DEF Effect
<1>1. EndpointInv'
  BY <1>0 DEF Effect, VPCInv, EndpointInv, DeletionInv, DeletePcs, NetworkPcs,
         NetworkLeft, LBs, NoLB
<1>2. FinalizerInv'
  BY <1>0 DEF Effect, VPCInv, FinalizerInv, DeletionInv, DeletePcs, NetworkPcs,
         NetworkLeft, LBs, NoLB
<1>3. DeletionInv'
  BY <1>0 DEF Effect, VPCInv, DeletionInv, DeletePcs, NetworkPcs, NetworkLeft, LBs,
         NoLB
<1>4. WaitInv'
  BY <1>0 DEF Effect, VPCInv, WaitInv, EndpointInv, DeletionInv, DeletePcs,
         NetworkPcs, NetworkLeft, LBs, NoLB
<1>5. OrderInv'
  BY <1>0 DEF Effect, VPCInv, OrderInv, WaitInv, EndpointInv, DeletionInv,
         FinalizerInv, DeletePcs, NetworkPcs, NetworkLeft, LBs, NoLB
<1>. QED BY <1>1, <1>2, <1>3, <1>4, <1>5 DEF VPCInv

\* FindLoadBalancer.
LEMMA FindLoadBalancerInv ==
    ASSUME VPCInv, TypeOK', FindLoadBalancer
    PROVE  VPCInv'
<1>. DEFINE Effect ==
       /\ pc = "lb" /\ pc' \in {"createLB", "patch"}
       /\ local'.finalizer = local.finalizer
       /\ \/ local'.host = local.host /\ local'.lb = local.lb /\ local'.lbState = local.lbState
          \/ /\ local'.host = "own" /\ local'.lb = "own" /\ local'.lbState = lbs["own"]
             /\ pc' = "patch"
       /\ UNCHANGED <<lbs, spec, stored, phase>>
<1>0. Effect
  <2>1. local \in ObjectType
    BY DEF VPCInv, TypeOK, ControllerTypeOK
  <2>. DEFINE o == [local EXCEPT !.host = "own"]
              f == ReconcileLBState(o, "own")
  <2>2. o \in ObjectType /\ o.host = "own" /\ o.finalizer = local.finalizer
    BY <2>1 DEF ObjectType, LBs
  <2>3. /\ f.host = o.host /\ f.finalizer = o.finalizer
        /\ f.lb = "own" /\ f.lbState = lbs["own"]
    <3>. HIDE DEF o
    <3>. QED BY <2>2 DEF ReconcileLBState, ObjectType
  <2>4. local' = local \/ (local' = f /\ pc' = "patch")
    BY DEF FindLoadBalancer, Fails
  <2>5. /\ pc = "lb" /\ pc' \in {"createLB", "patch"}
        /\ UNCHANGED <<lbs, spec, stored, phase>>
    BY DEF FindLoadBalancer, Fails, cloudVars, apiVars
  <2>. HIDE DEF f
  <2>. QED BY <2>2, <2>3, <2>4, <2>5
<1>. HIDE DEF Effect
<1>1. EndpointInv'
  BY <1>0 DEF Effect, VPCInv, EndpointInv, DeletionInv, DeletePcs, NetworkPcs,
         NetworkLeft, LBs, NoLB
<1>2. FinalizerInv'
  BY <1>0 DEF Effect, VPCInv, FinalizerInv, DeletionInv, DeletePcs, NetworkPcs,
         NetworkLeft, LBs, NoLB
<1>3. DeletionInv'
  BY <1>0 DEF Effect, VPCInv, DeletionInv, DeletePcs, NetworkPcs, NetworkLeft, LBs,
         NoLB
<1>4. WaitInv'
  BY <1>0 DEF Effect, VPCInv, WaitInv, EndpointInv, DeletionInv, DeletePcs,
         NetworkPcs, NetworkLeft, LBs, NoLB
<1>5. OrderInv'
  BY <1>0 DEF Effect, VPCInv, OrderInv, WaitInv, EndpointInv, DeletionInv,
         FinalizerInv, DeletePcs, NetworkPcs, NetworkLeft, LBs, NoLB
<1>. QED BY <1>1, <1>2, <1>3, <1>4, <1>5 DEF VPCInv

\* CreateLoadBalancer.
LEMMA CreateLoadBalancerInv ==
    ASSUME VPCInv, TypeOK', CreateLoadBalancer
    PROVE  VPCInv'
<1>. DEFINE Effect ==
       /\ pc = "createLB" /\ pc' = "patch"
       /\ local'.finalizer = local.finalizer
       /\ \/ local'.host = local.host /\ local'.lb = local.lb /\ local'.lbState = local.lbState
          \/ local'.host = "own" /\ local'.lb = "own" /\ local'.lbState = "create_pending"
       /\ lbs'["given"] = lbs["given"]
       /\ lbs'["own"] = lbs["own"] \/ lbs'["own"] = "create_pending"
       /\ UNCHANGED <<spec, stored, phase>>
<1>0. Effect
  <2>1. local \in ObjectType /\ lbs \in [LBs -> LBStates]
    BY DEF VPCInv, TypeOK, CloudTypeOK, ControllerTypeOK
  <2>. DEFINE f == [local EXCEPT !.host = "own", !.lb = "own", !.ready = FALSE,
                        !.lbState = "create_pending", !.lbReady = "false"]
              c == [lbs EXCEPT !["own"] = "create_pending"]
  <2>2. /\ f.host = "own" /\ f.lb = "own" /\ f.lbState = "create_pending"
        /\ f.finalizer = local.finalizer
    BY <2>1 DEF ObjectType
  <2>3. c["own"] = "create_pending" /\ c["given"] = lbs["given"]
    BY <2>1 DEF LBs
  <2>4. /\ pc = "createLB" /\ pc' = "patch" /\ UNCHANGED <<spec, stored, phase>>
        /\ local' = local \/ local' = f
        /\ lbs' = lbs \/ lbs' = c
    BY DEF CreateLoadBalancer, apiVars
  <2>. HIDE DEF f, c
  <2>. QED BY <2>2, <2>3, <2>4
<1>. HIDE DEF Effect
<1>1. EndpointInv'
  BY <1>0 DEF Effect, VPCInv, EndpointInv, DeletionInv, DeletePcs, NetworkPcs,
         NetworkLeft, LBs, NoLB
<1>2. FinalizerInv'
  BY <1>0 DEF Effect, VPCInv, FinalizerInv, DeletionInv, DeletePcs, NetworkPcs,
         NetworkLeft, LBs, NoLB
<1>3. DeletionInv'
  BY <1>0 DEF Effect, VPCInv, DeletionInv, DeletePcs, NetworkPcs, NetworkLeft, LBs,
         NoLB
<1>4. WaitInv'
  BY <1>0 DEF Effect, VPCInv, WaitInv, EndpointInv, DeletionInv, DeletePcs,
         NetworkPcs, NetworkLeft, LBs, NoLB
<1>5. OrderInv'
  BY <1>0 DEF Effect, VPCInv, OrderInv, WaitInv, EndpointInv, DeletionInv,
         FinalizerInv, DeletePcs, NetworkPcs, NetworkLeft, LBs, NoLB
<1>. QED BY <1>1, <1>2, <1>3, <1>4, <1>5 DEF VPCInv

\* ListInstances.
LEMMA ListInstancesInv ==
    ASSUME VPCInv, TypeOK', ListInstances
    PROVE  VPCInv'
<1>1. EndpointInv'
  BY SpecAssumption DEF VPCInv, EndpointInv, DeletionInv, TypeOK, CloudTypeOK,
         ApiTypeOK, ControllerTypeOK, ObjectType, DeletePcs, NetworkPcs, NetworkLeft,
         VPCInUse, LBs, LBStates, NoLB, SpecType, ListInstances, Fails, Finalized,
         networkVars, cloudVars, apiVars, ctlVars
<1>2. FinalizerInv'
  BY SpecAssumption DEF VPCInv, FinalizerInv, DeletionInv, TypeOK, CloudTypeOK,
         ApiTypeOK, ControllerTypeOK, ObjectType, DeletePcs, NetworkPcs, NetworkLeft,
         VPCInUse, LBs, LBStates, NoLB, SpecType, ListInstances, Fails, Finalized,
         networkVars, cloudVars, apiVars, ctlVars
<1>3. DeletionInv'
  BY SpecAssumption DEF VPCInv, DeletionInv, TypeOK, CloudTypeOK, ApiTypeOK,
         ControllerTypeOK, ObjectType, DeletePcs, NetworkPcs, NetworkLeft, VPCInUse,
         LBs, LBStates, NoLB, SpecType, ListInstances, Fails, Finalized, networkVars,
         cloudVars, apiVars, ctlVars
<1>4. WaitInv'
  BY SpecAssumption DEF VPCInv, WaitInv, EndpointInv, DeletionInv, TypeOK,
         CloudTypeOK, ApiTypeOK, ControllerTypeOK, ObjectType, DeletePcs, NetworkPcs,
         NetworkLeft, VPCInUse, LBs, LBStates, NoLB, SpecType, ListInstances, Fails,
         Finalized, networkVars, cloudVars, apiVars, ctlVars
<1>5. OrderInv'
  BY SpecAssumption DEF VPCInv, OrderInv, WaitInv, EndpointInv, DeletionInv,
         FinalizerInv, TypeOK, CloudTypeOK, ApiTypeOK, ControllerTypeOK, ObjectType,
         DeletePcs, NetworkPcs, NetworkLeft, VPCInUse, LBs, LBStates, NoLB, SpecType,
         ListInstances, Fails, Finalized, networkVars, cloudVars, apiVars, ctlVars
<1>. QED BY <1>1, <1>2, <1>3, <1>4, <1>5 DEF VPCInv

\* FindLoadBalancerToDelete.
LEMMA FindLoadBalancerToDeleteInv ==
    ASSUME VPCInv, TypeOK', FindLoadBalancerToDelete
    PROVE  VPCInv'
<1>. DEFINE Effect ==
       /\ pc = "findLB" /\ pc' \in {"deleteLB", "findSubnet", "patch"}
       /\ local'.host = local.host /\ local'.lb = local.lb /\ local'.vpc = local.vpc
       /\ local'.finalizer = local.finalizer \/ pc' = "patch"
       /\ \/ local'.lbState = local.lbState
          \/ local.host \in LBs /\ local'.lbState = lbs[local.host]
       /\ pc' = "deleteLB" => local.host = "own"
       /\ pc' = "findSubnet" =>
            /\ local.lbState = "delete_pending"
            /\ local.host = NoLB \/ lbs[local.host] = "absent"
       /\ pc' = "patch" /\ ~local'.finalizer /\ local.host = "own"
            => ~local.finalizer \/ local.lbState # "delete_pending"
       /\ UNCHANGED <<lbs, spec, stored, phase>>
<1>0. Effect
  <2>1. local \in ObjectType
    BY DEF VPCInv, TypeOK, ControllerTypeOK
  <2>. DEFINE o == [local EXCEPT !.lbState = lbs[local.host]]
              d == [o EXCEPT !.lbReady = "false"]
  <2>2. /\ o.host = local.host /\ o.lb = local.lb /\ o.vpc = local.vpc
        /\ o.finalizer = local.finalizer /\ o.lbState = lbs[local.host]
        /\ d.host = local.host /\ d.lb = local.lb /\ d.vpc = local.vpc
        /\ d.finalizer = local.finalizer /\ d.lbState = lbs[local.host]
    BY <2>1 DEF ObjectType
  <2>3. /\ Finalized(o).host = local.host /\ Finalized(o).lb = local.lb
        /\ Finalized(o).vpc = local.vpc /\ Finalized(o).lbState = lbs[local.host]
        /\ Finalized(local).host = local.host /\ Finalized(local).lb = local.lb
        /\ Finalized(local).vpc = local.vpc /\ Finalized(local).lbState = local.lbState
    BY <2>1 DEF ObjectType, Finalized
  <2>4. /\ pc = "findLB" /\ UNCHANGED <<lbs, spec, stored, phase>>
        /\ \/ local' = local /\ pc' = "patch"
           \/ /\ local' = local /\ pc' = "findSubnet" /\ local.lbState = "delete_pending"
              /\ local.host = NoLB \/ lbs[local.host] = "absent"
           \/ /\ local' = Finalized(local) /\ pc' = "patch"
              /\ local.lbState # "delete_pending"
           \/ /\ local.host # NoLB /\ local.host # "own"
              /\ local' = Finalized(o) /\ pc' = "patch"
           \/ local.host = "own" /\ local' = d /\ pc' = "deleteLB"
    BY DEF FindLoadBalancerToDelete, Fails, cloudVars, apiVars, NoLB
  <2>5. local.host # NoLB => local.host \in LBs
    BY <2>1 DEF ObjectType
  <2>. HIDE DEF o, d
  <2>. QED BY <2>2, <2>3, <2>4, <2>5 DEF NoLB, LBs
<1>. HIDE DEF Effect
<1>1. EndpointInv'
  BY <1>0 DEF Effect, VPCInv, EndpointInv, DeletionInv, DeletePcs, NetworkPcs,
         NetworkLeft, LBs, NoLB
<1>2. FinalizerInv'
  BY <1>0 DEF Effect, VPCInv, FinalizerInv, DeletionInv, DeletePcs, NetworkPcs,
         NetworkLeft, LBs, NoLB
<1>3. DeletionInv'
  BY <1>0 DEF Effect, VPCInv, DeletionInv, DeletePcs, NetworkPcs, NetworkLeft, LBs,
         NoLB
<1>4. WaitInv'
  BY <1>0 DEF Effect, VPCInv, WaitInv, EndpointInv, DeletionInv, DeletePcs,
         NetworkPcs, NetworkLeft, LBs, NoLB
<1>5. OrderInv'
  BY <1>0 DEF Effect, VPCInv, OrderInv, WaitInv, EndpointInv, DeletionInv,
         FinalizerInv, DeletePcs, NetworkPcs, NetworkLeft, LBs, NoLB
<1>. QED BY <1>1, <1>2, <1>3, <1>4, <1>5 DEF VPCInv

\* DeleteLoadBalancer.
LEMMA DeleteLoadBalancerInv ==
    ASSUME VPCInv, TypeOK', DeleteLoadBalancer
    PROVE  VPCInv'
<1>1. EndpointInv'
  BY SpecAssumption DEF VPCInv, EndpointInv, DeletionInv, TypeOK, CloudTypeOK,
         ApiTypeOK, ControllerTypeOK, ObjectType, DeletePcs, NetworkPcs, NetworkLeft,
         VPCInUse, LBs, LBStates, NoLB, SpecType, DeleteLoadBalancer, Fails,
         networkVars, cloudVars, apiVars, ctlVars
<1>2. FinalizerInv'
  BY SpecAssumption DEF VPCInv, FinalizerInv, DeletionInv, TypeOK, CloudTypeOK,
         ApiTypeOK, ControllerTypeOK, ObjectType, DeletePcs, NetworkPcs, NetworkLeft,
         VPCInUse, LBs, LBStates, NoLB, SpecType, DeleteLoadBalancer, Fails,
         networkVars, cloudVars, apiVars, ctlVars
<1>3. DeletionInv'
  BY SpecAssumption DEF VPCInv, DeletionInv, TypeOK, CloudTypeOK, ApiTypeOK,
         ControllerTypeOK, ObjectType, DeletePcs, NetworkPcs, NetworkLeft, VPCInUse,
         LBs, LBStates, NoLB, SpecType, DeleteLoadBalancer, Fails, networkVars,
         cloudVars, apiVars, ctlVars
<1>4. WaitInv'
  BY SpecAssumption DEF VPCInv, WaitInv, EndpointInv, DeletionInv, TypeOK,
         CloudTypeOK, ApiTypeOK, ControllerTypeOK, ObjectType, DeletePcs, NetworkPcs,
         NetworkLeft, VPCInUse, LBs, LBStates, NoLB, SpecType, DeleteLoadBalancer,
         Fails, networkVars, cloudVars, apiVars, ctlVars
<1>5. OrderInv'
  BY SpecAssumption DEF VPCInv, OrderInv, WaitInv, EndpointInv, DeletionInv,
         FinalizerInv, TypeOK, CloudTypeOK, ApiTypeOK, ControllerTypeOK, ObjectType,
         DeletePcs, NetworkPcs, NetworkLeft, VPCInUse, LBs, LBStates, NoLB, SpecType,
         DeleteLoadBalancer, Fails, networkVars, cloudVars, apiVars, ctlVars
<1>. QED BY <1>1, <1>2, <1>3, <1>4, <1>5 DEF VPCInv

\* DeleteVPC.
LEMMA DeleteVPCInv ==
    ASSUME VPCInv, TypeOK', DeleteVPC
    PROVE  VPCInv'
<1>. DEFINE Effect ==
       /\ pc = "deleteVPC" /\ pc' = "patch"
       /\ local'.host = local.host /\ local'.lb = local.lb /\ local'.lbState = local.lbState
       /\ \/ local'.finalizer = local.finalizer
          \/ ~local.vpc
          \/ ~vpc' /\ ~subnet' /\ gateway' = "absent"
       /\ UNCHANGED <<lbs, spec, stored, phase>>
<1>0. Effect
  BY DEF VPCInv, TypeOK, CloudTypeOK, ControllerTypeOK, ObjectType, LBs, LBStates,
         DeleteVPC, Fails, Finalized, VPCFailed, VPCInUse, networkVars, cloudVars,
         apiVars
<1>. HIDE DEF Effect
<1>1. EndpointInv'
  BY <1>0 DEF Effect, VPCInv, EndpointInv, DeletionInv, DeletePcs, NetworkPcs,
         NetworkLeft, LBs, NoLB
<1>2. FinalizerInv'
  BY <1>0 DEF Effect, VPCInv, FinalizerInv, DeletionInv, DeletePcs, NetworkPcs,
         NetworkLeft, LBs, NoLB
<1>3. DeletionInv'
  BY <1>0 DEF Effect, VPCInv, DeletionInv, DeletePcs, NetworkPcs, NetworkLeft, LBs,
         NoLB
<1>4. WaitInv'
  BY <1>0 DEF Effect, VPCInv, WaitInv, EndpointInv, DeletionInv, DeletePcs,
         NetworkPcs, NetworkLeft, LBs, NoLB
<1>5. OrderInv'
  BY <1>0 DEF Effect, VPCInv, OrderInv, WaitInv, EndpointInv, DeletionInv,
         FinalizerInv, DeletePcs, NetworkPcs, NetworkLeft, LBs, NoLB
<1>. QED BY <1>1, <1>2, <1>3, <1>4, <1>5 DEF VPCInv

\* The patch: whatever part gets through, the endpoint stays, and the finalizer
\* goes only with phase "deleting".
LEMMA PatchInv ==
    ASSUME VPCInv, TypeOK', Patch
    PROVE  VPCInv'
<1>1. PICK parts \in SUBSET PatchParts : stored' = Patched(parts)
  BY DEF Patch
<1>2. /\ stored'.host = local.host \/ stored'.host = stored.host
      /\ stored'.lb = local.lb \/ stored'.lb = stored.lb
      /\ stored'.lbState = local.lbState \/ stored'.lbState = stored.lbState
      /\ stored'.finalizer = local.finalizer \/ stored'.finalizer = stored.finalizer
  BY <1>1 DEF Patched
<1>3. /\ pc = "patch" /\ pc' = "idle" /\ UNCHANGED <<lbs, spec>>
      /\ phase' = IF phase = "deleting" /\ ~stored'.finalizer THEN "gone" ELSE phase
      /\ local'.host = NoLB /\ local'.lb = NoLB /\ local'.lbState = "absent"
  BY DEF Patch, Forget, NewObject, cloudVars
<1>4. EndpointInv'
  BY <1>2, <1>3 DEF VPCInv, EndpointInv, NoLB
<1>5. FinalizerInv'
  BY <1>2, <1>3 DEF VPCInv, FinalizerInv
<1>6. WaitInv'
  BY <1>2, <1>3 DEF VPCInv, WaitInv, EndpointInv, NoLB
<1>7. DeletionInv' /\ OrderInv'
  BY <1>3 DEF DeletionInv, OrderInv, DeletePcs, NetworkPcs
<1>. QED BY <1>4, <1>5, <1>6, <1>7 DEF VPCInv

\* A crash forgets the copy and nothing else.
LEMMA CrashInv ==
    ASSUME VPCInv, TypeOK', Crash
    PROVE  VPCInv'
<1>1. /\ pc' = "idle" /\ UNCHANGED <<lbs, spec, stored, phase>>
      /\ local'.host = NoLB /\ local'.lb = NoLB /\ local'.lbState = "absent"
  BY DEF Crash, Forget, NewObject, cloudVars, apiVars
<1>. QED BY <1>1 DEF VPCInv, EndpointInv, FinalizerInv, DeletionInv, WaitInv, OrderInv,
            DeletePcs, NetworkPcs, NoLB

\* The invariant holds at first.
LEMMA InitInv == Init => VPCInv
<1>. SUFFICES ASSUME Init PROVE VPCInv
  OBVIOUS
<1>1. stored.host = spec.host /\ stored.lb = NoLB /\ stored.lbState = "absent"
  BY DEF Init, NewObject
<1>2. /\ pc = "idle" /\ phase = "live"
      /\ local.host = NoLB /\ local.lb = NoLB /\ local.lbState = "absent"
      /\ lbs["given"] = "active" /\ lbs["own"] = "absent"
  BY DEF Init, NewObject, LBs
<1>. QED BY <1>1, <1>2, InitType DEF VPCInv, EndpointInv, FinalizerInv, DeletionInv, WaitInv,
            OrderInv, DeletePcs, NetworkPcs, NoLB

\* Every step keeps it.
LEMMA InvStep == VPCInv /\ [Next]_vars => VPCInv'
<1>. SUFFICES ASSUME VPCInv, [Next]_vars PROVE VPCInv'
  OBVIOUS
<1>1. TypeOK /\ TypeOK'
  BY TypeStep DEF VPCInv
<1>2. CASE ReconcileSteps
  BY <1>1, <1>2, GetLoadBalancerByHostnameInv, FindLoadBalancerInv, CreateLoadBalancerInv,
     FindVPCBuilds, CreateVPCBuilds, UpdateDefaultSGBuilds, FindSubnetBuilds,
     CreateSubnetBuilds, CreatePublicGateWayBuilds, AttachPublicGateWayBuilds, BuildsInv
     DEF ReconcileSteps
<1>3. CASE DeleteSteps
  BY <1>1, <1>3, ListInstancesInv, FindLoadBalancerToDeleteInv, DeleteLoadBalancerInv,
     FindSubnetToDeleteDismantles, GetSubnetPublicGatewayDismantles,
     UnsetPublicGatewayDismantles, DeletePublicGatewayDismantles, DeleteSubnetDismantles,
     DismantlesInv, DeleteVPCInv
     DEF DeleteSteps
<1>4. CASE UNCHANGED vars
  BY <1>1, <1>4 DEF VPCInv, EndpointInv, FinalizerInv, DeletionInv, WaitInv, OrderInv,
     NetworkLeft, vars, networkVars, cloudVars, apiVars, ctlVars
<1>. QED BY <1>1, <1>2, <1>3, <1>4, EnvironmentInv, DeleteObjectInv, EnsureFinalizerInv,
            StartReconcileInv, PatchInv, CrashInv DEF Next, Steps

\* The object is written by its finalizer and the patch alone, and its phase by
\* the user's request and the patch.
LEMMA OnlyPatchWrites ==
    ASSUME [Next]_vars
    PROVE  /\ Patch \/ EnsureFinalizer \/ UNCHANGED stored
           /\ Patch \/ DeleteObject \/ UNCHANGED phase
<1>1. CASE ReconcileSteps
  BY <1>1 DEF ReconcileSteps, GetLoadBalancerByHostname, FindVPC, CreateVPC,
     UpdateDefaultSG, FindSubnet, CreateSubnet, CreatePublicGateWay,
     AttachPublicGateWay, FindLoadBalancer, CreateLoadBalancer, apiVars
<1>2. CASE DeleteSteps
  BY <1>2 DEF DeleteSteps, ListInstances, FindLoadBalancerToDelete,
     DeleteLoadBalancer, FindSubnetToDelete, GetSubnetPublicGateway,
     UnsetPublicGateway, DeletePublicGateway, DeleteSubnet, DeleteVPC, apiVars
<1>3. CASE Environment \/ TogglePause
  BY <1>3 DEF Environment, LBProgress, LBUpdates, StartInstances, StopInstances, SetOwner,
     TogglePause, apiVars
<1>4. CASE DeleteObject \/ ReconcileReturns \/ EnsureFinalizer \/ StartReconcile \/ Crash
  BY <1>4 DEF DeleteObject, ReconcileReturns, EnsureFinalizer, StartReconcile, Crash, vars,
     apiVars
<1>5. CASE UNCHANGED vars
  BY <1>5 DEF vars, apiVars
<1>. QED BY <1>1, <1>2, <1>3, <1>4, <1>5 DEF Next, Steps

----------------------------------------------------------------------------
(* Theorems.                                                               *)

\* The invariant holds throughout.
THEOREM Invariance == Spec => []VPCInv
<1>. QED BY InitInv, InvStep, PTL DEF Spec

\* The load balancer of the status is gone before its subnet and gateway are
\* touched, for every spec and any number of failures.
THEOREM LoadBalancerGoesFirst == Spec => []LoadBalancerFirst
<1>1. VPCInv => LoadBalancerFirst
  BY DEF VPCInv, OrderInv, LoadBalancerFirst, NetworkPcs, DeletePcs
<1>. QED BY <1>1, Invariance, PTL

\* No patch, complete or partial, ever changes an endpoint that is set.
THEOREM EndpointStays == Spec => EndpointIsStable
<1>1. ASSUME VPCInv, [Next]_vars
      PROVE [stored.host # NoLB => stored'.host = stored.host]_vars
  <2>1. CASE Patch
    <3>1. PICK parts \in SUBSET PatchParts : stored' = Patched(parts)
      BY <2>1 DEF Patch
    <3>2. pc = "patch" /\ (stored'.host = local.host \/ stored'.host = stored.host)
      BY <2>1, <3>1 DEF Patch, Patched
    <3>. QED BY <1>1, <3>2 DEF VPCInv, EndpointInv
  <2>2. CASE EnsureFinalizer
    BY <1>1, <2>2 DEF EnsureFinalizer, VPCInv, TypeOK, ApiTypeOK, ObjectType
  <2>3. CASE UNCHANGED stored
    BY <2>3
  <2>4. Patch \/ EnsureFinalizer \/ UNCHANGED stored
    BY <1>1, OnlyPatchWrites
  <2>. QED BY <2>1, <2>2, <2>3, <2>4
<1>. QED BY <1>1, Invariance, PTL DEF Spec, EndpointIsStable

\* Once its load balancer was seen in deletion, a cluster leaves nothing behind.
THEOREM NothingIsLeft == Spec => NothingLeftOnceWaited
<1>. DEFINE P == /\ phase = "deleting" /\ phase' = "gone"
                 /\ stored.host = "own" /\ stored.vpc /\ stored.lb # NoLB
                 /\ stored.lbState = "delete_pending"
                 => ~NetworkLeft
<1>1. ASSUME VPCInv, [Next]_vars PROVE [P]_vars
  <2>1. CASE Patch
    <3>1. PICK parts \in SUBSET PatchParts : stored' = Patched(parts)
      BY <2>1 DEF Patch
    <3>2. pc = "patch" /\ (phase' = "gone" /\ phase = "deleting" => ~stored'.finalizer)
      BY <2>1 DEF Patch
    <3>3. stored'.finalizer = local.finalizer \/ stored'.finalizer = stored.finalizer
      BY <3>1 DEF Patched
    <3>. QED BY <1>1, <3>2, <3>3 DEF VPCInv, FinalizerInv, OrderInv
  <2>2. CASE DeleteObject
    BY <2>2 DEF DeleteObject
  <2>3. CASE UNCHANGED phase
    BY <2>3
  <2>4. Patch \/ DeleteObject \/ UNCHANGED phase
    BY <1>1, OnlyPatchWrites
  <2>. QED BY <2>1, <2>2, <2>3, <2>4
<1>. QED BY <1>1, Invariance, PTL DEF Spec, NothingLeftOnceWaited

=============================================================================
