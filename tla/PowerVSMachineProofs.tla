------------------------- MODULE PowerVSMachineProofs ------------------------
(***************************************************************************)
(* Proofs about PowerVSMachine, for every set of machines and pools and    *)
(* every bound.                                                            *)
(***************************************************************************)
EXTENDS PowerVSMachine, SequenceTheorems, TLAPS

----------------------------------------------------------------------------
(* Types.                                                                  *)

\* Only a machine with an address is registered.
RegisterInv == pc = "register" => local.ip # 0

TypeInv == TypeOK /\ RegisterInv

\* Instances stay, and stay of their machine.
Kept ==
    /\ DOMAIN instances \subseteq DOMAIN instances'
    /\ \A n \in DOMAIN instances : instances'[n].machine = instances[n].machine

States == {"unlisted", "BUILD", "ACTIVE", "SHUTOFF", "ERROR", "REBOOT", "deleting", "gone"}

\* The fault counter stays within its bound.
LEMMA FaultArithmetic ==
    ASSUME faults \in 0..MaxFaults
    PROVE /\ NoFault => faults' \in 0..MaxFaults
          /\ \A kind : Fault(kind) => faults' \in 0..MaxFaults
BY BoundAssumption DEF NoFault, Fault

\* A fresh object is well formed.
LEMMA NewObjectType == NewObject \in ObjectType
BY BoundAssumption DEF NewObject, ObjectType

\* A fresh object refers to no instance.
LEMMA NewObjectRefers == \A m : Refers(NewObject, m)
BY DEF NewObject, Refers

\* Writing a condition, the finalizer or Provisioned keeps an object well
\* formed and leaves its references alone.
LEMMA ObjectUpdates ==
    ASSUME NEW o \in ObjectType, NEW b \in BOOLEAN,
           NEW c \in {"none", "unknown", "true", "false"}
    PROVE /\ [o EXCEPT !.cond = c] \in ObjectType
          /\ [o EXCEPT !.cond = c, !.provisioned = b] \in ObjectType
          /\ [o EXCEPT !.finalizer = b, !.cond = c] \in ObjectType
          /\ [o EXCEPT !.finalizer = b] \in ObjectType
          /\ \A m : Refers(o, m) => /\ Refers([o EXCEPT !.cond = c], m)
                                    /\ Refers([o EXCEPT !.cond = c, !.provisioned = b], m)
                                    /\ Refers([o EXCEPT !.finalizer = b, !.cond = c], m)
                                    /\ Refers([o EXCEPT !.finalizer = b], m)
          /\ [o EXCEPT !.cond = c].ip = o.ip
BY DEF ObjectType, Refers

\* An instance that changes its state or its address stays an instance.
LEMMA InstanceUpdate ==
    ASSUME CloudTypeOK, NEW n \in DOMAIN instances,
           NEW st \in States, NEW ad \in {"none", "leased", "reported"},
           \/ instances' = [instances EXCEPT ![n].state = st]
           \/ instances' = [instances EXCEPT ![n].address = ad]
    PROVE /\ instances' \in Seq(InstanceType)
          /\ Len(instances') = Len(instances)
          /\ DOMAIN instances' = DOMAIN instances
          /\ Kept
<1>1. n \in 1..Len(instances) /\ instances[n] \in InstanceType
  BY DEF CloudTypeOK
<1>2. /\ [instances[n] EXCEPT !.state = st] \in InstanceType
      /\ [instances[n] EXCEPT !.address = ad] \in InstanceType
      /\ [instances[n] EXCEPT !.state = st].machine = instances[n].machine
      /\ [instances[n] EXCEPT !.address = ad].machine = instances[n].machine
  BY <1>1 DEF InstanceType, States
<1>3. PICK i \in InstanceType : /\ instances' = [instances EXCEPT ![n] = i]
                                /\ i.machine = instances[n].machine
  BY <1>2
<1>. QED BY <1>1, <1>3, ExceptSeq DEF CloudTypeOK, Kept

\* A new instance comes last and leaves the others as they are.
LEMMA InstanceAppend ==
    ASSUME CloudTypeOK, NEW m \in Machines, NEW st \in States, Len(instances) < MaxInstances,
           instances' = Append(instances, [machine |-> m, address |-> "none", state |-> st])
    PROVE /\ instances' \in Seq(InstanceType) /\ Len(instances') <= MaxInstances
          /\ DOMAIN instances \subseteq DOMAIN instances' /\ Kept
<1>. DEFINE i == [machine |-> m, address |-> "none", state |-> st]
<1>1. i \in InstanceType
  BY DEF InstanceType, States
<1>2. /\ Append(instances, i) \in Seq(InstanceType)
      /\ Len(Append(instances, i)) = Len(instances) + 1
      /\ Len(instances) \in Nat
      /\ \A k \in 1..Len(instances) : Append(instances, i)[k] = instances[k]
  BY <1>1 DEF CloudTypeOK
<1>3. DOMAIN instances = 1..Len(instances) /\ DOMAIN instances' = 1..Len(instances')
  BY <1>2 DEF CloudTypeOK
<1>. QED BY <1>2, <1>3, BoundAssumption DEF Kept

\* References survive as long as instances are kept.
LEMMA RefersKept ==
    ASSUME Kept, NEW m, NEW o, Refers(o, m)
    PROVE \A n \in {o.provider, o.id, o.ip} \ {0} :
              n \in DOMAIN instances' /\ instances'[n].machine = m
BY DEF Refers, Kept

\* So does what the API server holds.
LEMMA ApiKept ==
    ASSUME ApiTypeOK, Kept, UNCHANGED apiVars
    PROVE ApiTypeOK'
BY DEF ApiTypeOK, Kept, apiVars, Refers

\* And what the controller holds.
LEMMA ControllerKept ==
    ASSUME ControllerTypeOK, Kept, UNCHANGED ctlVars
    PROVE ControllerTypeOK'
BY DEF ControllerTypeOK, Kept, ctlVars, Refers

\* The steps of the cloud, of users and of Cluster API keep the types.
LEMMA EnvironmentType ==
    ASSUME TypeInv,
           \/ Environment \/ DeleteImageObject
           \/ \E n \in DOMAIN instances : InstanceFails(n)
           \/ \E m \in Machines : DeleteMachineObject(m) \/ CreateMachineObject(m)
    PROVE TypeInv'
<1>. USE DEF TypeInv, TypeOK
<1>1. ASSUME NEW n \in DOMAIN instances, NEW st \in States, NEW ad \in {"none", "leased", "reported"},
             \/ instances' = [instances EXCEPT ![n].state = st]
             \/ instances' = [instances EXCEPT ![n].address = ad],
             UNCHANGED <<members, busy, userData, apiVars, ctlVars>>, faults' \in 0..MaxFaults
      PROVE TypeInv'
  <2>1. instances' \in Seq(InstanceType) /\ Len(instances') = Len(instances)
        /\ DOMAIN instances' = DOMAIN instances /\ Kept
    BY <1>1, InstanceUpdate
  <2>2. CloudTypeOK'
    BY <1>1, <2>1 DEF CloudTypeOK
  <2>3. ApiTypeOK' /\ ControllerTypeOK' /\ RegisterInv'
    BY <1>1, <2>1, ApiKept, ControllerKept DEF RegisterInv, ctlVars
  <2>. QED BY <1>1, <2>2, <2>3
<1>2. ASSUME NEW n \in DOMAIN instances, InstanceProgress(n) PROVE TypeInv'
  BY <1>1, <1>2 DEF InstanceProgress, NextStates, States
<1>3. ASSUME NEW n \in DOMAIN instances, AddressAssigned(n) PROVE TypeInv'
  BY <1>1, <1>3 DEF AddressAssigned, States
<1>4. ASSUME NEW n \in DOMAIN instances, InstanceFails(n) PROVE TypeInv'
  BY <1>1, <1>4, FaultArithmetic DEF InstanceFails, States
<1>5. ASSUME UNCHANGED <<instances, ctlVars>> PROVE ControllerTypeOK' /\ RegisterInv'
  BY <1>5 DEF ControllerTypeOK, Refers, RegisterInv, ctlVars
<1>6. ASSUME UNCHANGED cloudVars PROVE CloudTypeOK'
  BY <1>6 DEF CloudTypeOK, cloudVars
<1>7. ASSUME NEW lb, LoadBalancerUpdated(lb) PROVE TypeInv'
  <2>1. CloudTypeOK'
    BY <1>7 DEF LoadBalancerUpdated, CloudTypeOK
  <2>2. ApiTypeOK'
    BY <1>7 DEF LoadBalancerUpdated, ApiTypeOK, Refers, apiVars
  <2>. QED BY <1>5, <1>7, <2>1, <2>2 DEF LoadBalancerUpdated
<1>8. ASSUME NEW gate, GateOpens(gate) PROVE TypeInv'
  <2>1. ApiTypeOK'
    BY <1>8 DEF GateOpens, ApiTypeOK, Refers, cloudVars
  <2>. QED BY <1>5, <1>6, <1>8, <2>1 DEF GateOpens, cloudVars
<1>9. CASE DeleteImageObject
  <2>1. ApiTypeOK'
    BY <1>9 DEF DeleteImageObject, ApiTypeOK, Refers, cloudVars
  <2>. QED BY <1>5, <1>6, <1>9, <2>1 DEF DeleteImageObject, cloudVars
<1>10. ASSUME NEW m \in Machines, DeleteMachineObject(m) PROVE TypeInv'
  <2>1. ApiTypeOK'
    BY <1>10 DEF DeleteMachineObject, ApiTypeOK, Refers, cloudVars
  <2>. QED BY <1>5, <1>6, <1>10, <2>1 DEF DeleteMachineObject, cloudVars
<1>11. ASSUME NEW m \in Machines, CreateMachineObject(m) PROVE TypeInv'
  <2>1. stored' \in [Machines -> ObjectType]
    BY <1>11, NewObjectType DEF CreateMachineObject, ApiTypeOK
  <2>2. \A k \in Machines : Refers(stored'[k], k)
    BY <1>11, NewObjectRefers DEF CreateMachineObject, ApiTypeOK
  <2>3. born' \in [Machines -> 1..MaxBirths] /\ phase' \in [Machines -> {"live", "deleting", "gone"}]
    BY <1>11, BoundAssumption DEF CreateMachineObject, ApiTypeOK
  <2>4. ApiTypeOK'
    BY <1>11, <2>1, <2>2, <2>3 DEF CreateMachineObject, ApiTypeOK, Refers, cloudVars
  <2>. QED BY <1>5, <1>6, <1>11, <2>4 DEF CreateMachineObject, cloudVars
<1>. QED
  BY <1>2, <1>3, <1>4, <1>7, <1>8, <1>9, <1>10, <1>11 DEF Environment, Progress

\* What a step that leaves cloud and API server alone has to preserve.
LEMMA ControllerStep ==
    ASSUME TypeInv, UNCHANGED <<cloudVars, apiVars>>, faults' \in 0..MaxFaults,
           ControllerTypeOK', RegisterInv'
    PROVE TypeInv'
BY DEF TypeInv, TypeOK, CloudTypeOK, ApiTypeOK, Refers, cloudVars, apiVars

\* An end of the reconcile leaves nothing behind in the controller.
LEMMA ForgetType ==
    ASSUME ControllerTypeOK, UNCHANGED instances, Forget,
           cache' \in {cache, [m \in Machines |-> 0]}
    PROVE ControllerTypeOK' /\ RegisterInv'
BY NewObjectType, BoundAssumption DEF Forget, ControllerTypeOK, RegisterInv

\* A copy of the object with another condition or finalizer, at another step.
LEMMA LocalStep ==
    ASSUME TypeInv, pc # "idle", UNCHANGED <<cache, cur>>, Kept,
           local' \in ObjectType, Refers(local', cur),
           pc' \in {"list", "systemType", "userData", "resolve", "create", "ignition", "patch"},
           found' \in {found, 0}
    PROVE ControllerTypeOK' /\ RegisterInv'
BY BoundAssumption DEF TypeInv, TypeOK, ControllerTypeOK, RegisterInv, Refers, Kept

\* Mark and NotReady give such a copy.
LEMMA MarkType ==
    ASSUME TypeInv, pc # "idle"
    PROVE /\ \A st \in {"unknown", "true", "false"} :
                 Mark(st) \/ NotReady(st) =>
                     local' \in ObjectType /\ Refers(local', cur) /\ pc' = "patch"
          /\ local \in ObjectType /\ Refers(local, cur) /\ cur \in Machines
<1>1. local \in ObjectType /\ Refers(local, cur) /\ cur \in Machines
  BY DEF TypeInv, TypeOK, ControllerTypeOK
<1>2. ASSUME NEW st \in {"unknown", "true", "false"}, Mark(st) \/ NotReady(st)
      PROVE local' \in ObjectType /\ Refers(local', cur) /\ pc' = "patch"
  <2>1. st \in {"none", "unknown", "true", "false"} /\ FALSE \in BOOLEAN
    OBVIOUS
  <2>2. local' = [local EXCEPT !.cond = st] \/ local' = [local EXCEPT !.cond = st, !.provisioned = FALSE]
    BY <1>2 DEF Mark, NotReady
  <2>3. CASE local' = [local EXCEPT !.cond = st]
    BY <1>1, <1>2, <2>1, <2>3, ObjectUpdates DEF Mark, NotReady
  <2>4. CASE local' = [local EXCEPT !.cond = st, !.provisioned = FALSE]
    BY <1>1, <1>2, <2>1, <2>4, ObjectUpdates DEF Mark, NotReady
  <2>. QED BY <2>2, <2>3, <2>4
<1>. QED BY <1>1, <1>2

\* The steps that begin or end a reconcile, or only look, keep the types.
LEMMA ControlType ==
    ASSUME TypeInv,
           \/ \E m \in Machines : \/ ReconcileReturns(m) \/ EnsureFinalizer(m)
                                 \/ StartReconcile(m) \/ CacheExpires(m)
           \/ ScopeFails \/ WaitAtGate \/ PassGates \/ FindInstance \/ ValidateSystemType
           \/ ResolveImageAndNetwork \/ SyncFails \/ SkipDelete \/ Crash
    PROVE TypeInv'
<1>. USE DEF TypeInv, TypeOK
<1>1. ASSUME NEW m \in Machines, ReconcileReturns(m) PROVE TypeInv'
  BY <1>1 DEF ReconcileReturns, vars, cloudVars, apiVars, ctlVars, CloudTypeOK, ApiTypeOK,
     ControllerTypeOK, RegisterInv, Refers
<1>2. ASSUME NEW m \in Machines, EnsureFinalizer(m) PROVE TypeInv'
  <2>1. /\ stored' \in [Machines -> ObjectType]
        /\ \A k \in Machines : Refers(stored'[k], k)
    <3>1. [stored[m] EXCEPT !.finalizer = TRUE] \in ObjectType
          /\ Refers([stored[m] EXCEPT !.finalizer = TRUE], m)
      BY ObjectUpdates DEF ApiTypeOK
    <3>. QED BY <1>2, <3>1 DEF EnsureFinalizer, ApiTypeOK
  <2>2. ApiTypeOK' /\ CloudTypeOK'
    BY <1>2, <2>1 DEF EnsureFinalizer, ApiTypeOK, Refers, cloudVars, CloudTypeOK
  <2>. QED
    BY <1>2, <2>2 DEF EnsureFinalizer, cloudVars, ctlVars, ControllerTypeOK, RegisterInv, Refers
<1>3. ASSUME NEW m \in Machines, StartReconcile(m) PROVE TypeInv'
  <2>1. ControllerTypeOK' /\ RegisterInv'
    BY <1>3 DEF StartReconcile, ApiTypeOK, ControllerTypeOK, RegisterInv, Refers, cloudVars
  <2>. QED BY <1>3, <2>1, ControllerStep DEF StartReconcile
<1>4. ASSUME NEW m \in Machines, CacheExpires(m) PROVE TypeInv'
  <2>1. ControllerTypeOK' /\ RegisterInv'
    BY <1>4, BoundAssumption DEF CacheExpires, ControllerTypeOK, RegisterInv, Refers, cloudVars
  <2>. QED BY <1>4, <2>1, ControllerStep DEF CacheExpires
<1>5. CASE ScopeFails
  BY <1>5, ForgetType, ControllerStep, FaultArithmetic DEF ScopeFails, cloudVars
<1>6. CASE Crash
  BY <1>6, ForgetType, ControllerStep, FaultArithmetic DEF Crash, cloudVars
<1>7. ASSUME UNCHANGED <<cloudVars, apiVars, cache, cur>>, pc # "idle",
             local' \in ObjectType, Refers(local', cur),
             pc' \in {"list", "systemType", "userData", "resolve", "create", "ignition", "patch"},
             found' \in {found, 0}, faults' \in 0..MaxFaults
      PROVE TypeInv'
  <2>1. Kept
    BY <1>7 DEF Kept, cloudVars
  <2>. QED BY <1>7, <2>1, LocalStep, ControllerStep
<1>8. CASE WaitAtGate
  BY <1>7, <1>8, MarkType, FaultArithmetic DEF WaitAtGate
<1>9. CASE PassGates
  BY <1>7, <1>9, MarkType, FaultArithmetic DEF PassGates
<1>10. CASE FindInstance
  <2>1. ASSUME NEW n \in Listed(cur), found' = n, pc' = "get", UNCHANGED local, NoFault
        PROVE TypeInv'
    <3>1. n \in DOMAIN instances /\ instances[n].machine = cur /\ n \in 0..MaxInstances
      BY <2>1, BoundAssumption DEF Listed, CloudTypeOK
    <3>2. ControllerTypeOK' /\ RegisterInv'
      BY <1>10, <2>1, <3>1 DEF FindInstance, ControllerTypeOK, RegisterInv, Refers, cloudVars
    <3>. QED BY <1>10, <2>1, <3>2, ControllerStep, FaultArithmetic DEF FindInstance
  <2>2. CASE UNCHANGED found /\ Fault("api") /\ Mark("false")
    BY <1>7, <1>10, <2>2, MarkType, FaultArithmetic DEF FindInstance
  <2>3. CASE UNCHANGED found /\ NoFault /\ NotReady("unknown")
    BY <1>7, <1>10, <2>3, MarkType, FaultArithmetic DEF FindInstance
  <2>4. CASE UNCHANGED <<found, local>> /\ NoFault /\ pc' = "systemType"
    BY <1>7, <1>10, <2>4, MarkType, FaultArithmetic DEF FindInstance
  <2>. QED BY <1>10, <2>1, <2>2, <2>3, <2>4 DEF FindInstance
<1>11. CASE ValidateSystemType
  BY <1>7, <1>11, MarkType, FaultArithmetic DEF ValidateSystemType, CreationFails
<1>12. CASE ResolveImageAndNetwork
  BY <1>7, <1>12, MarkType, FaultArithmetic DEF ResolveImageAndNetwork, CreationFails
<1>13. CASE SyncFails
  BY <1>7, <1>13, MarkType, FaultArithmetic DEF SyncFails
<1>14. CASE SkipDelete
  <2>1. Finalized \in ObjectType /\ Refers(Finalized, cur)
    BY <1>14, MarkType, ObjectUpdates DEF SkipDelete, Finalized
  <2>. QED BY <1>7, <1>14, <2>1, FaultArithmetic DEF SkipDelete
<1>. QED BY <1>1, <1>2, <1>3, <1>4, <1>5, <1>6, <1>8, <1>9, <1>10, <1>11, <1>12, <1>13, <1>14

\* The steps of reconcileNormal that change something keep the types.
LEMMA NormalType ==
    ASSUME TypeInv,
           ResolveUserData \/ CreateInstance \/ SyncInstance \/ RegisterPoolMember
    PROVE TypeInv'
<1>. USE DEF TypeInv, TypeOK
<1>1. CASE ResolveUserData
  <2>1. userData' \subseteq Machines
    BY <1>1, MarkType DEF ResolveUserData, CloudTypeOK
  <2>2. CloudTypeOK' /\ Kept
    BY <1>1, <2>1 DEF ResolveUserData, CloudTypeOK, Kept
  <2>3. ApiTypeOK'
    BY <1>1, <2>2, ApiKept DEF ResolveUserData
  <2>4. local' \in ObjectType /\ Refers(local', cur) /\ pc' \in {"resolve", "patch"}
    BY <1>1, MarkType DEF ResolveUserData, CreationFails
  <2>5. ControllerTypeOK' /\ RegisterInv'
    BY <1>1, <2>2, <2>4, LocalStep DEF ResolveUserData
  <2>. QED
    BY <1>1, <2>2, <2>3, <2>5, FaultArithmetic DEF ResolveUserData, CreationFails
<1>2. CASE CreateInstance
  <2>1. /\ local' \in ObjectType /\ Refers(local', cur) /\ pc' = "patch"
        /\ faults' \in 0..MaxFaults
    BY <1>2, MarkType, FaultArithmetic DEF CreateInstance, CreationFails
  <2>2. /\ instances' \in Seq(InstanceType) /\ Len(instances') <= MaxInstances
        /\ DOMAIN instances \subseteq DOMAIN instances' /\ Kept
    <3>1. CASE UNCHANGED instances
      BY <3>1 DEF CloudTypeOK, Kept
    <3>2. ASSUME NEW st \in {"BUILD", "unlisted"}, Len(instances) < MaxInstances,
                 instances' = Append(instances, [machine |-> cur, address |-> "none", state |-> st])
          PROVE /\ instances' \in Seq(InstanceType) /\ Len(instances') <= MaxInstances
                /\ DOMAIN instances \subseteq DOMAIN instances' /\ Kept
      <4>1. cur \in Machines /\ st \in States
        BY <1>2, MarkType DEF CreateInstance, States
      <4>. QED BY <3>2, <4>1, InstanceAppend
    <3>. QED BY <1>2, <3>1, <3>2 DEF CreateInstance
  <2>3. CloudTypeOK'
    BY <1>2, <2>2 DEF CreateInstance, CloudTypeOK
  <2>4. ApiTypeOK'
    BY <1>2, <2>2, ApiKept DEF CreateInstance
  <2>5. ControllerTypeOK' /\ RegisterInv'
    BY <1>2, <2>1, <2>2, LocalStep DEF CreateInstance
  <2>. QED BY <2>1, <2>3, <2>4, <2>5
<1>3. CASE SyncInstance
  <2>1. /\ cur \in Machines /\ local \in ObjectType /\ found \in 0..MaxInstances
        /\ found \in DOMAIN instances /\ instances[found].machine = cur
    BY <1>3, MarkType DEF SyncInstance, ControllerTypeOK
  <2>2. PICK ip, cached \in 0..MaxInstances :
          /\ Address(ip, cached)
          /\ cache' = [cache EXCEPT ![cur] = cached]
          /\ \E p \in BOOLEAN, c \in {"none", "unknown", "true", "false"} :
                local' = [local EXCEPT !.provider = found, !.id = found, !.ip = ip,
                                       !.provisioned = p, !.cond = c]
          /\ pc' \in {"register", "patch"} /\ (pc' = "register" => ip # 0)
    <3>1. PICK ip, cached \in 0..MaxInstances :
          LET synced == [local EXCEPT !.provider = found, !.id = found, !.ip = ip]
              state == instances[found].state
          IN
          /\ Address(ip, cached)
          /\ cache' = [cache EXCEPT ![cur] = cached]
          /\ \/ /\ state = "ACTIVE" /\ Pools # <<>> /\ ip # 0
                /\ local' = [synced EXCEPT !.provisioned = TRUE] /\ pc' = "register"
             \/ /\ state = "ACTIVE" /\ Pools # <<>> => ip = 0
                /\ local' = [synced EXCEPT !.provisioned = (state = "ACTIVE"),
                                 !.cond = CASE state = "ACTIVE" /\ Pools = <<>> -> "true"
                                            [] state \in {"REBOOT", "deleting"} -> "unknown"
                                            [] OTHER -> "false"]
                /\ pc' = "patch"
      BY <1>3 DEF SyncInstance
    <3>. DEFINE synced == [local EXCEPT !.provider = found, !.id = found, !.ip = ip]
                state == instances[found].state
                cond == CASE state = "ACTIVE" /\ Pools = <<>> -> "true"
                          [] state \in {"REBOOT", "deleting"} -> "unknown"
                          [] OTHER -> "false"
    <3>2. local.cond \in {"none", "unknown", "true", "false"}
      BY <2>1 DEF ObjectType
    <3>3. cond \in {"none", "unknown", "true", "false"} /\ (state = "ACTIVE") \in BOOLEAN
      OBVIOUS
    <3>4. [synced EXCEPT !.provisioned = TRUE]
            = [local EXCEPT !.provider = found, !.id = found, !.ip = ip,
                            !.provisioned = TRUE, !.cond = local.cond]
      BY <2>1 DEF ObjectType
    <3>. QED BY <3>1, <3>2, <3>3, <3>4
  <2>3. cached # 0 => cached \in DOMAIN instances /\ instances[cached].machine = cur
    BY <2>1, <2>2 DEF Address, Reported, Leased, Cached, ControllerTypeOK
  <2>4. ip # 0 => ip \in DOMAIN instances /\ instances[ip].machine = cur
    BY <2>1, <2>2 DEF Address, Reported, Leased, Cached, ControllerTypeOK
  <2>5. local' \in ObjectType /\ Refers(local', cur) /\ local'.ip = ip
    <3>1. PICK p \in BOOLEAN, c \in {"none", "unknown", "true", "false"} :
                local' = [local EXCEPT !.provider = found, !.id = found, !.ip = ip,
                                       !.provisioned = p, !.cond = c]
      BY <2>2
    <3>. QED BY <2>1, <2>4, <3>1 DEF ObjectType, Refers
  <2>6. ControllerTypeOK' /\ RegisterInv'
    BY <1>3, <2>1, <2>2, <2>3, <2>5
    DEF SyncInstance, ControllerTypeOK, RegisterInv, Refers, cloudVars
  <2>7. faults' \in 0..MaxFaults
    BY <2>2, FaultArithmetic DEF Address
  <2>. QED BY <1>3, <2>6, <2>7, ControllerStep DEF SyncInstance
<1>4. CASE RegisterPoolMember
  <2>1. /\ local' \in ObjectType /\ Refers(local', cur) /\ pc' = "patch"
        /\ faults' \in 0..MaxFaults
    BY <1>4, MarkType, FaultArithmetic DEF RegisterPoolMember
  <2>2. local.ip \in DOMAIN instances
    BY <1>4, MarkType DEF RegisterPoolMember, RegisterInv, Refers
  <2>3. members' \in [DOMAIN Pools -> SUBSET (DOMAIN instances)]
    BY <1>4, <2>2 DEF RegisterPoolMember, CloudTypeOK
  <2>4. busy' \subseteq LoadBalancers
    <3>1. CASE UNCHANGED busy
      BY <3>1 DEF CloudTypeOK
    <3>2. ASSUME NEW k \in FirstMissing, busy' = busy \cup {Pools[k].lb}
          PROVE busy' \subseteq LoadBalancers
      BY <3>2 DEF CloudTypeOK, LoadBalancers, FirstMissing, Missing
    <3>. QED BY <1>4, <3>1, <3>2 DEF RegisterPoolMember
  <2>5. CloudTypeOK' /\ Kept
    BY <1>4, <2>3, <2>4 DEF RegisterPoolMember, CloudTypeOK, Kept
  <2>6. ApiTypeOK' /\ ControllerTypeOK' /\ RegisterInv'
    BY <1>4, <2>1, <2>5, ApiKept, LocalStep DEF RegisterPoolMember
  <2>. QED BY <2>1, <2>5, <2>6
<1>. QED BY <1>1, <1>2, <1>3, <1>4

\* The steps of reconcileDelete, and the patch, keep the types.
LEMMA DeleteType ==
    ASSUME TypeInv, DeleteInstance \/ DeleteIgnition \/ Patch
    PROVE TypeInv'
<1>. USE DEF TypeInv, TypeOK
<1>1. CASE DeleteInstance
  <2>1. /\ local' \in ObjectType /\ Refers(local', cur) /\ pc' \in {"ignition", "patch"}
        /\ faults' \in 0..MaxFaults /\ local.id \in DOMAIN instances
    <3>1. local.id \in DOMAIN instances
      BY <1>1, MarkType DEF DeleteInstance, Refers
    <3>. QED BY <1>1, <3>1, MarkType, FaultArithmetic DEF DeleteInstance
  <2>2. /\ instances' \in Seq(InstanceType) /\ Len(instances') = Len(instances)
        /\ DOMAIN instances' = DOMAIN instances /\ Kept
    <3>1. CASE UNCHANGED instances
      BY <3>1 DEF CloudTypeOK, Kept
    <3>2. CASE instances' = [instances EXCEPT ![local.id].state = "deleting"]
      BY <2>1, <3>2, InstanceUpdate DEF States
    <3>. QED BY <1>1, <3>1, <3>2 DEF DeleteInstance
  <2>3. CloudTypeOK'
    BY <1>1, <2>2 DEF DeleteInstance, CloudTypeOK
  <2>4. ApiTypeOK' /\ ControllerTypeOK' /\ RegisterInv'
    BY <1>1, <2>1, <2>2, ApiKept, LocalStep DEF DeleteInstance
  <2>. QED BY <2>1, <2>3, <2>4
<1>2. CASE DeleteIgnition
  <2>1. Finalized \in ObjectType /\ Refers(Finalized, cur)
    BY <1>2, MarkType, ObjectUpdates DEF DeleteIgnition, Finalized
  <2>2. /\ local' \in ObjectType /\ Refers(local', cur) /\ pc' = "patch"
        /\ faults' \in 0..MaxFaults /\ userData' \subseteq Machines
        /\ cache' = cache \/ cache' = [cache EXCEPT ![cur] = 0]
    BY <1>2, <2>1, MarkType, FaultArithmetic DEF DeleteIgnition, CloudTypeOK
  <2>3. CloudTypeOK' /\ ApiTypeOK'
    BY <1>2, <2>2, ApiKept DEF DeleteIgnition, CloudTypeOK, Kept
  <2>4. ControllerTypeOK' /\ RegisterInv'
    BY <1>2, <2>2, BoundAssumption DEF DeleteIgnition, ControllerTypeOK, RegisterInv, Refers
  <2>. QED BY <2>2, <2>3, <2>4
<1>3. CASE Patch
  <2>1. cur \in Machines /\ local \in ObjectType /\ Refers(local, cur)
        /\ stored[cur] \in ObjectType /\ Refers(stored[cur], cur)
    BY <1>3, MarkType DEF Patch, ApiTypeOK
  <2>2. /\ WithCondition(local) \in ObjectType
        /\ WithCondition(local).provider = local.provider
        /\ WithCondition(local).id = local.id /\ WithCondition(local).ip = local.ip
    BY <2>1 DEF WithCondition, ObjectType
  <2>3. ASSUME NEW parts
        PROVE /\ Patched(stored[cur], parts) \in ObjectType
              /\ Refers(Patched(stored[cur], parts), cur)
    <3>1. Patched(stored[cur], parts) \in ObjectType
      BY <2>1, <2>2 DEF Patched, ObjectType
    <3>2. /\ Patched(stored[cur], parts).provider \in {local.provider, stored[cur].provider}
          /\ Patched(stored[cur], parts).id \in {local.id, stored[cur].id}
          /\ Patched(stored[cur], parts).ip \in {local.ip, stored[cur].ip}
      BY <2>2 DEF Patched
    <3>. QED BY <2>1, <3>1, <3>2 DEF Refers
  <2>4. /\ stored' \in [Machines -> ObjectType]
        /\ \A m \in Machines : Refers(stored'[m], m)
    BY <1>3, <2>1, <2>3 DEF Patch, ApiTypeOK
  <2>5. ApiTypeOK' /\ CloudTypeOK'
    BY <1>3, <2>4 DEF Patch, ApiTypeOK, Refers, cloudVars, CloudTypeOK
  <2>6. ControllerTypeOK' /\ RegisterInv'
    BY <1>3, ForgetType DEF Patch, cloudVars
  <2>. QED BY <1>3, <2>5, <2>6, FaultArithmetic DEF Patch
<1>. QED BY <1>1, <1>2, <1>3

\* The type invariant and its strengthening hold from the start and are kept.
LEMMA TypeInvariant == Spec => []TypeInv
<1>1. Init => TypeInv
  <2>. SUFFICES ASSUME Init PROVE TypeInv
    OBVIOUS
  <2>1. CloudTypeOK
    BY BoundAssumption DEF Init, CloudTypeOK
  <2>2. ApiTypeOK
    BY NewObjectType, NewObjectRefers, BoundAssumption DEF Init, ApiTypeOK
  <2>3. ControllerTypeOK /\ RegisterInv
    BY NewObjectType, BoundAssumption DEF Init, ControllerTypeOK, RegisterInv
  <2>. QED BY <2>1, <2>2, <2>3, BoundAssumption DEF Init, TypeInv, TypeOK
<1>2. TypeInv /\ [Next]_vars => TypeInv'
  <2>. SUFFICES ASSUME TypeInv, [Next]_vars PROVE TypeInv'
    OBVIOUS
  <2>1. CASE UNCHANGED vars
    BY <2>1 DEF vars, cloudVars, apiVars, ctlVars, TypeInv, TypeOK, CloudTypeOK, ApiTypeOK,
       ControllerTypeOK, RegisterInv, Refers
  <2>2. CASE Next
    BY <2>2, EnvironmentType, ControlType, NormalType, DeleteType DEF Next, Steps
  <2>. QED BY <2>1, <2>2
<1>. QED BY <1>1, <1>2, PTL DEF Spec

\* Whatever an object, a pool, the cache or a reconcile names is an instance
\* that was created, and created for that machine.
THEOREM TypeCorrect == Spec => []TypeOK
<1>1. TypeInv => TypeOK
  BY DEF TypeInv
<1>. QED BY <1>1, TypeInvariant, PTL

----------------------------------------------------------------------------
(* A deletion takes along what was recorded.                               *)

Dead(n) == instances[n].state \in {"deleting", "gone"}

\* An object without finalizer has recorded nothing yet.
FinalizerInv ==
    \A m \in Machines :
        /\ phase[m] = "live" /\ ~stored[m].finalizer => stored[m].id = 0
        /\ phase[m] = "deleting" => stored[m].finalizer

\* The object of a reconcile stays, and the reconcile gives its finalizer up
\* only when the instance the API server knows of is dead.
DeleteInv ==
    /\ FinalizerInv
    /\ pc # "idle" => phase[cur] # "gone" /\ stored[cur].finalizer
    /\ pc = "scope" => local = stored[cur]
    /\ pc = "ignition" => /\ phase[cur] = "deleting" /\ local.finalizer
                          /\ local.id = stored[cur].id /\ local.id # 0 /\ Dead(local.id)
    /\ pc # "idle" /\ ~local.finalizer =>
          /\ pc = "patch" /\ phase[cur] = "deleting"
          /\ stored[cur].id # 0 => Dead(stored[cur].id) /\ cur \notin userData

\* Instances that are dead stay dead.
DeadKept == \A n \in DOMAIN instances : Dead(n) => Dead(n)'

\* A step that leaves objects and reconcile alone keeps the invariant.
LEMMA DeleteStutter ==
    ASSUME TypeInv, DeleteInv, DeadKept, UNCHANGED <<stored, phase, cur, local, pc>>,
           userData' \subseteq userData
    PROVE DeleteInv'
<1>1. ASSUME pc # "idle"
      PROVE /\ local.id # 0 => local.id \in DOMAIN instances
            /\ stored[cur].id # 0 => stored[cur].id \in DOMAIN instances
  BY <1>1 DEF TypeInv, TypeOK, ControllerTypeOK, ApiTypeOK, Refers
<1>2. FinalizerInv'
  BY DEF DeleteInv, FinalizerInv
<1>3. pc = "ignition" => Dead(local.id)'
  BY <1>1 DEF DeleteInv, DeadKept, Dead
<1>4. pc # "idle" /\ ~local.finalizer /\ stored[cur].id # 0 => Dead(stored[cur].id)'
  BY <1>1 DEF DeleteInv, DeadKept, Dead
<1>. QED BY <1>2, <1>3, <1>4 DEF DeleteInv, Dead

\* So does one that goes on with a copy that has its finalizer.
LEMMA DeleteGoesOn ==
    ASSUME TypeInv, DeleteInv, UNCHANGED <<stored, phase, cur>>, pc # "idle",
           local'.finalizer, pc' \notin {"idle", "scope", "ignition"}
    PROVE DeleteInv'
BY DEF DeleteInv, FinalizerInv

\* And one that ends the reconcile without a patch.
LEMMA DeleteForgets ==
    ASSUME DeleteInv, UNCHANGED <<stored, phase>>, Forget
    PROVE DeleteInv'
BY DEF DeleteInv, FinalizerInv, Forget

\* A copy that was only marked keeps its finalizer.
LEMMA MarkFinalizer ==
    ASSUME TypeInv, DeleteInv, pc \notin {"idle", "patch"}
    PROVE /\ local.finalizer
          /\ \A st : Mark(st) \/ NotReady(st) => local'.finalizer /\ pc' = "patch"
<1>1. local \in ObjectType /\ local.finalizer
  BY DEF DeleteInv, TypeInv, TypeOK, ControllerTypeOK
<1>. QED BY <1>1 DEF Mark, NotReady, ObjectType

\* A step that changes states of instances only towards the end.
LEMMA StateChange ==
    ASSUME TypeInv, NEW n \in DOMAIN instances, NEW st, NEW ad,
           \/ instances' = [instances EXCEPT ![n].state = st] /\ (Dead(n) => st \in {"deleting", "gone"})
           \/ instances' = [instances EXCEPT ![n].address = ad]
    PROVE DeadKept
<1>1. \A k \in DOMAIN instances : instances[k] \in InstanceType
  BY DEF TypeInv, TypeOK, CloudTypeOK
<1>2. \A k \in DOMAIN instances : k # n => instances'[k] = instances[k]
  OBVIOUS
<1>3. \/ instances'[n] = [instances[n] EXCEPT !.state = st] /\ (Dead(n) => st \in {"deleting", "gone"})
      \/ instances'[n] = [instances[n] EXCEPT !.address = ad]
  OBVIOUS
<1>4. Dead(n) => Dead(n)'
  BY <1>1, <1>3 DEF Dead, InstanceType
<1>. QED BY <1>2, <1>4 DEF DeadKept, Dead

\* Every step keeps the invariant.
LEMMA DeleteStep ==
    ASSUME TypeInv, DeleteInv, [Next]_vars
    PROVE DeleteInv'
<1>. USE DEF cloudVars, apiVars, ctlVars
<1>1. ASSUME UNCHANGED instances PROVE DeadKept
  BY <1>1 DEF DeadKept, Dead
<1>2. ASSUME NEW n \in DOMAIN instances, InstanceProgress(n) \/ AddressAssigned(n) \/ InstanceFails(n)
      PROVE DeleteInv'
  <2>1. DeadKept
    <3>1. CASE InstanceProgress(n)
      BY <3>1, StateChange DEF InstanceProgress, NextStates, Dead
    <3>2. CASE AddressAssigned(n)
      BY <3>2, StateChange DEF AddressAssigned
    <3>3. CASE InstanceFails(n)
      BY <3>3, StateChange DEF InstanceFails, Dead
    <3>. QED BY <1>2, <3>1, <3>2, <3>3
  <2>2. UNCHANGED <<stored, phase, cur, local, pc, userData>>
    BY <1>2 DEF InstanceProgress, AddressAssigned, InstanceFails
  <2>. QED BY <2>1, <2>2, DeleteStutter
<1>3. CASE Environment \/ DeleteImageObject \/ UNCHANGED vars
  BY <1>1, <1>2, <1>3, DeleteStutter
  DEF Environment, Progress, LoadBalancerUpdated, GateOpens, DeleteImageObject, vars
<1>4. ASSUME NEW m \in Machines, CacheExpires(m) \/ ReconcileReturns(m) PROVE DeleteInv'
  BY <1>1, <1>4, DeleteStutter DEF CacheExpires, ReconcileReturns, vars
<1>5. CASE ScopeFails \/ Crash
  BY <1>5, DeleteForgets DEF ScopeFails, Crash
<1>6. ASSUME NEW m \in Machines, DeleteMachineObject(m) PROVE DeleteInv'
  <2>1. phase' = [phase EXCEPT ![m] = IF stored[m].finalizer THEN "deleting" ELSE "gone"]
        /\ phase[m] = "live" /\ phase \in [Machines -> {"live", "deleting", "gone"}]
        /\ UNCHANGED <<stored, cur, local, pc, userData, instances>>
    BY <1>6 DEF DeleteMachineObject, TypeInv, TypeOK, ApiTypeOK
  <2>2. FinalizerInv'
    BY <2>1 DEF DeleteInv, FinalizerInv
  <2>3. pc # "idle" => cur \in Machines
    BY DEF TypeInv, TypeOK, ControllerTypeOK
  <2>. QED BY <2>1, <2>2, <2>3 DEF DeleteInv, Dead
<1>7. ASSUME NEW m \in Machines, CreateMachineObject(m) PROVE DeleteInv'
  <2>1. /\ phase' = [phase EXCEPT ![m] = "live"] /\ stored' = [stored EXCEPT ![m] = NewObject]
        /\ phase[m] = "gone" /\ phase \in [Machines -> {"live", "deleting", "gone"}]
        /\ stored \in [Machines -> ObjectType]
        /\ UNCHANGED <<cur, local, pc, userData, instances>>
    BY <1>7 DEF CreateMachineObject, TypeInv, TypeOK, ApiTypeOK
  <2>2. FinalizerInv'
    BY <2>1 DEF DeleteInv, FinalizerInv, NewObject
  <2>3. pc # "idle" => cur \in Machines /\ cur # m
    BY <2>1 DEF TypeInv, TypeOK, ControllerTypeOK, DeleteInv
  <2>4. pc # "idle" => phase'[cur] = phase[cur] /\ stored'[cur] = stored[cur]
    BY <2>1, <2>3
  <2>. QED BY <2>1, <2>2, <2>4 DEF DeleteInv, Dead
<1>8. ASSUME NEW m \in Machines, EnsureFinalizer(m) PROVE DeleteInv'
  <2>1. /\ stored' = [stored EXCEPT ![m].finalizer = TRUE] /\ stored \in [Machines -> ObjectType]
        /\ pc = "idle" /\ UNCHANGED <<pc, phase>>
    BY <1>8 DEF EnsureFinalizer, TypeInv, TypeOK, ApiTypeOK
  <2>2. \A k \in Machines : stored'[k].id = stored[k].id /\ (stored[k].finalizer => stored'[k].finalizer)
                            /\ stored'[m].finalizer
    BY <2>1 DEF ObjectType
  <2>. QED BY <2>1, <2>2 DEF DeleteInv, FinalizerInv
<1>9. ASSUME NEW m \in Machines, StartReconcile(m) PROVE DeleteInv'
  BY <1>9 DEF StartReconcile, DeleteInv, FinalizerInv
<1>10. CASE WaitAtGate \/ PassGates \/ FindInstance \/ ValidateSystemType \/ ResolveUserData
            \/ ResolveImageAndNetwork \/ CreateInstance \/ SyncFails \/ RegisterPoolMember
  <2>1. UNCHANGED <<stored, phase, cur>> /\ pc \notin {"idle", "patch"}
    BY <1>10 DEF WaitAtGate, PassGates, FindInstance, ValidateSystemType, ResolveUserData,
       ResolveImageAndNetwork, CreateInstance, SyncFails, RegisterPoolMember
  <2>2. /\ \/ UNCHANGED local
           \/ \E st : Mark(st) \/ NotReady(st)
        /\ pc' \notin {"idle", "scope", "ignition"}
    BY <1>10, <2>1, MarkFinalizer
    DEF WaitAtGate, PassGates, FindInstance, ValidateSystemType, ResolveUserData,
        ResolveImageAndNetwork, CreateInstance, SyncFails, RegisterPoolMember, CreationFails
  <2>. QED BY <2>1, <2>2, MarkFinalizer, DeleteGoesOn
<1>11. CASE SyncInstance
  <2>1. local \in ObjectType /\ local.finalizer
    BY <1>11, MarkFinalizer DEF SyncInstance, TypeInv, TypeOK, ControllerTypeOK
  <2>2. local'.finalizer /\ pc' \in {"register", "patch"}
    BY <1>11, <2>1 DEF SyncInstance, ObjectType
  <2>. QED BY <1>11, <2>2, DeleteGoesOn DEF SyncInstance
<1>12. CASE SkipDelete
  <2>1. /\ local = stored[cur] /\ local.id = 0 /\ phase[cur] = "deleting" /\ pc' = "patch"
        /\ UNCHANGED <<stored, phase, cur>> /\ pc # "idle"
    BY <1>12 DEF SkipDelete, DeleteInv
  <2>. QED BY <2>1 DEF DeleteInv, FinalizerInv
<1>13. CASE DeleteInstance
  <2>1. local = stored[cur] /\ local.id # 0 /\ phase[cur] = "deleting" /\ pc = "scope"
        /\ UNCHANGED <<stored, phase, cur>> /\ local.finalizer /\ local.id \in DOMAIN instances
    BY <1>13, MarkFinalizer DEF DeleteInstance, DeleteInv, TypeInv, TypeOK, ControllerTypeOK, Refers
  <2>2. CASE pc' = "ignition"
    <3>1. /\ instances' = [instances EXCEPT ![local.id].state = "deleting"]
          /\ UNCHANGED local
      BY <1>13, <2>2 DEF DeleteInstance, Mark
    <3>2. instances'[local.id].state = "deleting"
      <4>1. instances[local.id] \in InstanceType
        BY <2>1 DEF TypeInv, TypeOK, CloudTypeOK
      <4>2. instances'[local.id] = [instances[local.id] EXCEPT !.state = "deleting"]
        BY <2>1, <3>1
      <4>. QED BY <4>1, <4>2 DEF InstanceType
    <3>. QED BY <2>1, <2>2, <3>1, <3>2 DEF DeleteInv, FinalizerInv, Dead
  <2>3. CASE Mark("false")
    BY <2>1, <2>3, MarkFinalizer, DeleteGoesOn
  <2>. QED BY <1>13, <2>2, <2>3 DEF DeleteInstance
<1>14. CASE DeleteIgnition
  <2>1. /\ phase[cur] = "deleting" /\ local.finalizer /\ local.id = stored[cur].id /\ Dead(local.id)
        /\ UNCHANGED <<stored, phase, cur, instances>> /\ pc = "ignition"
    BY <1>14 DEF DeleteIgnition, DeleteInv
  <2>2. CASE Mark("false")
    BY <2>1, <2>2, MarkFinalizer, DeleteGoesOn
  <2>3. CASE userData' = userData \ {cur} /\ pc' = "patch"
    BY <2>1, <2>3 DEF DeleteInv, FinalizerInv, Dead
  <2>. QED BY <1>14, <2>2, <2>3 DEF DeleteIgnition
<1>15. CASE Patch
  <2>1. cur \in Machines /\ stored[cur].finalizer /\ phase[cur] # "gone"
    BY <1>15 DEF Patch, DeleteInv, TypeInv, TypeOK, ControllerTypeOK
  <2>2. PICK parts : stored' = [stored EXCEPT ![cur] = Patched(stored[cur], parts)]
    BY <1>15 DEF Patch
  <2>3. ~Patched(stored[cur], parts).finalizer => ~local.finalizer
    BY <2>1 DEF Patched, WithCondition, TypeInv, TypeOK, ControllerTypeOK, ObjectType
  <2>4. ~local.finalizer => phase[cur] = "deleting"
    BY <1>15 DEF Patch, DeleteInv
  <2>5. /\ stored \in [Machines -> ObjectType] /\ phase \in [Machines -> {"live", "deleting", "gone"}]
        /\ phase' = IF phase[cur] = "deleting" /\ ~stored'[cur].finalizer
                    THEN [phase EXCEPT ![cur] = "gone"] ELSE phase
    BY <1>15 DEF Patch, TypeInv, TypeOK, ApiTypeOK
  <2>6. FinalizerInv'
    <3>1. ASSUME NEW m \in Machines, m # cur
          PROVE stored'[m] = stored[m] /\ phase'[m] = phase[m]
      BY <2>1, <2>2, <2>5, <3>1
    <3>2. stored'[cur] = Patched(stored[cur], parts)
      BY <2>1, <2>2, <2>5
    <3>3. ~stored'[cur].finalizer => phase'[cur] = "gone"
      BY <2>1, <2>3, <2>4, <2>5, <3>2
    <3>. QED BY <3>1, <3>3 DEF DeleteInv, FinalizerInv
  <2>. QED BY <1>15, <2>6 DEF Patch, Forget, DeleteInv
<1>. QED
  BY <1>2, <1>3, <1>4, <1>5, <1>6, <1>7, <1>8, <1>9, <1>10, <1>11, <1>12, <1>13, <1>14, <1>15
  DEF Next, Steps

\* Whatever fails, and whenever users delete: an object with a recorded
\* instance goes away only after reconcileDelete has deleted the instance and
\* the bootstrap data.
THEOREM DeletionTakesTheInstance == Spec => DeletesWhatItRecorded
<1>. DEFINE A == \A m \in Machines :
         phase[m] # "gone" /\ phase'[m] = "gone" /\ stored[m].id # 0
         => instances[stored[m].id].state \in {"deleting", "gone"} /\ m \notin userData
<1>1. Init => DeleteInv
  BY DEF Init, DeleteInv, FinalizerInv, NewObject
<1>2. TypeInv /\ DeleteInv /\ [Next]_vars => DeleteInv'
  BY DeleteStep
<1>3. TypeInv /\ DeleteInv /\ [Next]_vars => [A]_vars
  <2>. SUFFICES ASSUME TypeInv, DeleteInv, Next, NEW m \in Machines,
                       phase[m] # "gone", phase'[m] = "gone", stored[m].id # 0
                PROVE instances[stored[m].id].state \in {"deleting", "gone"} /\ m \notin userData
    BY DEF A
  <2>1. phase \in [Machines -> {"live", "deleting", "gone"}] /\ stored \in [Machines -> ObjectType]
    BY DEF TypeInv, TypeOK, ApiTypeOK
  <2>2. ASSUME NEW k \in Machines, DeleteMachineObject(k) PROVE FALSE
    BY <2>1, <2>2 DEF DeleteMachineObject, DeleteInv, FinalizerInv
  <2>3. ASSUME NEW k \in Machines, CreateMachineObject(k) PROVE FALSE
    BY <2>1, <2>3 DEF CreateMachineObject
  <2>4. CASE Patch
    <3>1. cur \in Machines /\ stored[cur].finalizer
      BY <2>4 DEF Patch, DeleteInv, TypeInv, TypeOK, ControllerTypeOK
    <3>2. m = cur /\ ~stored'[cur].finalizer
      BY <2>1, <2>4, <3>1 DEF Patch
    <3>3. PICK parts : stored' = [stored EXCEPT ![cur] = Patched(stored[cur], parts)]
      BY <2>4 DEF Patch
    <3>4. ~local.finalizer
      <4>1. ~Patched(stored[cur], parts).finalizer
        BY <2>1, <3>1, <3>2, <3>3
      <4>. QED BY <3>1, <4>1 DEF Patched, WithCondition, TypeInv, TypeOK, ControllerTypeOK, ObjectType
    <3>. QED BY <2>4, <3>2, <3>4 DEF Patch, DeleteInv, Dead
  <2>5. CASE UNCHANGED phase
    BY <2>5
  <2>. QED
    BY <2>2, <2>3, <2>4, <2>5
    DEF Next, Environment, Progress, InstanceProgress, AddressAssigned, InstanceFails,
        LoadBalancerUpdated, GateOpens, DeleteImageObject, CacheExpires, ReconcileReturns,
        EnsureFinalizer, StartReconcile, Steps, ScopeFails, WaitAtGate, PassGates, FindInstance,
        ValidateSystemType, ResolveUserData, ResolveImageAndNetwork, CreateInstance, SyncInstance,
        SyncFails, RegisterPoolMember, SkipDelete, DeleteInstance, DeleteIgnition, Crash,
        vars, apiVars
<1>4. TypeInv /\ DeleteInv /\ [Next]_vars => [\A m \in Machines :
         phase[m] # "gone" /\ phase'[m] = "gone" /\ stored[m].id # 0
         => instances[stored[m].id].state \in {"deleting", "gone"} /\ m \notin userData]_vars
  BY <1>3
<1>. HIDE DEF A
<1>. QED BY <1>1, <1>2, <1>4, TypeInvariant, PTL DEF Spec, DeletesWhatItRecorded

----------------------------------------------------------------------------
(* A ready machine is in its pool.                                         *)

\* The first pool that is for a machine.
IsFirst(k, m) ==
    m \in Pools[k].machines /\ \A j \in DOMAIN Pools : m \in Pools[j].machines => k <= j

\* A copy of the object that says "true" has its address in the first pool.
Registered(o, m) ==
    o.cond = "true" /\ o.ip # 0 => \A k \in DOMAIN Pools : IsFirst(k, m) => o.ip \in members[k]

\* Before the first condition a machine is not provisioned, so the condition
\* that the patch makes up does not say "true".
Marked(o) == o.cond = "none" => ~o.provisioned

\* Between the lookup and the registration the copy may still say "true" of an
\* address the machine had before.
RegisteredInv ==
    /\ \A m \in Machines : Registered(stored[m], m) /\ Marked(stored[m])
    /\ pc \notin {"idle", "register"} => Registered(local, cur) /\ Marked(local)

\* Members stay.
MembersKept == \A k \in DOMAIN Pools : members[k] \subseteq members'[k]

\* What is written about an object stays true as members stay.
LEMMA StoredKept ==
    ASSUME RegisteredInv, MembersKept, UNCHANGED stored
    PROVE \A m \in Machines : Registered(stored[m], m)' /\ Marked(stored[m])'
BY DEF RegisteredInv, MembersKept, Registered, Marked, IsFirst

\* A step that leaves the copy as it is, and does not come from the registration.
LEMMA CopyKept ==
    ASSUME RegisteredInv, MembersKept, UNCHANGED <<stored, cur, local>>,
           pc' \in {"idle", "register"} \/ pc \notin {"idle", "register"}
    PROVE RegisteredInv'
<1>1. pc' \notin {"idle", "register"} => Registered(local, cur)' /\ Marked(local)'
  BY DEF RegisteredInv, MembersKept, Registered, Marked, IsFirst
<1>. QED BY <1>1, StoredKept DEF RegisteredInv

\* A step that leaves the copy with a condition other than "true", or ends.
LEMMA CopyMarked ==
    ASSUME RegisteredInv, MembersKept, UNCHANGED stored,
           pc' = "idle" \/ local'.cond \in {"unknown", "false"}
    PROVE RegisteredInv'
<1>1. pc' \notin {"idle", "register"} => Registered(local, cur)' /\ Marked(local)'
  BY DEF Registered, Marked
<1>. QED BY <1>1, StoredKept DEF RegisteredInv

\* Mark and NotReady set the condition and leave the address.
LEMMA MarkSets ==
    ASSUME TypeInv
    PROVE \A st \in {"unknown", "true", "false"} :
              Mark(st) \/ NotReady(st) => local'.cond = st /\ local'.ip = local.ip
BY DEF Mark, NotReady, TypeInv, TypeOK, ControllerTypeOK, ObjectType

\* Registration: the copy that says "true" is in the first pool, because the
\* pool that gets the member is the first one that lacks it.
LEMMA RegistrationRegisters ==
    ASSUME TypeInv, RegisteredInv, RegisterPoolMember
    PROVE RegisteredInv'
<1>1. /\ members \in [DOMAIN Pools -> SUBSET (DOMAIN instances)] /\ DOMAIN Pools \subseteq Int
      /\ UNCHANGED <<stored, cur>> /\ pc = "register"
  <2>1. DOMAIN Pools \subseteq Int
    BY PoolAssumption
  <2>. QED BY <2>1 DEF RegisterPoolMember, TypeInv, TypeOK, CloudTypeOK, apiVars
<1>2. MembersKept
  BY <1>1 DEF RegisterPoolMember, MembersKept, FirstMissing, Missing
<1>3. CASE Mark("false")
  BY <1>1, <1>2, <1>3, CopyMarked, MarkSets
<1>4. ASSUME Mark("true"),
             \/ Missing = {}
             \/ \E k \in FirstMissing : members' = [members EXCEPT ![k] = @ \cup {local.ip}]
      PROVE RegisteredInv'
  <2>1. local'.ip = local.ip /\ local'.cond = "true"
    BY <1>4, MarkSets
  <2>2. ASSUME NEW k \in DOMAIN Pools, IsFirst(k, cur) PROVE local.ip \in members'[k]
    <3>1. CASE local.ip \in members[k]
      BY <1>2, <3>1 DEF MembersKept
    <3>2. CASE local.ip \notin members[k]
      <4>1. k \in Missing
        BY <2>2, <3>2 DEF Missing, IsFirst
      <4>2. PICK j \in FirstMissing : members' = [members EXCEPT ![j] = @ \cup {local.ip}]
        BY <1>4, <4>1
      <4>3. j \in DOMAIN Pools /\ j <= k /\ k <= j
        BY <2>2, <4>1 DEF FirstMissing, Missing, IsFirst
      <4>4. j = k
        BY <1>1, <4>3
      <4>. QED BY <1>1, <4>2, <4>3, <4>4
    <3>. QED BY <3>1, <3>2
  <2>3. Registered(local, cur)' /\ Marked(local)'
    BY <1>1, <2>1, <2>2 DEF Registered, Marked, IsFirst
  <2>. QED BY <1>1, <1>2, <2>3, StoredKept DEF RegisteredInv
<1>. QED BY <1>3, <1>4 DEF RegisterPoolMember

\* Every step keeps the invariant, if every patch is written as a whole.
LEMMA RegisteredStep ==
    ASSUME "patch" \notin FaultKinds, TypeInv, RegisteredInv, [Next]_vars
    PROVE RegisteredInv'
<1>. USE DEF cloudVars, apiVars, ctlVars
<1>1. ASSUME UNCHANGED members PROVE MembersKept
  BY <1>1 DEF MembersKept
<1>2. CASE \/ Environment \/ DeleteImageObject \/ UNCHANGED vars
           \/ \E n \in DOMAIN instances : InstanceFails(n)
           \/ \E m \in Machines : DeleteMachineObject(m) \/ CacheExpires(m) \/ ReconcileReturns(m)
  <2>1. UNCHANGED <<stored, cur, local, pc, members>>
    BY <1>2 DEF Environment, Progress, InstanceProgress, AddressAssigned, LoadBalancerUpdated,
       GateOpens, DeleteImageObject, vars, InstanceFails, DeleteMachineObject, CacheExpires,
       ReconcileReturns
  <2>. QED BY <1>1, <2>1, CopyKept
<1>3. CASE ScopeFails \/ Crash
  BY <1>1, <1>3, CopyMarked DEF ScopeFails, Crash, Forget
<1>4. ASSUME NEW m \in Machines, CreateMachineObject(m) PROVE RegisteredInv'
  <2>1. /\ stored' = [stored EXCEPT ![m] = NewObject] /\ stored \in [Machines -> ObjectType]
        /\ UNCHANGED <<members, cur, local, pc>>
    BY <1>4 DEF CreateMachineObject, TypeInv, TypeOK, ApiTypeOK
  <2>2. \A k \in Machines : Registered(stored[k], k)' /\ Marked(stored[k])'
    BY <2>1 DEF RegisteredInv, Registered, Marked, NewObject, IsFirst
  <2>. QED BY <2>1, <2>2 DEF RegisteredInv, Registered, Marked, IsFirst
<1>5. ASSUME NEW m \in Machines, EnsureFinalizer(m) PROVE RegisteredInv'
  <2>1. /\ stored' = [stored EXCEPT ![m].finalizer = TRUE] /\ stored \in [Machines -> ObjectType]
        /\ UNCHANGED <<members, cur, local, pc>> /\ pc = "idle"
    BY <1>5 DEF EnsureFinalizer, TypeInv, TypeOK, ApiTypeOK
  <2>2. \A k \in Machines : /\ stored'[k].cond = stored[k].cond /\ stored'[k].ip = stored[k].ip
                            /\ stored'[k].provisioned = stored[k].provisioned
    BY <2>1 DEF ObjectType
  <2>. QED BY <2>1, <2>2 DEF RegisteredInv, Registered, Marked, IsFirst
<1>6. ASSUME NEW m \in Machines, StartReconcile(m) PROVE RegisteredInv'
  BY <1>6 DEF StartReconcile, RegisteredInv, Registered, Marked, IsFirst
<1>7. CASE WaitAtGate \/ PassGates \/ FindInstance \/ ValidateSystemType \/ ResolveUserData
           \/ ResolveImageAndNetwork \/ CreateInstance \/ SyncFails
  <2>1. UNCHANGED <<stored, cur, members>> /\ pc \notin {"idle", "register"}
    BY <1>7 DEF WaitAtGate, PassGates, FindInstance, ValidateSystemType, ResolveUserData,
       ResolveImageAndNetwork, CreateInstance, SyncFails
  <2>2. UNCHANGED local \/ \E st \in {"unknown", "false"} : Mark(st) \/ NotReady(st)
    BY <1>7
    DEF WaitAtGate, PassGates, FindInstance, ValidateSystemType, ResolveUserData,
        ResolveImageAndNetwork, CreateInstance, SyncFails, CreationFails
  <2>. QED BY <1>1, <2>1, <2>2, MarkSets, CopyKept, CopyMarked
<1>8. CASE SyncInstance
  <2>1. UNCHANGED <<stored, cur, members>> /\ local \in ObjectType
    BY <1>8 DEF SyncInstance, TypeInv, TypeOK, ControllerTypeOK
  <2>2. \/ pc' = "register"
        \/ local'.cond \in {"unknown", "false"}
        \/ local'.cond = "true" /\ Pools = <<>>
    BY <1>8, <2>1 DEF SyncInstance, ObjectType
  <2>3. CASE pc' = "register" \/ (local'.cond = "true" /\ Pools = <<>>)
    <3>1. pc' # "register" => Registered(local, cur)' /\ Marked(local)'
      BY <2>3 DEF Registered, Marked
    <3>. QED BY <1>1, <2>1, <3>1, StoredKept DEF RegisteredInv
  <2>. QED BY <1>1, <2>1, <2>2, <2>3, CopyMarked
<1>9. CASE SkipDelete
  <2>1. UNCHANGED <<stored, members>> /\ local'.cond = "false"
    BY <1>9 DEF SkipDelete, Finalized, TypeInv, TypeOK, ControllerTypeOK, ObjectType
  <2>. QED BY <1>1, <2>1, CopyMarked
<1>10. CASE DeleteInstance \/ DeleteIgnition
  <2>1. UNCHANGED <<stored, cur, members>> /\ pc \notin {"idle", "register"}
    BY <1>10 DEF DeleteInstance, DeleteIgnition
  <2>2. UNCHANGED local \/ Mark("false") \/ local' = Finalized
    BY <1>10 DEF DeleteInstance, DeleteIgnition
  <2>3. local' = Finalized => local'.cond = "false"
    BY DEF Finalized, TypeInv, TypeOK, ControllerTypeOK, ObjectType
  <2>. QED BY <1>1, <2>1, <2>2, <2>3, MarkSets, CopyKept, CopyMarked
<1>11. CASE Patch
  <2>1. /\ stored' = [stored EXCEPT ![cur] = Patched(stored[cur], PatchParts)]
        /\ cur \in Machines /\ stored \in [Machines -> ObjectType] /\ local \in ObjectType
        /\ UNCHANGED members /\ pc' = "idle" /\ pc = "patch"
    BY <1>11 DEF Patch, Fault, Forget, TypeInv, TypeOK, ApiTypeOK, ControllerTypeOK
  <2>2. /\ stored'[cur].ip = local.ip
        /\ stored'[cur].cond # "none"
        /\ stored'[cur].cond = "true" => local.cond = "true"
    <3>1. WithCondition(local) = [local EXCEPT !.cond =
              IF local.cond # "none" THEN local.cond ELSE IF local.provisioned THEN "true" ELSE "false"]
      BY DEF WithCondition
    <3>2. /\ WithCondition(local).ip = local.ip
          /\ WithCondition(local).cond # "none"
          /\ WithCondition(local).cond = "true" => local.cond = "true"
      BY <2>1, <3>1 DEF RegisteredInv, Marked, ObjectType
    <3>3. /\ stored'[cur].ip = WithCondition(local).ip
          /\ stored'[cur].cond = WithCondition(local).cond
      BY <2>1 DEF Patched, PatchParts
    <3>. QED BY <3>2, <3>3
  <2>3. Registered(stored'[cur], cur) /\ Marked(stored'[cur])
    BY <2>1, <2>2 DEF RegisteredInv, Registered, Marked
  <2>. QED BY <2>1, <2>3 DEF RegisteredInv, Registered, Marked, IsFirst
<1>. QED
  BY <1>2, <1>3, <1>4, <1>5, <1>6, <1>7, <1>8, <1>9, <1>10, <1>11, RegistrationRegisters
  DEF Next, Steps

\* Whatever else fails, and for any number of pools: a machine whose condition
\* says ready, and has an address, is in the first pool that is for it.  Only a
\* patch that is written in parts may tell otherwise.
THEOREM ReadyMachineIsRegistered ==
    ASSUME "patch" \notin FaultKinds
    PROVE Spec => []ReadyIsRegistered
<1>1. Init => RegisteredInv
  BY DEF Init, RegisteredInv, Registered, Marked, NewObject
<1>2. TypeInv /\ RegisteredInv /\ [Next]_vars => RegisteredInv'
  BY RegisteredStep
<1>3. RegisteredInv => ReadyIsRegistered
  BY DEF RegisteredInv, ReadyIsRegistered, Registered, IsFirst
<1>. QED BY <1>1, <1>2, <1>3, TypeInvariant, PTL DEF Spec
----------------------------------------------------------------------------
(* One instance of a name at a time.                                       *)

Creating == {"systemType", "userData", "resolve", "create"}
Gone(n) == instances[n].state = "gone"

\* The instances of a machine, but for one, are gone.
Others(i, m) == \A k \in DOMAIN instances : instances[k].machine = m /\ k # i => Gone(k)

Unlisted(m) == \E n \in DOMAIN instances : instances[n].machine = m /\ instances[n].state = "unlisted"

\* Once an instance was created all gates are open, until the image is deleted.
GatesInv ==
    /\ "image" \in gates => image
    /\ DOMAIN instances # {} \/ pc \in Creating \cup {"list"} => gates = AllGates \/ ~image

\* OneInstance, for instances that are being deleted as well.
Sole ==
    \A n, k \in DOMAIN instances :
        instances[n].machine = instances[k].machine /\ ~Gone(n) /\ ~Gone(k) => n = k

\* On the way to a creation there is no instance.
AbsentInv == pc \in Creating => Others(0, cur)

\* The failures that make the controller forget that it has created an instance.
Forgetting == {"api", "patch", "crash"}
NoneForgets == \A kind \in Forgetting : kind \notin FaultKinds \/ faults = MaxFaults

\* An instance that is not listed yet is remembered by the unknown condition, in
\* the status and in the copy, unless the object is not to be reconciled again.
Remembered(m) ==
    /\ NoneForgets /\ faults # 0
    /\ phase[m] # "live" \/ ~image \/ stored[m].cond = "unknown" \/ (pc = "patch" /\ cur = m)
    /\ pc # "idle" /\ cur = m =>
          /\ pc \in {"scope", "list", "ignition", "patch"}
          /\ \/ local.cond = "unknown"
             \/ phase[m] = "deleting" /\ pc # "list"
             \/ ~image /\ pc = "patch"
LateInv == \A m \in Machines : Unlisted(m) => Remembered(m)

\* No instance shows up late, or nothing fails that makes the controller forget it.
NoLateForgotten ==
    "late" \notin FaultKinds \/ MaxFaults <= 1 \/ Forgetting \cap FaultKinds = {}

SoleInv == GatesInv /\ (NoLateForgotten \/ faults = 0 => Sole /\ AbsentInv /\ LateInv)

\* States of instances change towards the end: none is added, none comes back,
\* and none is unlisted again.
Ages ==
    /\ DOMAIN instances' = DOMAIN instances
    /\ \A n \in DOMAIN instances :
          /\ instances'[n].machine = instances[n].machine
          /\ instances[n].state = "gone" => instances'[n].state = "gone"
          /\ instances'[n].state = "unlisted" => instances[n].state = "unlisted"

\* Faults only add up.
Counted == faults' = faults \/ (faults < MaxFaults /\ faults' = faults + 1)

\* One instance changes its state or its address.
LEMMA OneAges ==
    ASSUME TypeInv, NEW n \in DOMAIN instances, NEW st, NEW ad,
           \/ /\ instances' = [instances EXCEPT ![n].state = st] /\ st # "unlisted"
              /\ instances[n].state = "gone" => st = "gone"
           \/ instances' = [instances EXCEPT ![n].address = ad]
    PROVE  Ages
<1>1. \A k \in DOMAIN instances : instances[k] \in InstanceType
  BY DEF TypeInv, TypeOK, CloudTypeOK
<1>2. \A k \in DOMAIN instances : k # n => instances'[k] = instances[k]
  OBVIOUS
<1>3. \/ /\ instances'[n] = [instances[n] EXCEPT !.state = st] /\ st # "unlisted"
         /\ instances[n].state = "gone" => st = "gone"
      \/ instances'[n] = [instances[n] EXCEPT !.address = ad]
  OBVIOUS
<1>4. /\ instances'[n].machine = instances[n].machine
      /\ instances[n].state = "gone" => instances'[n].state = "gone"
      /\ instances'[n].state = "unlisted" => instances[n].state = "unlisted"
  BY <1>1, <1>3 DEF InstanceType
<1>. QED BY <1>2, <1>4 DEF Ages

\* Nothing happens to the instances.
LEMMA NoneAges == UNCHANGED instances => Ages
BY DEF Ages

\* What is said of the instances of a machine stays true as they age.
LEMMA AgesKeeps ==
    ASSUME Ages
    PROVE  /\ Sole => Sole'
           /\ \A i, m : Others(i, m) =>
                 \A k \in DOMAIN instances' : instances'[k].machine = m /\ k # i => instances'[k].state = "gone"
           /\ \A m : (\E n \in DOMAIN instances' : instances'[n].machine = m
                                                   /\ instances'[n].state = "unlisted") => Unlisted(m)
BY DEF Ages, Sole, Others, Gone, Unlisted

\* Every step counts its fault.
LEMMA StepCounts == [Next]_vars => Counted
BY DEF Next, Environment, Progress, InstanceProgress, AddressAssigned, InstanceFails,
       LoadBalancerUpdated, GateOpens, DeleteImageObject, DeleteMachineObject,
       CreateMachineObject, CacheExpires, ReconcileReturns,
       EnsureFinalizer, StartReconcile, Steps, ScopeFails, WaitAtGate, PassGates, FindInstance,
       ValidateSystemType, ResolveUserData, ResolveImageAndNetwork, CreateInstance, SyncInstance,
       Address, SyncFails, RegisterPoolMember, SkipDelete, DeleteInstance, DeleteIgnition, Patch, Crash,
       CreationFails, NoFault, Fault, vars, Counted

\* While an instance is not listed, nothing fails that would forget it.
LEMMA NothingForgotten ==
    ASSUME TypeInv, NoneForgets, NEW kind \in Forgetting
    PROVE  ~Fault(kind)
BY DEF TypeInv, TypeOK, NoneForgets, Fault

\* This stays so.
LEMMA NoneForgetsKept ==
    ASSUME TypeInv, Counted
    PROVE  /\ NoneForgets => NoneForgets'
           /\ faults # 0 => faults' # 0
           /\ faults' = 0 => faults = 0
<1>1. faults \in Nat /\ MaxFaults \in Nat
  BY BoundAssumption DEF TypeInv, TypeOK
<1>. QED BY <1>1 DEF Counted, NoneForgets

\* Steps that change neither the copy nor the conditions.
LEMMA RememberedKept ==
    ASSUME TypeInv, Counted, NEW m \in Machines, Remembered(m),
           UNCHANGED <<cur, local, pc>>, stored'[m].cond = stored[m].cond, ~image => ~image',
           phase[m] # "live" => phase'[m] # "live", phase[m] = "deleting" => phase'[m] = "deleting"
    PROVE  Remembered(m)'
BY NoneForgetsKept DEF Remembered

\* Steps of the reconcile of another machine.
LEMMA RememberedOther ==
    ASSUME TypeInv, Counted, NEW m \in Machines, Remembered(m), m # cur,
           UNCHANGED <<stored, phase, image>>, cur' = cur \/ pc' = "idle"
    PROVE  Remembered(m)'
BY NoneForgetsKept DEF Remembered

\* Steps of its own reconcile.
LEMMA RememberedOwn ==
    ASSUME TypeInv, Counted, NEW m \in Machines, m = cur, Remembered(m), pc \notin {"idle", "patch"},
           UNCHANGED <<stored, phase, image, cur>>, pc' \in {"scope", "list", "ignition", "patch"},
           \/ local'.cond = "unknown"
           \/ phase[m] = "deleting" /\ pc' # "list"
           \/ ~image /\ pc' = "patch"
    PROVE  Remembered(m)'
BY NoneForgetsKept DEF Remembered

\* The gates.
LEMMA GatesStep ==
    ASSUME TypeInv, GatesInv, [Next]_vars
    PROVE  GatesInv'
<1>. USE DEF cloudVars, apiVars, ctlVars, Creating
<1>0. /\ \A n \in DOMAIN instances :
           /\ \A st : DOMAIN [instances EXCEPT ![n].state = st] = DOMAIN instances
           /\ \A ad : DOMAIN [instances EXCEPT ![n].address = ad] = DOMAIN instances
      /\ gates \subseteq AllGates /\ image \in BOOLEAN
  BY DEF TypeInv, TypeOK, ApiTypeOK
<1>1. CASE UNCHANGED <<gates, image>> /\ DOMAIN instances' = DOMAIN instances
           /\ (pc' \in Creating \cup {"list"} => pc \in Creating \cup {"list"} \/ gates = AllGates)
  BY <1>1 DEF GatesInv
<1>2. ASSUME NEW n \in DOMAIN instances, InstanceProgress(n) \/ AddressAssigned(n) \/ InstanceFails(n)
      PROVE  GatesInv'
  BY <1>0, <1>1, <1>2 DEF InstanceProgress, AddressAssigned, InstanceFails
<1>3. ASSUME NEW gate \in AllGates, GateOpens(gate) PROVE GatesInv'
  BY <1>0, <1>3 DEF GatesInv, GateOpens
<1>4. CASE DeleteImageObject
  BY <1>4 DEF GatesInv, DeleteImageObject
<1>5. CASE CreateInstance
  <2>1. pc' \notin Creating \cup {"list"} /\ pc = "create" /\ UNCHANGED <<gates, image>>
    BY <1>5 DEF CreateInstance, CreationFails, Mark, NotReady
  <2>. QED BY <2>1 DEF GatesInv
<1>6. CASE DeleteInstance
  <2>1. local.id \in DOMAIN instances
    BY <1>6 DEF DeleteInstance, TypeInv, TypeOK, ControllerTypeOK, Refers
  <2>. QED BY <1>0, <1>1, <1>6, <2>1 DEF DeleteInstance, Mark
<1>7. ASSUME NEW m \in Machines, \/ DeleteMachineObject(m) \/ CreateMachineObject(m) \/ CacheExpires(m)
                                 \/ ReconcileReturns(m) \/ EnsureFinalizer(m) \/ StartReconcile(m)
      PROVE  GatesInv'
  BY <1>1, <1>7 DEF DeleteMachineObject, CreateMachineObject, CacheExpires, ReconcileReturns,
     EnsureFinalizer, StartReconcile, vars
<1>8. ASSUME NEW lb, LoadBalancerUpdated(lb) PROVE GatesInv'
  BY <1>1, <1>8 DEF LoadBalancerUpdated
<1>9. CASE \/ Crash \/ UNCHANGED vars \/ ScopeFails \/ WaitAtGate \/ PassGates \/ SkipDelete
           \/ DeleteIgnition \/ Patch
  BY <1>1, <1>9 DEF Crash, vars, ScopeFails, WaitAtGate, PassGates, SkipDelete, DeleteIgnition, Patch,
     Mark, Forget
<1>10. CASE \/ FindInstance \/ ValidateSystemType \/ ResolveUserData \/ ResolveImageAndNetwork
            \/ SyncInstance \/ SyncFails \/ RegisterPoolMember
  BY <1>1, <1>10 DEF FindInstance, ValidateSystemType, ResolveUserData, ResolveImageAndNetwork,
     SyncInstance, SyncFails, RegisterPoolMember, CreationFails, Mark, NotReady
<1>. QED
  BY <1>2, <1>3, <1>4, <1>5, <1>6, <1>7, <1>8, <1>9, <1>10 DEF Next, Steps, Environment, Progress

SoleParts == Sole /\ AbsentInv /\ LateInv

\* Steps outside of the reconcile, and those of objects.
LEMMA SoleOutside ==
    ASSUME TypeInv, DeleteInv, SoleParts, Counted,
           \/ Environment \/ DeleteImageObject \/ UNCHANGED vars
           \/ \E n \in DOMAIN instances : InstanceFails(n)
           \/ \E m \in Machines :
                 \/ DeleteMachineObject(m) \/ CreateMachineObject(m) \/ CacheExpires(m)
                 \/ ReconcileReturns(m) \/ EnsureFinalizer(m)
    PROVE  SoleParts'
<1>. USE DEF cloudVars, apiVars, ctlVars
<1>1. phase \in [Machines -> {"live", "deleting", "gone"}] /\ stored \in [Machines -> ObjectType]
      /\ (pc # "idle" => cur \in Machines)
  BY DEF TypeInv, TypeOK, ApiTypeOK, ControllerTypeOK
<1>2. ASSUME Ages, UNCHANGED <<cur, local, pc>>, ~image => ~image',
             \A m \in Machines : Unlisted(m) =>
                /\ stored'[m].cond = stored[m].cond
                /\ phase[m] # "live" => phase'[m] # "live"
                /\ phase[m] = "deleting" => phase'[m] = "deleting"
      PROVE  SoleParts'
  <2>1. Sole'
    BY <1>2, AgesKeeps DEF SoleParts
  <2>2. AbsentInv'
    BY <1>2, AgesKeeps DEF SoleParts, AbsentInv, Others, Gone
  <2>3. LateInv'
    <3>. SUFFICES ASSUME NEW m \in Machines, Unlisted(m)' PROVE Remembered(m)'
      BY DEF LateInv
    <3>1. Unlisted(m)
      BY <1>2, AgesKeeps DEF Unlisted
    <3>. QED BY <1>2, <3>1, RememberedKept DEF SoleParts, LateInv
  <2>. QED BY <2>1, <2>2, <2>3 DEF SoleParts
<1>3. ASSUME NEW n \in DOMAIN instances, InstanceProgress(n) \/ AddressAssigned(n) \/ InstanceFails(n)
      PROVE  SoleParts'
  <2>1. UNCHANGED <<cur, local, pc, image, stored, phase>>
    BY <1>3 DEF InstanceProgress, AddressAssigned, InstanceFails
  <2>2. CASE InstanceProgress(n)
    <3>1. PICK st \in NextStates(instances[n].state) : instances' = [instances EXCEPT ![n].state = st]
      BY <2>2 DEF InstanceProgress
    <3>2. st # "unlisted" /\ instances[n].state # "gone"
      BY <3>1 DEF NextStates
    <3>3. Ages
      BY <3>1, <3>2, OneAges
    <3>. QED BY <1>2, <2>1, <3>3
  <2>3. CASE AddressAssigned(n)
    <3>1. Ages
      BY <2>3, OneAges DEF AddressAssigned
    <3>. QED BY <1>2, <2>1, <3>1
  <2>4. CASE InstanceFails(n)
    <3>1. Ages
      BY <2>4, OneAges DEF InstanceFails
    <3>. QED BY <1>2, <2>1, <3>1
  <2>. QED BY <1>3, <2>2, <2>3, <2>4
<1>4. CASE UNCHANGED <<instances, cur, local, pc, stored, phase>> /\ (~image => ~image')
  BY <1>2, <1>4, NoneAges
<1>5. CASE DeleteImageObject \/ UNCHANGED vars
  BY <1>4, <1>5 DEF DeleteImageObject, vars
<1>6. CASE \E lb \in LoadBalancers : LoadBalancerUpdated(lb)
  BY <1>4, <1>6 DEF LoadBalancerUpdated
<1>7. CASE \E gate \in AllGates : GateOpens(gate)
  BY <1>4, <1>7 DEF GateOpens
<1>8. ASSUME NEW m \in Machines, CacheExpires(m) \/ ReconcileReturns(m) PROVE SoleParts'
  BY <1>4, <1>8 DEF CacheExpires, ReconcileReturns, vars
<1>9. ASSUME NEW m \in Machines, DeleteMachineObject(m) PROVE SoleParts'
  <2>1. UNCHANGED <<instances, cur, local, pc, stored, image>>
        /\ \A k \in Machines : phase[k] # "live" => phase'[k] = phase[k]
    BY <1>1, <1>9 DEF DeleteMachineObject
  <2>. QED BY <1>1, <1>2, <2>1, NoneAges
<1>10. ASSUME NEW m \in Machines, CreateMachineObject(m) PROVE SoleParts'
  <2>1. UNCHANGED <<instances, cur, local, pc, image>> /\ ~Unlisted(m)
        /\ \A k \in Machines : k # m => phase'[k] = phase[k] /\ stored'[k] = stored[k]
    BY <1>1, <1>10 DEF CreateMachineObject, Unlisted
  <2>. QED BY <1>1, <1>2, <2>1, NoneAges
<1>11. ASSUME NEW m \in Machines, EnsureFinalizer(m) PROVE SoleParts'
  <2>1. UNCHANGED <<instances, cur, local, pc, image, phase>>
        /\ stored' = [stored EXCEPT ![m].finalizer = TRUE]
    BY <1>11 DEF EnsureFinalizer
  <2>2. \A k \in Machines : stored'[k].cond = stored[k].cond
    BY <1>1, <2>1 DEF ObjectType
  <2>. QED BY <1>2, <2>1, <2>2, NoneAges
<1>. QED BY <1>3, <1>5, <1>6, <1>7, <1>8, <1>9, <1>10, <1>11 DEF Environment, Progress

\* A reconcile starts, or ends without a patch.
LEMMA SoleStartsAndEnds ==
    ASSUME TypeInv, DeleteInv, SoleParts, Counted,
           ScopeFails \/ Crash \/ \E m \in Machines : StartReconcile(m)
    PROVE  SoleParts'
<1>. USE DEF cloudVars, apiVars, ctlVars
<1>1. UNCHANGED <<instances, stored, phase, image>> /\ pc' \in {"idle", "scope"} /\ Ages
  BY NoneAges DEF ScopeFails, Crash, StartReconcile, Forget
<1>2. Sole' /\ AbsentInv'
  BY <1>1, AgesKeeps DEF SoleParts, AbsentInv, Creating
<1>3. ASSUME NEW m \in Machines, Unlisted(m)' PROVE Remembered(m)'
  <2>1. Unlisted(m) /\ Remembered(m)
    BY <1>1, <1>3, AgesKeeps DEF Unlisted, SoleParts, LateInv
  <2>2. ~Fault("crash")
    BY <2>1, NothingForgotten DEF Remembered, Forgetting
  <2>3. NoneForgets' /\ faults' # 0
    BY <2>1, NoneForgetsKept DEF Remembered
  <2>4. CASE ScopeFails
    BY <1>1, <2>1, <2>3, <2>4 DEF ScopeFails, Forget, Remembered
  <2>5. ASSUME NEW k \in Machines, StartReconcile(k) PROVE Remembered(m)'
    <3>1. pc = "idle" /\ phase[k] # "gone" /\ image /\ cur' = k /\ local' = stored[k] /\ pc' = "scope"
      BY <2>5 DEF StartReconcile
    <3>2. phase[k] \in {"live", "deleting", "gone"}
      BY DEF TypeInv, TypeOK, ApiTypeOK
    <3>. QED BY <1>1, <2>1, <2>3, <3>1, <3>2 DEF Remembered
  <2>. QED BY <2>2, <2>4, <2>5 DEF Crash
<1>. QED BY <1>2, <1>3 DEF SoleParts, LateInv

\* The steps of a reconcile that do not create an instance.
LEMMA SoleReconciles ==
    ASSUME TypeInv, DeleteInv, GatesInv, SoleParts, Counted,
           \/ WaitAtGate \/ PassGates \/ FindInstance \/ ValidateSystemType \/ ResolveUserData
           \/ ResolveImageAndNetwork \/ SyncInstance \/ SyncFails \/ RegisterPoolMember
           \/ SkipDelete \/ DeleteInstance \/ DeleteIgnition
    PROVE  SoleParts'
<1>. USE DEF cloudVars, apiVars, ctlVars
<1>1. UNCHANGED <<stored, phase, image, cur>> /\ pc \notin {"idle", "patch"}
  BY DEF WaitAtGate, PassGates, FindInstance, ValidateSystemType, ResolveUserData,
     ResolveImageAndNetwork, SyncInstance, SyncFails, RegisterPoolMember, SkipDelete,
     DeleteInstance, DeleteIgnition
<1>2. cur \in Machines /\ local \in ObjectType
  BY <1>1 DEF TypeInv, TypeOK, ControllerTypeOK
<1>3. Ages
  <2>1. CASE DeleteInstance
    <3>1. local.id \in DOMAIN instances
      BY <2>1 DEF DeleteInstance, TypeInv, TypeOK, ControllerTypeOK, Refers
    <3>. QED BY <2>1, <3>1, OneAges, NoneAges DEF DeleteInstance
  <2>2. CASE UNCHANGED instances
    BY <2>2, NoneAges
  <2>. QED
    BY <2>1, <2>2 DEF WaitAtGate, PassGates, FindInstance, ValidateSystemType, ResolveUserData,
       ResolveImageAndNetwork, SyncInstance, SyncFails, RegisterPoolMember, SkipDelete,
       DeleteIgnition
<1>4. ASSUME Unlisted(cur) PROVE Remembered(cur) /\ ~Fault("api") /\ DOMAIN instances # {}
  <2>1. Remembered(cur)
    BY <1>2, <1>4 DEF SoleParts, LateInv
  <2>. QED BY <1>4, <2>1, NothingForgotten DEF Remembered, Forgetting, Unlisted
<1>5. ASSUME Unlisted(cur)
      PROVE  /\ pc' \in {"scope", "list", "ignition", "patch"}
             /\ \/ local'.cond = "unknown"
                \/ phase[cur] = "deleting" /\ pc' # "list"
                \/ ~image /\ pc' = "patch"
  <2>1. pc \in {"scope", "list", "ignition"}
    BY <1>1, <1>4, <1>5 DEF Remembered
  <2>2. CASE WaitAtGate
    BY <1>4, <1>5, <2>2 DEF WaitAtGate, Mark, GatesInv
  <2>3. CASE PassGates
    BY <1>4, <1>5, <2>3 DEF PassGates, Remembered
  <2>4. CASE FindInstance
    <3>1. local.cond = "unknown" /\ pc = "list"
      BY <1>4, <1>5, <2>4 DEF FindInstance, Remembered
    <3>2. Listed(cur) = {}
      BY <1>5 DEF Listed, SoleParts, Sole, Gone, Unlisted
    <3>3. NotReady("unknown")
      BY <1>4, <1>5, <2>4, <3>1, <3>2 DEF FindInstance
    <3>. QED BY <1>2, <3>3 DEF NotReady, ObjectType
  <2>5. CASE SkipDelete
    BY <2>5 DEF SkipDelete
  <2>6. CASE DeleteInstance
    BY <2>6 DEF DeleteInstance, Mark
  <2>7. CASE DeleteIgnition
    BY <2>7 DEF DeleteIgnition, Mark, DeleteInv
  <2>. QED
    BY <2>1, <2>2, <2>3, <2>4, <2>5, <2>6, <2>7
    DEF ValidateSystemType, ResolveUserData, ResolveImageAndNetwork, SyncInstance, SyncFails,
        RegisterPoolMember
<1>6. LateInv'
  <2>. SUFFICES ASSUME NEW m \in Machines, Unlisted(m)' PROVE Remembered(m)'
    BY DEF LateInv
  <2>1. Unlisted(m) /\ Remembered(m)
    BY <1>3, AgesKeeps DEF Unlisted, SoleParts, LateInv
  <2>2. CASE m = cur
    BY <1>1, <1>5, <2>1, <2>2, RememberedOwn
  <2>3. CASE m # cur
    BY <1>1, <2>1, <2>3, RememberedOther
  <2>. QED BY <2>2, <2>3
<1>7. AbsentInv'
  <2>1. CASE pc \in Creating
    BY <1>1, <1>3, <2>1, AgesKeeps DEF SoleParts, AbsentInv, Others, Gone
  <2>2. CASE FindInstance
    <3>. SUFFICES ASSUME pc' \in Creating PROVE Others(0, cur)
      BY <1>1, <1>3, AgesKeeps DEF AbsentInv, Others, Gone
    <3>1. Listed(cur) = {} /\ local.cond # "unknown" /\ pc = "list"
      BY <2>2 DEF FindInstance, Mark, NotReady, Creating
    <3>2. ~Unlisted(cur)
      BY <1>4, <3>1 DEF Remembered
    <3>. QED BY <3>1, <3>2 DEF Listed, Unlisted, Others, Gone
  <2>3. CASE pc' \notin Creating
    BY <2>3 DEF AbsentInv
  <2>. QED
    BY <2>1, <2>2, <2>3
    DEF WaitAtGate, PassGates, ValidateSystemType, ResolveUserData, ResolveImageAndNetwork,
        SyncInstance, SyncFails, RegisterPoolMember, SkipDelete, DeleteInstance, DeleteIgnition,
        Creating, Mark
<1>. QED BY <1>3, <1>6, <1>7, AgesKeeps DEF SoleParts

\* CreateInstance: there was none before, and one that shows up late is remembered.
LEMMA SoleCreates ==
    ASSUME TypeInv, DeleteInv, SoleParts, Counted, CreateInstance,
           NoLateForgotten \/ faults' = 0
    PROVE  SoleParts'
<1>. USE DEF cloudVars, apiVars, ctlVars
<1>1. UNCHANGED <<stored, phase, image, cur>> /\ pc = "create" /\ pc' = "patch"
      /\ cur \in Machines /\ local \in ObjectType /\ AbsentInv'
  BY DEF CreateInstance, CreationFails, Mark, NotReady, TypeInv, TypeOK, ControllerTypeOK,
     AbsentInv, Creating
<1>2. CASE UNCHANGED instances
  <2>1. Ages
    BY <1>2, NoneAges
  <2>2. LateInv'
    <3>. SUFFICES ASSUME NEW m \in Machines, Unlisted(m)' PROVE Remembered(m)'
      BY DEF LateInv
    <3>1. Unlisted(m) /\ Remembered(m)
      BY <2>1, AgesKeeps DEF Unlisted, SoleParts, LateInv
    <3>2. m # cur
      BY <1>1, <3>1 DEF Remembered
    <3>. QED BY <1>1, <3>1, <3>2, RememberedOther
  <2>. QED BY <1>1, <2>1, <2>2, AgesKeeps DEF SoleParts
<1>3. ASSUME NEW st \in {"BUILD", "unlisted"},
             instances' = Append(instances, [machine |-> cur, address |-> "none", state |-> st]),
             st = "unlisted" => Fault("late") /\ NotReady("unknown")
      PROVE  SoleParts'
  <2>. DEFINE new == [machine |-> cur, address |-> "none", state |-> st]
              last == Len(instances) + 1
  <2>1. /\ DOMAIN instances' = DOMAIN instances \cup {last}
        /\ \A k \in DOMAIN instances : instances'[k] = instances[k]
        /\ instances'[last] = new
    <3>1. instances \in Seq(InstanceType)
      BY DEF TypeInv, TypeOK, CloudTypeOK
    <3>. QED BY <1>3, <3>1
  <2>2. new.machine = cur /\ new.state = st
    OBVIOUS
  <2>. HIDE DEF new, last
  <2>3. Others(0, cur) /\ 0 \notin DOMAIN instances
    <3>1. instances \in Seq(InstanceType)
      BY DEF TypeInv, TypeOK, CloudTypeOK
    <3>. QED BY <1>1, <3>1 DEF SoleParts, AbsentInv, Creating
  <2>4. Sole'
    <3>1. \A k \in DOMAIN instances : instances[k].machine = cur => instances[k].state = "gone"
      BY <2>3 DEF Others, Gone
    <3>2. \A n, k \in DOMAIN instances : instances[n].machine = instances[k].machine
             /\ instances[n].state # "gone" /\ instances[k].state # "gone" => n = k
      BY DEF SoleParts, Sole, Gone
    <3>. QED BY <2>1, <2>2, <3>1, <3>2 DEF Sole, Gone
  <2>5. LateInv'
    <3>. SUFFICES ASSUME NEW m \in Machines, Unlisted(m)' PROVE Remembered(m)'
      BY DEF LateInv
    <3>1. CASE m # cur
      <4>1. Unlisted(m)
        BY <2>1, <2>2, <3>1 DEF Unlisted
      <4>. QED BY <1>1, <3>1, <4>1, RememberedOther DEF SoleParts, LateInv
    <3>2. CASE m = cur
      <4>1. st = "unlisted"
        BY <2>1, <2>2, <2>3, <3>2 DEF Unlisted, Others, Gone
      <4>2. Fault("late") /\ NotReady("unknown")
        BY <1>3, <4>1
      <4>3. faults \in Nat /\ MaxFaults \in Nat /\ faults < MaxFaults /\ faults' = faults + 1
            /\ "late" \in FaultKinds
        BY <4>2, BoundAssumption DEF Fault, TypeInv, TypeOK
      <4>4. MaxFaults <= 1 \/ Forgetting \cap FaultKinds = {}
        BY <4>3 DEF NoLateForgotten
      <4>5. NoneForgets' /\ faults' # 0
        BY <4>3, <4>4 DEF NoneForgets
      <4>6. local'.cond = "unknown"
        BY <1>1, <4>2 DEF NotReady, ObjectType
      <4>. QED BY <1>1, <3>2, <4>5, <4>6 DEF Remembered
    <3>. QED BY <3>1, <3>2
  <2>. QED BY <1>1, <2>4, <2>5 DEF SoleParts
<1>. QED BY <1>2, <1>3 DEF CreateInstance

\* The patch, written as a whole while an instance is not listed.
LEMMA SolePatches ==
    ASSUME TypeInv, DeleteInv, SoleParts, Counted, Patch
    PROVE  SoleParts'
<1>. USE DEF cloudVars, apiVars, ctlVars
<1>1. UNCHANGED <<instances, image>> /\ pc = "patch" /\ pc' = "idle" /\ Ages
      /\ cur \in Machines /\ local \in ObjectType /\ stored \in [Machines -> ObjectType]
      /\ phase \in [Machines -> {"live", "deleting", "gone"}]
  BY NoneAges DEF Patch, Forget, TypeInv, TypeOK, ControllerTypeOK, ApiTypeOK
<1>2. Sole' /\ AbsentInv'
  BY <1>1, AgesKeeps DEF SoleParts, AbsentInv, Creating
<1>3. ASSUME NEW m \in Machines, Unlisted(m)' PROVE Remembered(m)'
  <2>1. Unlisted(m) /\ Remembered(m)
    BY <1>1, <1>3, AgesKeeps DEF Unlisted, SoleParts, LateInv
  <2>2. ~Fault("patch") /\ NoneForgets' /\ faults' # 0
    BY <2>1, NothingForgotten, NoneForgetsKept DEF Remembered, Forgetting
  <2>3. stored' = [stored EXCEPT ![cur] = Patched(stored[cur], PatchParts)]
    BY <2>2 DEF Patch
  <2>4. phase'[m] = phase[m] \/ phase'[m] = "gone"
    BY <1>1 DEF Patch
  <2>5. CASE m # cur
    <3>1. stored'[m] = stored[m]
      BY <1>1, <2>3, <2>5
    <3>. QED BY <1>1, <2>1, <2>2, <2>4, <2>5, <3>1 DEF Remembered
  <2>6. CASE m = cur
    <3>1. local.cond = "unknown" => stored'[cur].cond = "unknown"
      <4>1. stored'[cur].cond = WithCondition(local).cond
        BY <1>1, <2>3 DEF Patched, PatchParts
      <4>. QED BY <1>1, <4>1 DEF WithCondition, ObjectType
    <3>. QED BY <1>1, <2>1, <2>2, <2>4, <2>6, <3>1 DEF Remembered
  <2>. QED BY <2>5, <2>6
<1>. QED BY <1>2, <1>3 DEF SoleParts, LateInv

\* Every step keeps the invariant.
LEMMA SoleStep ==
    ASSUME TypeInv, DeleteInv, SoleInv, [Next]_vars
    PROVE  SoleInv'
<1>1. Counted
  BY StepCounts
<1>2. GatesInv'
  BY GatesStep DEF SoleInv
<1>3. ASSUME (NoLateForgotten \/ faults = 0)' PROVE SoleParts'
  <2>1. NoLateForgotten \/ faults' = 0
    BY <1>3 DEF NoLateForgotten, Forgetting
  <2>2. SoleParts /\ GatesInv
    BY <1>1, <2>1, NoneForgetsKept DEF SoleInv, SoleParts
  <2>. QED
    BY <1>1, <2>1, <2>2, SoleOutside, SoleStartsAndEnds, SoleReconciles, SoleCreates, SolePatches
    DEF Next, Steps
<1>. QED BY <1>2, <1>3 DEF SoleInv, SoleParts

\* What fails, a lost answer to the creation included, and for any number of
\* machines: CreateMachine never makes a second instance of a name while the first
\* is there, unless an instance is listed late and another failure makes the
\* controller forget that it waits for it.
THEOREM OneInstancePerName ==
    ASSUME NoLateForgotten
    PROVE  Spec => []OneInstance
<1>1. Init => DeleteInv /\ SoleInv
  BY DEF Init, DeleteInv, FinalizerInv, NewObject, SoleInv, GatesInv, Sole, AbsentInv, LateInv,
     Unlisted, Creating
<1>2. TypeInv /\ DeleteInv /\ SoleInv /\ [Next]_vars => DeleteInv' /\ SoleInv'
  BY DeleteStep, SoleStep
<1>3. SoleInv => OneInstance
  BY DEF SoleInv, Sole, OneInstance, Gone
<1>. QED BY <1>1, <1>2, <1>3, TypeInvariant, PTL DEF Spec

----------------------------------------------------------------------------
(* The address in the status is the instance's own.                        *)

\* The copy of an object that has an instance: the other instances of the name
\* are gone, and the address is that of this one.
OwnAddress(o, m) == o.id # 0 => Others(o.id, m) /\ o.ip \in {0, o.id}

\* The instance lives, or the condition says that this is not known.
Lives(o) == o.id # 0 => ~Dead(o.id) \/ o.cond = "unknown"

\* An object; nothing is cached of one that may go.
OwnObject(m) ==
    /\ OwnAddress(stored[m], m)
    /\ phase[m] = "live" /\ image => Lives(stored[m])
    /\ phase[m] = "gone" \/ ~stored[m].finalizer => cache[m] = 0

\* An address in the cache is that of the instance the object has.
OwnCache(m) ==
    cache[m] # 0 => cache[m] = IF pc # "idle" /\ cur = m THEN local.id ELSE stored[m].id

\* The copy of a reconcile.
OwnCopy ==
    /\ OwnAddress(local, cur)
    /\ pc \in {"scope", "list", "get"} \cup Creating => local.id = stored[cur].id
    /\ pc \in Creating => local.id = 0
    /\ pc \in {"list", "get"} => Lives(local)
    /\ pc = "register" => local.id # 0 /\ ~Dead(local.id)
    /\ pc = "patch" /\ phase[cur] = "live" /\ image => Lives(local)
    /\ pc = "patch" /\ ~local.finalizer => cache[cur] = 0

OwnParts == (\A m \in Machines : OwnObject(m) /\ OwnCache(m)) /\ (pc # "idle" => OwnCopy)

OwnInv == faults = 0 => OwnParts

\* No instance of the machine dies.
Spared(m) == \A n \in DOMAIN instances : instances[n].machine = m /\ ~Dead(n) => ~Dead(n)'

\* What an object or a copy says of its instance stays true.
LEMMA OwnAges ==
    ASSUME Ages, NEW m, NEW o, Refers(o, m)
    PROVE  /\ OwnAddress(o, m) =>
                 (o.id # 0 => /\ \A k \in DOMAIN instances' :
                                   instances'[k].machine = m /\ k # o.id => instances'[k].state = "gone"
                              /\ o.ip \in {0, o.id})
           /\ Spared(m) /\ Lives(o) =>
                 (o.id # 0 => instances'[o.id].state \notin {"deleting", "gone"} \/ o.cond = "unknown")
<1>1. o.id # 0 => o.id \in DOMAIN instances /\ instances[o.id].machine = m
  BY DEF Refers
<1>2. Spared(m) /\ Lives(o) => (o.id # 0 => instances'[o.id].state \notin {"deleting", "gone"} \/ o.cond = "unknown")
  BY <1>1 DEF Spared, Lives, Dead
<1>. QED BY <1>2, AgesKeeps DEF OwnAddress

\* The objects, at steps of a reconcile that create no instance.
LEMMA ObjectsOwn ==
    ASSUME TypeInv, DeleteInv, OwnParts, Ages, pc # "idle", pc' # "idle",
           UNCHANGED <<stored, phase, image, cur>>,
           \A m \in Machines : m # cur => cache'[m] = cache[m],
           cache'[cur] # 0 => cache'[cur] = local'.id,
           \A m \in Machines : phase[m] = "live" => Spared(m)
    PROVE  \A m \in Machines : OwnObject(m)' /\ OwnCache(m)'
<1>. SUFFICES ASSUME NEW m \in Machines PROVE OwnObject(m)' /\ OwnCache(m)'
  OBVIOUS
<1>1. Refers(stored[m], m)
  BY DEF TypeInv, TypeOK, ApiTypeOK
<1>2. OwnAddress(stored[m], m)'
  BY <1>1, OwnAges DEF OwnParts, OwnObject, OwnAddress, Others, Gone
<1>3. phase'[m] = "live" /\ image' => Lives(stored[m])'
  BY <1>1, OwnAges DEF OwnParts, OwnObject, Lives, Dead
<1>4. phase'[m] = "gone" \/ ~stored'[m].finalizer => cache'[m] = 0
  BY DEF OwnParts, OwnObject, DeleteInv
<1>. QED BY <1>2, <1>3, <1>4 DEF OwnObject, OwnCache, OwnParts

\* The steps outside of the reconcile, and those of objects.
LEMMA OwnOutside ==
    ASSUME TypeInv, DeleteInv, OwnParts, faults = 0, faults' = 0,
           \/ Environment \/ DeleteImageObject \/ UNCHANGED vars
           \/ \E n \in DOMAIN instances : InstanceFails(n)
           \/ \E m \in Machines :
                 \/ DeleteMachineObject(m) \/ CreateMachineObject(m) \/ CacheExpires(m)
                 \/ ReconcileReturns(m) \/ EnsureFinalizer(m)
    PROVE  OwnParts'
<1>. USE DEF cloudVars, apiVars, ctlVars
<1>1. /\ phase \in [Machines -> {"live", "deleting", "gone"}] /\ stored \in [Machines -> ObjectType]
      /\ cache \in [Machines -> 0..MaxInstances]
      /\ \A m \in Machines : Refers(stored[m], m)
      /\ pc # "idle" => cur \in Machines /\ Refers(local, cur)
  BY DEF TypeInv, TypeOK, ApiTypeOK, ControllerTypeOK
<1>2. ASSUME Ages, \A m \in Machines : Spared(m), UNCHANGED <<cur, local, pc>>, image' => image,
             \A m \in Machines :
                /\ stored'[m].id = stored[m].id /\ stored'[m].ip = stored[m].ip
                /\ stored'[m].cond = stored[m].cond
                /\ phase'[m] = "live" => phase[m] = "live"
                /\ cache'[m] \in {cache[m], 0}
                /\ phase'[m] = "gone" \/ ~stored'[m].finalizer =>
                      phase[m] = "gone" \/ ~stored[m].finalizer
      PROVE  OwnParts'
  <2>1. ASSUME NEW m \in Machines PROVE OwnObject(m)' /\ OwnCache(m)'
    <3>1. OwnAddress(stored[m], m)'
      BY <1>1, <1>2, OwnAges DEF OwnParts, OwnObject, OwnAddress, Others, Gone
    <3>2. phase'[m] = "live" /\ image' => Lives(stored[m])'
      BY <1>1, <1>2, OwnAges DEF OwnParts, OwnObject, Lives, Dead
    <3>3. (phase'[m] = "gone" \/ ~stored'[m].finalizer => cache'[m] = 0) /\ OwnCache(m)'
      BY <1>2 DEF OwnParts, OwnObject, OwnCache
    <3>. QED BY <3>1, <3>2, <3>3 DEF OwnObject
  <2>2. ASSUME pc # "idle" PROVE OwnCopy'
    <3>1. OwnAddress(local, cur)'
      BY <1>1, <1>2, <2>2, OwnAges DEF OwnParts, OwnCopy, OwnAddress, Others, Gone
    <3>2. Lives(local) => Lives(local)'
      BY <1>1, <1>2, <2>2, OwnAges DEF Lives, Dead
    <3>3. local.id # 0 /\ ~Dead(local.id) => ~Dead(local.id)'
      BY <1>1, <1>2, <2>2 DEF Spared, Refers, Dead
    <3>. QED BY <1>1, <1>2, <2>2, <3>1, <3>2, <3>3 DEF OwnParts, OwnCopy
  <2>. QED BY <1>2, <2>1, <2>2 DEF OwnParts
<1>3. ASSUME NEW n \in DOMAIN instances, InstanceProgress(n) \/ AddressAssigned(n) \/ InstanceFails(n)
      PROVE  OwnParts'
  <2>1. UNCHANGED <<cur, local, pc, image, stored, phase, cache>> /\ ~InstanceFails(n)
    BY <1>3 DEF InstanceProgress, AddressAssigned, InstanceFails, Fault
  <2>2. \A k \in DOMAIN instances : instances[k] \in InstanceType
    BY DEF TypeInv, TypeOK, CloudTypeOK
  <2>3. Ages /\ \A k \in DOMAIN instances : ~Dead(k) => ~Dead(k)'
    <3>1. CASE InstanceProgress(n)
      <4>1. PICK st \in NextStates(instances[n].state) : instances' = [instances EXCEPT ![n].state = st]
        BY <3>1 DEF InstanceProgress
      <4>2. st # "unlisted" /\ instances[n].state # "gone" /\ (~Dead(n) => st \notin {"deleting", "gone"})
        BY <4>1 DEF NextStates, Dead
      <4>3. Ages
        BY <4>1, <4>2, OneAges
      <4>. QED BY <2>2, <4>1, <4>2, <4>3 DEF Dead, InstanceType
    <3>2. CASE AddressAssigned(n)
      <4>1. Ages
        BY <3>2, OneAges DEF AddressAssigned
      <4>. QED BY <2>2, <3>2, <4>1 DEF AddressAssigned, Dead, InstanceType
    <3>. QED BY <1>3, <2>1, <3>1, <3>2
  <2>. QED BY <1>2, <2>1, <2>3 DEF Spared, Dead
<1>4. ASSUME UNCHANGED instances PROVE Ages /\ \A m \in Machines : Spared(m)
  BY <1>4, NoneAges DEF Spared, Dead
<1>5. CASE DeleteImageObject \/ UNCHANGED vars
  BY <1>2, <1>4, <1>5 DEF DeleteImageObject, vars
<1>6. CASE \E lb \in LoadBalancers : LoadBalancerUpdated(lb)
  BY <1>2, <1>4, <1>6 DEF LoadBalancerUpdated
<1>7. CASE \E gate \in AllGates : GateOpens(gate)
  BY <1>2, <1>4, <1>7 DEF GateOpens
<1>8. ASSUME NEW m \in Machines, CacheExpires(m) \/ ReconcileReturns(m) PROVE OwnParts'
  <2>1. UNCHANGED <<instances, cur, local, pc, image, stored, phase>>
        /\ \A k \in Machines : cache'[k] \in {cache[k], 0}
    BY <1>1, <1>8 DEF CacheExpires, ReconcileReturns, vars
  <2>. QED BY <1>2, <1>4, <2>1
<1>9. ASSUME NEW m \in Machines, DeleteMachineObject(m) PROVE OwnParts'
  <2>1. UNCHANGED <<instances, cur, local, pc, image, stored, cache>>
        /\ \A k \in Machines : /\ phase'[k] = "live" => phase[k] = "live"
                               /\ phase'[k] = "gone" => phase[k] = "gone" \/ ~stored[k].finalizer
    BY <1>1, <1>9 DEF DeleteMachineObject
  <2>. QED BY <1>2, <1>4, <2>1
<1>10. ASSUME NEW m \in Machines, EnsureFinalizer(m) PROVE OwnParts'
  <2>1. UNCHANGED <<instances, cur, local, pc, image, phase, cache>>
        /\ stored' = [stored EXCEPT ![m].finalizer = TRUE]
    BY <1>10 DEF EnsureFinalizer
  <2>2. \A k \in Machines : /\ stored'[k].id = stored[k].id /\ stored'[k].ip = stored[k].ip
                            /\ stored'[k].cond = stored[k].cond
                            /\ ~stored'[k].finalizer => ~stored[k].finalizer
    BY <1>1, <2>1 DEF ObjectType
  <2>. QED BY <1>2, <1>4, <2>1, <2>2
<1>11. ASSUME NEW m \in Machines, CreateMachineObject(m) PROVE OwnParts'
  <2>1. /\ UNCHANGED <<instances, cur, local, pc, image, cache>>
        /\ stored'[m] = NewObject /\ cache[m] = 0
        /\ pc # "idle" => cur # m
        /\ \A k \in Machines : k # m => phase'[k] = phase[k] /\ stored'[k] = stored[k]
    BY <1>1, <1>11 DEF CreateMachineObject, DeleteInv, OwnParts, OwnObject
  <2>2. OwnObject(m)' /\ OwnCache(m)'
    BY <2>1 DEF OwnObject, OwnAddress, Lives, OwnCache, NewObject
  <2>3. ASSUME NEW k \in Machines, k # m PROVE OwnObject(k)' /\ OwnCache(k)'
    BY <2>1, <2>3 DEF OwnParts, OwnObject, OwnAddress, Others, Gone, Lives, Dead, OwnCache
  <2>4. ASSUME pc # "idle" PROVE OwnCopy'
    BY <1>1, <2>1, <2>4 DEF OwnParts, OwnCopy, OwnAddress, Others, Gone, Lives, Dead
  <2>. QED BY <2>1, <2>2, <2>3, <2>4 DEF OwnParts
<1>. QED BY <1>3, <1>5, <1>6, <1>7, <1>8, <1>9, <1>10, <1>11 DEF Environment, Progress

\* A reconcile starts, or ends without a patch.
LEMMA OwnStartsAndEnds ==
    ASSUME TypeInv, DeleteInv, OwnParts, faults = 0, faults' = 0,
           ScopeFails \/ Crash \/ \E m \in Machines : StartReconcile(m)
    PROVE  OwnParts'
<1>. USE DEF cloudVars, apiVars, ctlVars
<1>1. UNCHANGED <<instances, stored, phase, image, cache>> /\ ~Crash
  BY DEF ScopeFails, Crash, StartReconcile, Fault
<1>2. \A m \in Machines : OwnObject(m)'
  BY <1>1 DEF OwnParts, OwnObject, OwnAddress, Others, Gone, Lives, Dead
<1>3. CASE ScopeFails
  BY <1>1, <1>2, <1>3 DEF ScopeFails, Forget, OwnParts, OwnCache, OwnCopy
<1>4. ASSUME NEW m \in Machines, StartReconcile(m) PROVE OwnParts'
  <2>1. pc = "idle" /\ stored[m].finalizer /\ cur' = m /\ local' = stored[m] /\ pc' = "scope"
    BY <1>4 DEF StartReconcile
  <2>2. \A k \in Machines : OwnCache(k)'
    BY <1>1, <2>1 DEF OwnParts, OwnCache
  <2>3. OwnCopy'
    BY <1>1, <1>2, <2>1 DEF OwnObject, OwnCopy, OwnAddress, Others, Gone, Creating
  <2>. QED BY <1>2, <2>2, <2>3 DEF OwnParts
<1>. QED BY <1>1, <1>3, <1>4

\* The steps of a reconcile before the patch that create no instance.
LEMMA OwnReconciles ==
    ASSUME TypeInv, DeleteInv, GatesInv, SoleParts, OwnParts, faults = 0, faults' = 0,
           \/ WaitAtGate \/ PassGates \/ FindInstance \/ ValidateSystemType \/ ResolveUserData
           \/ ResolveImageAndNetwork \/ SyncInstance \/ SyncFails \/ RegisterPoolMember
           \/ SkipDelete \/ DeleteInstance \/ DeleteIgnition
    PROVE  OwnParts'
<1>. USE DEF cloudVars, apiVars, ctlVars
<1>1. UNCHANGED <<stored, phase, image, cur>> /\ pc \notin {"idle", "patch"} /\ pc' # "idle"
  BY DEF WaitAtGate, PassGates, FindInstance, ValidateSystemType, ResolveUserData,
     ResolveImageAndNetwork, SyncInstance, SyncFails, RegisterPoolMember, SkipDelete,
     DeleteInstance, DeleteIgnition, Mark, NotReady, CreationFails
<1>2. /\ cur \in Machines /\ local \in ObjectType /\ Refers(local, cur) /\ OwnCopy
      /\ cache \in [Machines -> 0..MaxInstances]
      /\ local.finalizer /\ OwnObject(cur) /\ OwnCache(cur)
  BY <1>1 DEF TypeInv, TypeOK, ControllerTypeOK, DeleteInv, OwnParts
<1>3. \A kind : ~Fault(kind)
  BY DEF Fault
<1>4. ASSUME UNCHANGED <<instances, cache>>, OwnCopy', local'.id = local.id PROVE OwnParts'
  <2>1. Ages /\ \A m \in Machines : Spared(m)
    BY <1>4, NoneAges DEF Spared, Dead
  <2>2. \A m \in Machines : OwnObject(m)' /\ OwnCache(m)'
    BY <1>1, <1>2, <1>4, <2>1, ObjectsOwn DEF OwnCache
  <2>. QED BY <1>4, <2>2 DEF OwnParts
<1>5. ASSUME UNCHANGED instances, local'.id = local.id, local'.ip = local.ip
      PROVE  OwnAddress(local, cur)'
  BY <1>1, <1>2, <1>5 DEF OwnCopy, OwnAddress, Others, Gone
<1>6. \A st : Mark(st) \/ NotReady(st) =>
         /\ local'.id = local.id /\ local'.ip = local.ip /\ local'.cond = st
         /\ local'.finalizer /\ pc' = "patch"
  BY <1>2 DEF Mark, NotReady, ObjectType
<1>7. CASE WaitAtGate
  <2>1. local'.id = local.id /\ local'.ip = local.ip /\ local'.finalizer /\ pc' = "patch" /\ gates # AllGates
        /\ UNCHANGED <<instances, cache>>
    BY <1>6, <1>7 DEF WaitAtGate
  <2>2. image => local.id = 0
    BY <1>2, <2>1 DEF GatesInv, Refers
  <2>3. OwnCopy'
    BY <1>1, <1>5, <2>1, <2>2 DEF OwnCopy, Lives, Creating
  <2>. QED BY <1>4, <2>1, <2>3
<1>8. CASE PassGates
  <2>1. pc = "scope" /\ phase[cur] = "live" /\ gates = AllGates /\ UNCHANGED <<local, instances, cache>> /\ pc' = "list"
    BY <1>8 DEF PassGates
  <2>2. image /\ local = stored[cur]
    BY <2>1 DEF GatesInv, AllGates, DeleteInv
  <2>3. OwnCopy'
    BY <1>1, <1>2, <1>5, <2>1, <2>2 DEF OwnCopy, OwnObject, Lives, Dead, Creating
  <2>. QED BY <1>4, <2>1, <2>3
<1>9. CASE FindInstance
  <2>1. pc = "list" /\ UNCHANGED <<instances, cache>> /\ local'.id = local.id /\ local'.ip = local.ip
    BY <1>6, <1>9 DEF FindInstance
  <2>2. CASE pc' = "get" /\ UNCHANGED local
    <3>1. OwnCopy'
      BY <1>1, <1>2, <1>5, <2>1, <2>2 DEF OwnCopy, Lives, Dead, Creating
    <3>. QED BY <1>4, <2>1, <3>1
  <2>3. CASE NotReady("unknown")
    <3>1. OwnCopy'
      BY <1>1, <1>2, <1>5, <1>6, <2>1, <2>3 DEF OwnCopy, Lives, Creating
    <3>. QED BY <1>4, <2>1, <3>1
  <2>4. CASE Listed(cur) = {} /\ local.cond # "unknown" /\ pc' = "systemType" /\ UNCHANGED local
    <3>1. ~Unlisted(cur)
      BY <1>2 DEF SoleParts, LateInv, Remembered
    <3>2. local.id # 0 => local.id \in Listed(cur)
      BY <1>2, <2>1, <2>4, <3>1 DEF OwnCopy, Lives, Refers, Listed, Dead, Unlisted
    <3>3. OwnCopy'
      BY <1>1, <1>2, <1>5, <2>1, <2>4, <3>2 DEF OwnCopy, Creating
    <3>. QED BY <1>4, <2>1, <3>3
  <2>. QED BY <1>3, <1>9, <2>2, <2>3, <2>4 DEF FindInstance
<1>10. CASE ValidateSystemType \/ ResolveUserData \/ ResolveImageAndNetwork
  <2>1. pc \in Creating /\ pc' \in Creating /\ UNCHANGED <<instances, cache, local>>
    BY <1>3, <1>10 DEF ValidateSystemType, ResolveUserData, ResolveImageAndNetwork, CreationFails, Creating
  <2>2. OwnCopy'
    BY <1>1, <1>2, <1>5, <2>1 DEF OwnCopy, Creating
  <2>. QED BY <1>4, <2>1, <2>2
<1>11. CASE SyncInstance
  <2>1. PICK ip \in 0..MaxInstances : \E cached \in 0..MaxInstances :
           LET synced == [local EXCEPT !.provider = found, !.id = found, !.ip = ip]
               state == instances[found].state
           IN
           /\ Address(ip, cached)
           /\ cache' = [cache EXCEPT ![cur] = cached]
           /\ \/ /\ state = "ACTIVE" /\ Pools # <<>> /\ ip # 0
                 /\ local' = [synced EXCEPT !.provisioned = TRUE] /\ pc' = "register"
              \/ /\ state = "ACTIVE" /\ Pools # <<>> => ip = 0
                 /\ local' = [synced EXCEPT !.provisioned = (state = "ACTIVE"),
                                  !.cond = CASE state = "ACTIVE" /\ Pools = <<>> -> "true"
                                             [] state \in {"REBOOT", "deleting"} -> "unknown"
                                             [] OTHER -> "false"]
                 /\ pc' = "patch"
    BY <1>11 DEF SyncInstance
  <2>2. PICK cached \in 0..MaxInstances :
           /\ Address(ip, cached)
           /\ cache' = [cache EXCEPT ![cur] = cached]
           /\ local'.id = found /\ local'.ip = ip /\ local'.finalizer
           /\ \/ instances[found].state = "ACTIVE" /\ pc' = "register"
              \/ pc' = "patch" /\ (instances[found].state = "deleting" => local'.cond = "unknown")
    BY <1>2, <2>1 DEF ObjectType
  <2>3. found \in DOMAIN instances /\ instances[found].machine = cur /\ ~Gone(found)
        /\ pc = "get" /\ UNCHANGED instances
    BY <1>11 DEF SyncInstance, TypeInv, TypeOK, ControllerTypeOK, Gone
  <2>4. Others(found, cur) /\ found # 0
    <3>1. instances \in Seq(InstanceType)
      BY DEF TypeInv, TypeOK, CloudTypeOK
    <3>. QED BY <2>3, <3>1 DEF SoleParts, Sole, Others
  <2>5. cache[cur] # 0 => cache[cur] = found
    BY <1>1, <1>2, <2>3 DEF OwnCache, OwnCopy, OwnAddress, Others
  <2>6. ip \in {0, found} /\ cached \in {0, found}
    BY <1>3, <2>2, <2>5 DEF Address, Cached
  <2>7. OwnCopy'
    BY <1>1, <1>2, <2>2, <2>3, <2>4, <2>6
    DEF OwnCopy, OwnAddress, Others, Gone, Lives, Dead, Creating
  <2>8. Ages /\ \A m \in Machines : Spared(m)
    BY <2>3, NoneAges DEF Spared, Dead
  <2>9. \A m \in Machines : OwnObject(m)' /\ OwnCache(m)'
    BY <1>1, <1>2, <2>2, <2>6, <2>8, ObjectsOwn
  <2>. QED BY <2>7, <2>9 DEF OwnParts
<1>12. CASE SyncFails
  <2>1. pc = "get" /\ pc' = "patch" /\ UNCHANGED <<local, instances, cache>>
    BY <1>12 DEF SyncFails
  <2>2. OwnCopy'
    BY <1>1, <1>2, <1>5, <2>1 DEF OwnCopy, Lives, Dead, Creating
  <2>. QED BY <1>4, <2>1, <2>2
<1>13. CASE RegisterPoolMember
  <2>1. pc = "register" /\ pc' = "patch" /\ UNCHANGED <<instances, cache>>
        /\ local'.id = local.id /\ local'.ip = local.ip /\ local'.finalizer
    BY <1>6, <1>13 DEF RegisterPoolMember
  <2>2. OwnCopy'
    BY <1>1, <1>2, <1>5, <2>1 DEF OwnCopy, Lives, Dead, Creating
  <2>. QED BY <1>4, <2>1, <2>2
<1>14. CASE SkipDelete
  <2>1. pc = "scope" /\ pc' = "patch" /\ UNCHANGED <<instances, cache>> /\ phase[cur] = "deleting"
        /\ local'.id = local.id /\ local'.ip = local.ip /\ local.id = 0
    BY <1>2, <1>14 DEF SkipDelete, Finalized, ObjectType
  <2>2. cache'[cur] = 0
    BY <1>1, <1>2, <2>1 DEF OwnCache
  <2>3. OwnCopy'
    BY <1>1, <1>2, <1>5, <2>1, <2>2 DEF OwnCopy, Creating
  <2>. QED BY <1>4, <2>1, <2>3
<1>15. CASE DeleteInstance
  <2>1. local.id \in DOMAIN instances /\ instances[local.id].machine = cur /\ phase[cur] = "deleting"
        /\ UNCHANGED cache /\ pc' \in {"ignition", "patch"}
        /\ local'.id = local.id /\ local'.ip = local.ip /\ local'.finalizer
    BY <1>2, <1>6, <1>15 DEF DeleteInstance, Refers
  <2>2. Ages
    BY <1>15, <2>1, OneAges, NoneAges DEF DeleteInstance
  <2>3. \A m \in Machines : m # cur => Spared(m)
    BY <1>15, <2>1 DEF DeleteInstance, Spared, Dead
  <2>4. \A m \in Machines : OwnObject(m)' /\ OwnCache(m)'
    BY <1>1, <1>2, <2>1, <2>2, <2>3, ObjectsOwn DEF OwnCache
  <2>5. OwnAddress(local, cur)'
    BY <1>1, <1>2, <2>1, <2>2, OwnAges DEF OwnCopy, OwnAddress, Others, Gone
  <2>. QED BY <1>1, <2>1, <2>4, <2>5 DEF OwnParts, OwnCopy, Creating
<1>16. CASE DeleteIgnition
  <2>1. /\ phase[cur] = "deleting" /\ UNCHANGED instances /\ pc' = "patch"
        /\ local'.id = local.id /\ local'.ip = local.ip
        /\ cache' = [cache EXCEPT ![cur] = 0]
    BY <1>2, <1>3, <1>16 DEF DeleteIgnition, DeleteInv, Finalized, ObjectType
  <2>2. Ages /\ \A m \in Machines : Spared(m)
    BY <2>1, NoneAges DEF Spared, Dead
  <2>3. \A m \in Machines : OwnObject(m)' /\ OwnCache(m)'
    BY <1>1, <1>2, <2>1, <2>2, ObjectsOwn
  <2>. QED BY <1>1, <1>2, <1>5, <2>1, <2>3 DEF OwnParts, OwnCopy, Creating
<1>. QED
  BY <1>7, <1>8, <1>9, <1>10, <1>11, <1>12, <1>13, <1>14, <1>15, <1>16

\* CreateInstance, for an object that has none.
LEMMA OwnCreates ==
    ASSUME TypeInv, DeleteInv, OwnParts, CreateInstance, faults = 0, faults' = 0
    PROVE  OwnParts'
<1>. USE DEF cloudVars, apiVars, ctlVars
<1>1. UNCHANGED <<stored, phase, image, cur, cache>> /\ pc = "create"
      /\ cur \in Machines /\ local \in ObjectType /\ local.id = 0 /\ stored[cur].id = 0
      /\ local.finalizer
  BY DEF CreateInstance, TypeInv, TypeOK, ControllerTypeOK, OwnParts, OwnCopy, Creating, DeleteInv
<1>2. NotReady("unknown")
      /\ instances' = Append(instances, [machine |-> cur, address |-> "none", state |-> "BUILD"])
  BY DEF CreateInstance, CreationFails, Fault
<1>3. local'.id = 0 /\ local'.cond = "unknown" /\ local'.finalizer /\ pc' = "patch"
  BY <1>1, <1>2 DEF NotReady, ObjectType
<1>4. /\ \A k \in DOMAIN instances' : k \in DOMAIN instances \/ instances'[k].machine = cur
      /\ \A k \in DOMAIN instances : instances'[k] = instances[k]
  <2>1. instances \in Seq(InstanceType)
    BY DEF TypeInv, TypeOK, CloudTypeOK
  <2>. QED BY <1>2, <2>1
<1>5. ASSUME NEW m \in Machines PROVE OwnObject(m)' /\ OwnCache(m)'
  <2>1. OwnObject(m) /\ OwnCache(m) /\ Refers(stored[m], m)
    BY DEF OwnParts, TypeInv, TypeOK, ApiTypeOK
  <2>2. OwnAddress(stored[m], m)'
    BY <1>1, <1>4, <2>1 DEF OwnObject, OwnAddress, Others, Gone
  <2>3. phase'[m] = "live" /\ image' => Lives(stored[m])'
    BY <1>1, <1>4, <2>1 DEF OwnObject, Lives, Dead, Refers
  <2>. QED BY <1>1, <1>3, <2>1, <2>2, <2>3 DEF OwnObject, OwnCache
<1>6. OwnCopy'
  BY <1>3 DEF OwnCopy, OwnAddress, Lives, Creating
<1>. QED BY <1>5, <1>6 DEF OwnParts

\* The patch, which is written as a whole.
LEMMA OwnPatches ==
    ASSUME TypeInv, DeleteInv, OwnParts, Patch, faults = 0, faults' = 0
    PROVE  OwnParts'
<1>. USE DEF cloudVars, apiVars, ctlVars
<1>1. UNCHANGED <<instances, image, cache>> /\ pc = "patch" /\ pc' = "idle"
      /\ cur \in Machines /\ local \in ObjectType /\ stored \in [Machines -> ObjectType]
      /\ phase \in [Machines -> {"live", "deleting", "gone"}]
  BY DEF Patch, Forget, TypeInv, TypeOK, ControllerTypeOK, ApiTypeOK
<1>2. stored' = [stored EXCEPT ![cur] = Patched(stored[cur], PatchParts)]
  <2>1. ~Fault("patch")
    BY DEF Fault
  <2>. QED BY <2>1 DEF Patch
<1>3. /\ stored'[cur].id = local.id /\ stored'[cur].ip = local.ip
      /\ stored'[cur].finalizer = local.finalizer
      /\ local.cond = "unknown" => stored'[cur].cond = "unknown"
  <2>1. /\ stored'[cur].id = WithCondition(local).id /\ stored'[cur].ip = WithCondition(local).ip
        /\ stored'[cur].finalizer = WithCondition(local).finalizer
        /\ stored'[cur].cond = WithCondition(local).cond
    BY <1>1, <1>2 DEF Patched, PatchParts
  <2>. QED BY <1>1, <2>1 DEF WithCondition, ObjectType
<1>4. /\ \A m \in Machines : m # cur => phase'[m] = phase[m] /\ stored'[m] = stored[m]
      /\ phase'[cur] = "live" => phase[cur] = "live"
      /\ phase'[cur] = "gone" => ~stored'[cur].finalizer
  BY <1>1, <1>2 DEF Patch, DeleteInv
<1>5. ASSUME NEW m \in Machines, m # cur PROVE OwnObject(m)' /\ OwnCache(m)'
  BY <1>1, <1>4, <1>5 DEF OwnParts, OwnObject, OwnAddress, Others, Gone, Lives, Dead, OwnCache
<1>6. ASSUME NEW m \in Machines, m = cur PROVE OwnObject(m)' /\ OwnCache(m)'
  <2>1. OwnCopy /\ OwnCache(m)
    BY <1>1 DEF OwnParts
  <2>2. OwnAddress(stored[m], m)'
    BY <1>1, <1>3, <1>6, <2>1 DEF OwnCopy, OwnAddress, Others, Gone
  <2>3. phase'[m] = "live" /\ image' => Lives(stored[m])'
    BY <1>1, <1>3, <1>4, <1>6, <2>1 DEF OwnCopy, Lives, Dead
  <2>4. (phase'[m] = "gone" \/ ~stored'[m].finalizer => cache'[m] = 0) /\ OwnCache(m)'
    BY <1>1, <1>3, <1>4, <1>6, <2>1 DEF OwnCopy, OwnCache
  <2>. QED BY <2>2, <2>3, <2>4 DEF OwnObject
<1>. QED BY <1>1, <1>5, <1>6 DEF OwnParts

\* Every step keeps the invariant.
LEMMA OwnStep ==
    ASSUME TypeInv, DeleteInv, SoleInv, OwnInv, [Next]_vars
    PROVE  OwnInv'
<1>. SUFFICES ASSUME faults' = 0 PROVE OwnParts'
  BY DEF OwnInv
<1>1. faults = 0
  BY StepCounts, NoneForgetsKept
<1>2. GatesInv /\ SoleParts /\ OwnParts
  BY <1>1 DEF SoleInv, SoleParts, OwnInv
<1>. QED
  BY <1>1, <1>2, OwnOutside, OwnStartsAndEnds, OwnReconciles, OwnCreates, OwnPatches DEF Next, Steps

\* SetAddresses, and the cache of DHCP addresses that goes by the name only: the
\* address in the status is never that of an instance the name had before, for any
\* number of machines and of objects that take a name in turn.
THEOREM NoForeignAddress == Spec => []AddressIsOwn
<1>1. Init => DeleteInv /\ SoleInv /\ OwnInv
  BY DEF Init, DeleteInv, FinalizerInv, NewObject, SoleInv, GatesInv, Sole, AbsentInv, LateInv,
     Unlisted, Creating, OwnInv, OwnParts, OwnObject, OwnAddress, Lives, OwnCache
<1>2. TypeInv /\ DeleteInv /\ SoleInv /\ OwnInv /\ [Next]_vars => DeleteInv' /\ SoleInv' /\ OwnInv'
  BY DeleteStep, SoleStep, OwnStep
<1>3. OwnInv => AddressIsOwn
  BY DEF OwnInv, OwnParts, OwnObject, OwnAddress, AddressIsOwn
<1>. QED BY <1>1, <1>2, <1>3, TypeInvariant, PTL DEF Spec

=============================================================================
