--------------------------- MODULE PowerVSMachine ----------------------------
(***************************************************************************)
(* The IBMPowerVSMachine controller: the machines of one cluster, each a   *)
(* PowerVS instance found again by its name, given an address by the       *)
(* network or by DHCP, and registered in the pools of the load balancers.  *)
(* One worker reconciles all machines in turn; they share the load         *)
(* balancers and a cache of DHCP addresses that is keyed by name.          *)
(***************************************************************************)
EXTENDS Naturals, Sequences

CONSTANTS
    Machines,      \* the names of the IBMPowerVSMachines
    Pools,         \* the pools of all load balancers, in the order of the spec
    Ignition,      \* whether bootstrap data goes through COS
    MayDelete,     \* what users delete: machines, and "image"
    MaxBirths,     \* bound on the objects of one name
    MaxInstances,  \* bound on the instances ever created
    FaultKinds,    \* the kinds of failure that may happen
    MaxFaults      \* bound on the number of failures

NoMachine == "none"

\* A pool: its load balancer, and the machines its listener selects.
ASSUME MachineAssumption ==
    /\ {NoMachine, "image"} \cap Machines = {}
    /\ MayDelete \subseteq Machines \cup {"image"}
    /\ Ignition \in BOOLEAN
ASSUME PoolAssumption ==
    /\ Pools \in Seq([lb : STRING, machines : SUBSET Machines])
ASSUME BoundAssumption ==
    MaxBirths \in Nat \ {0} /\ MaxInstances \in Nat /\ MaxFaults \in Nat
ASSUME FaultAssumption ==
    FaultKinds \subseteq {"api", "lost", "late", "patch", "crash", "fail", "stop"}

VARIABLES
    \* IBM Cloud
    instances,  \* the instances ever created, oldest first; the n-th has ID and address n
    members,    \* the addresses in each pool
    busy,       \* the load balancers with an update in progress
    userData,   \* the machines with bootstrap data in the COS bucket
    \* the API server
    gates,      \* what the machines no longer wait for
    image,      \* whether the IBMPowerVSImage exists
    stored,     \* the persisted objects
    phase,      \* "live", "deleting" or "gone", for each object
    born,       \* how many objects of each name there were
    \* the controller
    cache,      \* dhcpCacheStore: an address, or 0, for each name
    cur,        \* the machine being reconciled
    local,      \* its in-memory copy
    found,      \* the instance ensureInstanceUnique found, or 0
    pc,         \* where the reconcile stands
    \* failures
    faults      \* failures so far

cloudVars == <<instances, members, busy, userData>>
apiVars == <<gates, image, stored, phase, born>>
ctlVars == <<cache, cur, local, found, pc>>
vars == <<cloudVars, apiVars, ctlVars, faults>>

\* An IBMPowerVSMachine: finalizer; ProviderID and InstanceID; the internal IP
\* among the addresses; Provisioned; the InstanceReady condition.
ObjectType ==
    [finalizer : BOOLEAN, provider : 0..MaxInstances, id : 0..MaxInstances,
     ip : 0..MaxInstances, provisioned : BOOLEAN,
     cond : {"none", "unknown", "true", "false"}]

NewObject ==
    [finalizer |-> FALSE, provider |-> 0, id |-> 0, ip |-> 0,
     provisioned |-> FALSE, cond |-> "none"]

\* An instance: its machine's name, its state ("unlisted" at first when it
\* shows up late) and whether its address is leased by DHCP or reported.
InstanceType ==
    [machine : Machines, address : {"none", "leased", "reported"},
     state : {"unlisted", "BUILD", "ACTIVE", "SHUTOFF", "ERROR", "REBOOT", "deleting", "gone"}]

AllGates == {"infrastructure", "image", "bootstrap"}

LoadBalancers == {Pools[k].lb : k \in DOMAIN Pools}

CloudTypeOK ==
    /\ instances \in Seq(InstanceType) /\ Len(instances) <= MaxInstances
    /\ members \in [DOMAIN Pools -> SUBSET (DOMAIN instances)]
    /\ busy \subseteq LoadBalancers
    /\ userData \subseteq Machines

\* Instances a copy of the object names were created, and for this machine.
Refers(o, m) ==
    \A n \in {o.provider, o.id, o.ip} \ {0} :
        n \in DOMAIN instances /\ instances[n].machine = m

ApiTypeOK ==
    /\ gates \subseteq AllGates /\ image \in BOOLEAN
    /\ stored \in [Machines -> ObjectType]
    /\ \A m \in Machines : Refers(stored[m], m)
    /\ phase \in [Machines -> {"live", "deleting", "gone"}]
    /\ born \in [Machines -> 1..MaxBirths]

ControllerTypeOK ==
    /\ cache \in [Machines -> 0..MaxInstances]
    /\ \A m \in Machines : cache[m] # 0 =>
          cache[m] \in DOMAIN instances /\ instances[cache[m]].machine = m
    /\ cur \in Machines \cup {NoMachine}
    /\ local \in ObjectType
    /\ pc \in {"idle", "scope", "list", "systemType", "userData", "resolve", "create",
               "get", "register", "ignition", "patch"}
    /\ pc # "idle" => cur \in Machines /\ Refers(local, cur)
    /\ found \in 0..MaxInstances
    /\ pc = "get" => found \in DOMAIN instances /\ instances[found].machine = cur

\* Every variable has its type, and what an object, a pool or the cache holds
\* are instances and addresses that exist, of the machine it is held for.
TypeOK == CloudTypeOK /\ ApiTypeOK /\ ControllerTypeOK /\ faults \in 0..MaxFaults

Init ==
    /\ instances = <<>>
    /\ members = [k \in DOMAIN Pools |-> {}]
    /\ busy = {} /\ userData = {}
    /\ gates = {} /\ image = TRUE
    /\ stored = [m \in Machines |-> NewObject]
    /\ phase = [m \in Machines |-> "live"] /\ born = [m \in Machines |-> 1]
    /\ cache = [m \in Machines |-> 0]
    /\ cur = NoMachine /\ local = NewObject /\ found = 0 /\ pc = "idle"
    /\ faults = 0

----------------------------------------------------------------------------
(* Failures.  "api": a call fails and has no effect; "lost": it takes      *)
(* effect and its answer is lost; "late": a new instance is not listed at  *)
(* first; "patch", "crash": as for the cluster; "fail": the instance ends  *)
(* in ERROR; "stop": it is stopped or rebooted.                            *)

NoFault == faults' = faults

Fault(kind) ==
    /\ kind \in FaultKinds
    /\ faults < MaxFaults
    /\ faults' = faults + 1

----------------------------------------------------------------------------
(* IBM Cloud, Cluster API and users.                                       *)

\* The states an instance may go to next, by itself and by a failure.
NextStates(state) ==
    CASE state = "unlisted" -> {"BUILD"}
      [] state \in {"BUILD", "REBOOT"} -> {"ACTIVE"}
      [] state = "deleting" -> {"gone"}
      [] OTHER -> {}

InstanceProgress(n) ==
    /\ \E state \in NextStates(instances[n].state) :
          instances' = [instances EXCEPT ![n].state = state]
    /\ UNCHANGED <<members, busy, userData, apiVars, ctlVars, faults>>

InstanceFails(n) ==
    /\ \/ instances[n].state = "BUILD" /\ Fault("fail")
          /\ instances' = [instances EXCEPT ![n].state = "ERROR"]
       \/ instances[n].state = "ACTIVE" /\ Fault("stop")
          /\ \E state \in {"SHUTOFF", "REBOOT"} :
                instances' = [instances EXCEPT ![n].state = state]
    /\ UNCHANGED <<members, busy, userData, apiVars, ctlVars>>

\* The instance gets its address from the network or from the DHCP server.
AddressAssigned(n) ==
    /\ instances[n].address = "none" /\ instances[n].state \in {"BUILD", "ACTIVE"}
    /\ \E address \in {"leased", "reported"} :
          instances' = [instances EXCEPT ![n].address = address]
    /\ UNCHANGED <<members, busy, userData, apiVars, ctlVars, faults>>

LoadBalancerUpdated(lb) ==
    /\ lb \in busy
    /\ busy' = busy \ {lb}
    /\ UNCHANGED <<instances, members, userData, apiVars, ctlVars, faults>>

\* The cluster is provisioned, the image active, the bootstrap data ready.
GateOpens(gate) ==
    /\ gate \in AllGates \ gates
    /\ gate = "image" => image
    /\ gates' = gates \cup {gate}
    /\ UNCHANGED <<cloudVars, image, stored, phase, born, ctlVars, faults>>

DeleteImageObject ==
    /\ "image" \in MayDelete /\ image
    /\ image' = FALSE /\ gates' = gates \ {"image"}
    /\ UNCHANGED <<cloudVars, stored, phase, born, ctlVars, faults>>

DeleteMachineObject(m) ==
    /\ m \in MayDelete /\ phase[m] = "live"
    /\ phase' = [phase EXCEPT ![m] = IF stored[m].finalizer THEN "deleting" ELSE "gone"]
    /\ UNCHANGED <<cloudVars, gates, image, stored, born, ctlVars, faults>>

\* A new object takes the name of one that is gone; nobody is as quick as the
\* listing of instances.
CreateMachineObject(m) ==
    /\ phase[m] = "gone" /\ born[m] < MaxBirths
    /\ \A n \in DOMAIN instances : instances[n].machine = m => instances[n].state # "unlisted"
    /\ phase' = [phase EXCEPT ![m] = "live"]
    /\ stored' = [stored EXCEPT ![m] = NewObject]
    /\ born' = [born EXCEPT ![m] = @ + 1]
    /\ UNCHANGED <<cloudVars, gates, image, ctlVars, faults>>

----------------------------------------------------------------------------
(* Reconcile up to the scope.                                              *)

\* Reconcile of an object that is gone, or whose image does not exist, which
\* holds up deletions too.
ReconcileReturns(m) ==
    /\ pc = "idle"
    /\ phase[m] = "gone" \/ (stored[m].finalizer /\ ~image)
    /\ UNCHANGED vars

EnsureFinalizer(m) ==
    /\ pc = "idle" /\ phase[m] = "live" /\ ~stored[m].finalizer
    /\ stored' = [stored EXCEPT ![m].finalizer = TRUE]
    /\ UNCHANGED <<cloudVars, gates, image, phase, born, ctlVars, faults>>

StartReconcile(m) ==
    /\ pc = "idle" /\ phase[m] # "gone" /\ stored[m].finalizer /\ image
    /\ cur' = m /\ local' = stored[m] /\ pc' = "scope"
    /\ UNCHANGED <<cloudVars, apiVars, cache, found, faults>>

Forget == cur' = NoMachine /\ local' = NewObject /\ found' = 0 /\ pc' = "idle"

\* NewMachineScope fails: a call does, or the workspace is not there yet.  The
\* patch helper does not exist yet, so nothing is written.
ScopeFails ==
    /\ pc = "scope"
    /\ ("infrastructure" \notin gates /\ NoFault) \/ Fault("api")
    /\ Forget
    /\ UNCHANGED <<cloudVars, apiVars, cache>>

\* The end of a reconcile, with the condition it sets.
Mark(status) == local' = [local EXCEPT !.cond = status] /\ pc' = "patch"
NotReady(status) ==
    local' = [local EXCEPT !.cond = status, !.provisioned = FALSE] /\ pc' = "patch"

\* reconcileNormal waits for the cluster, the image and the bootstrap data.
WaitAtGate ==
    /\ pc = "scope" /\ phase[cur] = "live" /\ gates # AllGates
    /\ Mark("false") /\ NoFault
    /\ UNCHANGED <<cloudVars, apiVars, cache, cur, found>>

PassGates ==
    /\ pc = "scope" /\ phase[cur] = "live" /\ gates = AllGates
    /\ pc' = "list" /\ NoFault
    /\ UNCHANGED <<cloudVars, apiVars, cache, cur, local, found>>

----------------------------------------------------------------------------
(* CreateMachine.                                                          *)

\* What ListInstances shows under the name of the machine.
Listed(m) ==
    {n \in DOMAIN instances : instances[n].machine = m
                              /\ instances[n].state \notin {"unlisted", "gone"}}

\* Mutant: no wait for an instance that was created and is not listed yet.
FindInstanceImpatient ==
    /\ pc = "list"
    /\ \/ Fault("api") /\ Mark("false") /\ UNCHANGED found
       \/ /\ NoFault
          /\ \/ \E n \in Listed(cur) : found' = n /\ pc' = "get" /\ UNCHANGED local
             \/ Listed(cur) = {} /\ pc' = "systemType" /\ UNCHANGED <<found, local>>
    /\ UNCHANGED <<cloudVars, apiVars, cache, cur>>

\* ensureInstanceUnique.  Without an instance of the name, an unknown condition
\* says that one was created already and will show up.
FindInstance ==
    /\ pc = "list"
    /\ \/ Fault("api") /\ Mark("false") /\ UNCHANGED found
       \/ /\ NoFault
          /\ \/ \E n \in Listed(cur) : found' = n /\ pc' = "get" /\ UNCHANGED local
             \/ /\ Listed(cur) = {} /\ UNCHANGED found
                /\ IF local.cond = "unknown" THEN NotReady("unknown")
                   ELSE pc' = "systemType" /\ UNCHANGED local
    /\ UNCHANGED <<cloudVars, apiVars, cache, cur>>

\* A call on the way to the creation fails and ends the reconcile.
CreationFails == Fault("api") /\ Mark("false")

ValidateSystemType ==
    /\ pc = "systemType"
    /\ \/ CreationFails
       \/ NoFault /\ pc' = "userData" /\ UNCHANGED local
    /\ UNCHANGED <<cloudVars, apiVars, cache, cur, found>>

\* resolveUserData, which uploads the bootstrap data for Ignition.
ResolveUserData ==
    /\ pc = "userData"
    /\ \/ CreationFails /\ UNCHANGED userData
       \/ /\ userData' = IF Ignition THEN userData \cup {cur} ELSE userData
          /\ \/ NoFault /\ pc' = "resolve" /\ UNCHANGED local
             \/ Ignition /\ Fault("lost") /\ Mark("false")
    /\ UNCHANGED <<instances, members, busy, apiVars, cache, cur, found>>

ResolveImageAndNetwork ==
    /\ pc = "resolve"
    /\ \/ CreationFails
       \/ NoFault /\ pc' = "create" /\ UNCHANGED local
    /\ UNCHANGED <<cloudVars, apiVars, cache, cur, found>>

\* Mutant: the call is taken for done although it failed.
CreateInstanceUnchecked ==
    /\ pc = "create"
    /\ \/ Fault("api") /\ NotReady("unknown") /\ UNCHANGED instances
       \/ /\ Len(instances) < MaxInstances
          /\ \E state \in {"BUILD", "unlisted"} :
                /\ instances' = Append(instances, [machine |-> cur, address |-> "none", state |-> state])
                /\ NoFault \/ (state = "unlisted" /\ Fault("late"))
          /\ NotReady("unknown")
    /\ UNCHANGED <<members, busy, userData, apiVars, cache, cur, found>>

\* CreateInstance, after which CreateMachine returns nothing: the condition
\* becomes unknown until the instance is found.
CreateInstance ==
    /\ pc = "create"
    /\ \/ CreationFails /\ UNCHANGED instances
       \/ /\ Len(instances) < MaxInstances
          /\ \E state \in {"BUILD", "unlisted"} :
                /\ instances' = Append(instances, [machine |-> cur, address |-> "none", state |-> state])
                /\ \/ state = "BUILD" /\ NoFault /\ NotReady("unknown")
                   \/ state = "BUILD" /\ Fault("lost") /\ Mark("false")
                   \/ state = "unlisted" /\ Fault("late") /\ NotReady("unknown")
    /\ UNCHANGED <<members, busy, userData, apiVars, cache, cur, found>>

----------------------------------------------------------------------------
(* The rest of reconcileNormal.                                            *)

\* extractIPsFromInstance and getIPFromDHCPServer find the address of an instance.
Reported(n) == instances[n].address = "reported"
Leased(n) == instances[n].address = "leased"

\* getIPFromCache goes by the name only.
Cached == cache[cur] # 0

\* SetAddresses: the address the instance reports, or the cached one, or the
\* one leased, which is cached.  A failure leaves the machine without.
Address(ip, cached) ==
    \/ Reported(found) /\ ip = found /\ cached = cache[cur] /\ NoFault
    \/ ~Reported(found) /\ Cached /\ ip = cache[cur] /\ cached = ip /\ NoFault
    \/ Leased(found) /\ ~Cached /\ ip = found /\ cached = ip /\ NoFault
    \/ /\ ~Reported(found) /\ ~Cached /\ ip = 0 /\ cached = 0
       /\ (~Leased(found) /\ NoFault) \/ Fault("api")

\* GetInstance and what follows from the state of the instance.
SyncInstance ==
    /\ pc = "get" /\ instances[found].state # "gone"
    /\ \E ip, cached \in 0..MaxInstances :
          LET synced == [local EXCEPT !.provider = found, !.id = found, !.ip = ip]
              state == instances[found].state
          IN
          /\ Address(ip, cached)
          /\ cache' = [cache EXCEPT ![cur] = cached]
          /\ \/ /\ state = "ACTIVE" /\ Pools # <<>> /\ ip # 0
                /\ local' = [synced EXCEPT !.provisioned = TRUE] /\ pc' = "register"
             \/ /\ state = "ACTIVE" /\ Pools # <<>> => ip = 0
                /\ local' = [synced EXCEPT !.provisioned = (state = "ACTIVE"),
                                 !.cond = CASE state = "ACTIVE" /\ Pools = <<>> -> "true"
                                            [] state \in {"REBOOT", "deleting"} -> "unknown"
                                            [] OTHER -> "false"]
                /\ pc' = "patch"
    /\ UNCHANGED <<cloudVars, apiVars, cur, found>>

\* GetInstance fails, or the instance went away since it was listed.
SyncFails ==
    /\ pc = "get"
    /\ (instances[found].state = "gone" /\ NoFault) \/ Fault("api")
    /\ pc' = "patch"
    /\ UNCHANGED <<cloudVars, apiVars, cache, cur, local, found>>

\* The pools that are for this machine and do not have its address.
Missing == {k \in DOMAIN Pools : cur \in Pools[k].machines /\ local.ip \notin members[k]}

\* The first of them, if there is one.
FirstMissing == {k \in Missing : \A j \in Missing : k <= j}

\* CreateVPCLoadBalancerPoolMember gets as far as the first of them, and every
\* load balancer on the way has to be active.
Blocked ==
    \E j \in DOMAIN Pools : Pools[j].lb \in busy /\ \A k \in Missing : j <= k

\* Mutant: a load balancer that is busy is not an error.
RegisterPoolMemberLater ==
    /\ pc = "register"
    /\ \/ Fault("api") /\ Mark("false") /\ UNCHANGED <<members, busy>>
       \/ /\ Blocked \/ Missing = {}
          /\ NoFault /\ Mark("true") /\ UNCHANGED <<members, busy>>
       \/ \E k \in FirstMissing :
             /\ ~Blocked
             /\ members' = [members EXCEPT ![k] = @ \cup {local.ip}]
             /\ busy' = busy \cup {Pools[k].lb}
             /\ NoFault /\ Mark("true")
    /\ UNCHANGED <<instances, userData, apiVars, cache, cur, found>>

\* One member is added in a reconcile, and the machine is ready with it.
RegisterPoolMember ==
    /\ pc = "register"
    /\ \/ ((Blocked /\ NoFault) \/ Fault("api")) /\ Mark("false") /\ UNCHANGED <<members, busy>>
       \/ ~Blocked /\ Missing = {} /\ NoFault /\ Mark("true") /\ UNCHANGED <<members, busy>>
       \/ \E k \in FirstMissing :
             /\ ~Blocked
             /\ members' = [members EXCEPT ![k] = @ \cup {local.ip}]
             /\ busy' = busy \cup {Pools[k].lb}
             /\ \/ NoFault /\ Mark("true")
                \/ Fault("lost") /\ Mark("false")
    /\ UNCHANGED <<instances, userData, apiVars, cache, cur, found>>

----------------------------------------------------------------------------
(* reconcileDelete.                                                        *)

Finalized == [local EXCEPT !.finalizer = FALSE, !.cond = "false"]

\* Mutant: the deletion waits for an InstanceID.
SkipDeleteWaits ==
    /\ pc = "scope" /\ phase[cur] = "deleting" /\ local.id = 0
    /\ Mark("false") /\ NoFault
    /\ UNCHANGED <<cloudVars, apiVars, cache, cur, found>>

\* Without an InstanceID there is nothing to delete.
SkipDelete ==
    /\ pc = "scope" /\ phase[cur] = "deleting" /\ local.id = 0
    /\ local' = Finalized /\ pc' = "patch" /\ NoFault
    /\ UNCHANGED <<cloudVars, apiVars, cache, cur, found>>

\* Mutant: a failure to delete the instance does not keep the finalizer.
DeleteInstanceUnchecked ==
    /\ pc = "scope" /\ phase[cur] = "deleting" /\ local.id # 0
    /\ \/ Fault("api") /\ UNCHANGED instances
       \/ instances' = [instances EXCEPT ![local.id].state = "deleting"] /\ NoFault
    /\ pc' = "ignition"
    /\ UNCHANGED <<members, busy, userData, apiVars, cache, cur, local, found>>

\* DeleteInstance; an instance that is gone is an error.
DeleteInstance ==
    /\ pc = "scope" /\ phase[cur] = "deleting" /\ local.id # 0
    /\ \/ /\ (instances[local.id].state = "gone" /\ NoFault) \/ Fault("api")
          /\ Mark("false") /\ UNCHANGED instances
       \/ /\ instances[local.id].state # "gone"
          /\ instances' = [instances EXCEPT ![local.id].state = "deleting"]
          /\ \/ NoFault /\ pc' = "ignition" /\ UNCHANGED local
             \/ Fault("lost") /\ Mark("false")
    /\ UNCHANGED <<members, busy, userData, apiVars, cache, cur, found>>

\* Mutant: the cache entry stays.
DeleteIgnitionOnly ==
    /\ pc = "ignition" /\ NoFault
    /\ userData' = userData \ {cur}
    /\ local' = Finalized /\ pc' = "patch"
    /\ UNCHANGED <<instances, members, busy, apiVars, cache, cur, found>>

\* DeleteMachineIgnition, the cache entry, and the finalizer.
DeleteIgnition ==
    /\ pc = "ignition"
    /\ \/ Ignition /\ Fault("api") /\ Mark("false") /\ UNCHANGED <<userData, cache>>
       \/ Ignition /\ Fault("lost") /\ Mark("false") /\ userData' = userData \ {cur} /\ UNCHANGED cache
       \/ /\ NoFault
          /\ userData' = userData \ {cur}
          /\ cache' = [cache EXCEPT ![cur] = 0]
          /\ local' = Finalized /\ pc' = "patch"
    /\ UNCHANGED <<instances, members, busy, apiVars, cur, found>>

----------------------------------------------------------------------------
(* The deferred patch, and the whole.                                      *)

PatchParts == {"conditions", "object", "status"}

\* InstanceReady is always set.
WithCondition(o) ==
    [o EXCEPT !.cond = IF @ # "none" THEN @ ELSE IF o.provisioned THEN "true" ELSE "false"]

\* patchIBMPowerVSMachine: three requests, each of which may fail on its own.
Patched(o, parts) ==
    LET part(p) == IF p \in parts THEN WithCondition(local) ELSE o IN
    [finalizer |-> part("object").finalizer, provider |-> part("object").provider,
     id |-> part("status").id, ip |-> part("status").ip,
     provisioned |-> part("status").provisioned, cond |-> part("conditions").cond]

Patch ==
    /\ pc = "patch"
    /\ \E parts \in SUBSET PatchParts :
         /\ IF parts = PatchParts THEN NoFault ELSE Fault("patch")
         /\ stored' = [stored EXCEPT ![cur] = Patched(@, parts)]
    /\ phase' = IF phase[cur] = "deleting" /\ ~stored'[cur].finalizer
                THEN [phase EXCEPT ![cur] = "gone"] ELSE phase
    /\ Forget
    /\ UNCHANGED <<cloudVars, gates, image, born, cache>>

\* An entry of the cache lives for CacheTTL.
CacheExpires(m) ==
    /\ cache[m] # 0
    /\ cache' = [cache EXCEPT ![m] = 0]
    /\ UNCHANGED <<cloudVars, apiVars, cur, local, found, pc, faults>>

\* The manager stops, and starts again with an empty cache.
Crash ==
    /\ Fault("crash")
    /\ Forget /\ cache' = [m \in Machines |-> 0]
    /\ UNCHANGED <<cloudVars, apiVars>>

Steps ==
    \/ ScopeFails \/ WaitAtGate \/ PassGates
    \/ FindInstance \/ ValidateSystemType \/ ResolveUserData
    \/ ResolveImageAndNetwork \/ CreateInstance
    \/ SyncInstance \/ SyncFails \/ RegisterPoolMember
    \/ SkipDelete \/ DeleteInstance \/ DeleteIgnition
    \/ Patch

Progress(n) == InstanceProgress(n) \/ AddressAssigned(n)

Environment ==
    \/ \E n \in DOMAIN instances : Progress(n)
    \/ \E lb \in LoadBalancers : LoadBalancerUpdated(lb)
    \/ \E gate \in AllGates : GateOpens(gate)

Next ==
    \/ Environment \/ DeleteImageObject \/ Crash
    \/ \E n \in DOMAIN instances : InstanceFails(n)
    \/ \E m \in Machines :
          \/ DeleteMachineObject(m) \/ CreateMachineObject(m) \/ CacheExpires(m)
          \/ ReconcileReturns(m) \/ EnsureFinalizer(m) \/ StartReconcile(m)
    \/ Steps

Spec == Init /\ [][Next]_vars

\* Every object comes up again within the sync period, a reconcile that has
\* begun goes on, and IBM Cloud and Cluster API finish what they started.
FairSpec ==
    /\ Spec
    /\ WF_vars(Steps) /\ WF_vars(Environment)
    /\ \A m \in Machines : SF_vars(EnsureFinalizer(m) \/ StartReconcile(m))

----------------------------------------------------------------------------
(* Properties.                                                             *)

\* A name has one instance at a time, although an answer may be lost and an
\* instance show up late.
OneInstance ==
    \A n, k \in DOMAIN instances :
        /\ instances[n].machine = instances[k].machine
        /\ {instances[n].state, instances[k].state} \cap {"deleting", "gone"} = {}
        => n = k

\* Without failures, the internal IP in the status is the one of the instance
\* in the status, whatever instances the name had before.
AddressIsOwn ==
    \A m \in Machines :
        faults = 0 /\ stored[m].id # 0 /\ stored[m].ip # 0 => stored[m].ip = stored[m].id

\* A ready machine is in the first pool that is for it, under the address its
\* status has now, even while the load balancer is busy with somebody else.
ReadyIsRegistered ==
    \A m \in Machines : \A k \in DOMAIN Pools :
        /\ stored[m].cond = "true" /\ stored[m].ip # 0 /\ phase[m] = "live"
        /\ m \in Pools[k].machines
        /\ \A j \in DOMAIN Pools : m \in Pools[j].machines => k <= j
        => stored[m].ip \in members[k]

\* A machine with a recorded instance takes it along, and its bootstrap data.
DeletesWhatItRecorded ==
    [][\A m \in Machines :
         phase[m] # "gone" /\ phase'[m] = "gone" /\ stored[m].id # 0
         => instances[stored[m].id].state \in {"deleting", "gone"} /\ m \notin userData]_vars

\* A machine that is gone leaves no instance behind.
NoLeak ==
    [][\A m \in Machines :
         phase[m] # "gone" /\ phase'[m] = "gone"
         => \A n \in DOMAIN instances : instances[n].machine = m
                                        => instances[n].state \in {"deleting", "gone"}]_vars

Serving(m) ==
    /\ stored[m].provisioned /\ stored[m].cond = "true"
    /\ \A k \in DOMAIN Pools : m \in Pools[k].machines => stored[m].ip \in members[k]

\* The first object of a name that is not deleted ends up serving in all its
\* pools, unless its image is deleted or its instance fails or is stopped.
EventuallyServing ==
    \A m \in Machines :
        <>(\/ Serving(m) \/ phase[m] # "live" \/ born[m] > 1 \/ ~image
           \/ \E n \in DOMAIN instances : instances[n].state \in {"ERROR", "SHUTOFF"})

\* After a failure, or because it took the name's earlier instance, which was
\* being deleted, for its own, the object names an instance that is gone.
DeletedUnnoticed(m) ==
    /\ faults > 0 \/ born[m] > 1
    /\ stored[m].id # 0 /\ instances[stored[m].id].state = "gone"

\* A deleted machine goes away, unless its image went first or its instance is
\* gone without the object ever learning of it.
DeletionCompletes ==
    \A m \in Machines :
        \/ phase[m] = "deleting" ~> (phase[m] = "gone" \/ ~image)
        \/ <>[]DeletedUnnoticed(m)

\* The wait for an instance that was created comes to an end.
UnknownIsTransient ==
    \A m \in Machines :
        phase[m] = "live" /\ stored[m].cond = "unknown" ~>
            phase[m] # "live" \/ stored[m].cond # "unknown"
=============================================================================
