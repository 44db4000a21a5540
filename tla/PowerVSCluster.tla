---------------------------- MODULE PowerVSCluster ---------------------------
(***************************************************************************)
(* The IBMPowerVSCluster controller: Reconcile around the create and the   *)
(* delete path, the deferred patch, and a restart of the manager at any    *)
(* point in between.                                                       *)
(***************************************************************************)
EXTENDS PowerVSClusterDelete

\* What a reconcile leaves behind in memory: nothing.
ForgetAll ==
    /\ pc' = "idle" /\ pvs' = "done" /\ vpc' = "done"
    /\ local' = NewObject /\ bound' = FALSE
    /\ loop' = NoLoop /\ res' = NoResult

\* Reconcile of an object that is gone returns at once.
ReconcileNotFound ==
    /\ pc = "idle" /\ phase = "gone"
    /\ UNCHANGED vars

\* The first Reconcile of an object only adds the finalizer.
EnsureFinalizer ==
    /\ pc = "idle" /\ phase = "live" /\ ~stored.finalizer
    /\ stored' = [stored EXCEPT !.finalizer = TRUE]
    /\ UNCHANGED <<cloudVars, phase, gate, images, recorded, ctlVars, faults>>

\* Mutant: the reconcile does not wait for the finalizer.
StartReconcileUnguarded ==
    /\ pc = "idle" /\ phase # "gone" /\ gate = "open"
    /\ local' = stored
    /\ bound' = ("workspace" \in stored.id)
    /\ pc' = IF phase = "live" THEN "prepare" ELSE "images"
    /\ UNCHANGED <<cloudVars, apiVars, pvs, vpc, loop, res, faults>>

\* Owned by a Cluster and not paused: the scope is built on the object just
\* read, its PowerVS client with the workspace ID of that object's status.
StartReconcile ==
    /\ pc = "idle" /\ phase # "gone" /\ stored.finalizer /\ gate = "open"
    /\ local' = stored
    /\ bound' = ("workspace" \in stored.id)
    /\ pc' = IF phase = "live" THEN "prepare" ELSE "images"
    /\ UNCHANGED <<cloudVars, apiVars, pvs, vpc, loop, res, faults>>

\* SetSummaryCondition: a false condition wins over an unknown or missing one;
\* a missing COSInstanceReady is ignored.
SummaryCondition(cond) ==
    LET values == {cond[c] : c \in ConditionTypes \ {"COSInstanceReady"}}
                  \cup ({cond["COSInstanceReady"]} \ {"none"})
    IN IF "false" \in values THEN "false"
       ELSE IF values = {"true"} THEN "true" ELSE "unknown"

Summarized(o) ==
    IF Topology = "LoadBalancer"
    THEN [o EXCEPT !.cond["Ready"] = SummaryCondition(o.cond)] ELSE o

\* The patch helper's three requests: conditions, metadata and spec, status.
Patched(parts) ==
    LET o == Summarized(local)
        part(p) == IF p \in parts THEN o ELSE stored
    IN [finalizer |-> part("object").finalizer, endpoint |-> part("object").endpoint,
        cond |-> part("conditions").cond,
        id |-> part("status").id, host |-> part("status").host,
        hmac |-> part("status").hmac, provisioned |-> part("status").provisioned]

PatchParts == {"conditions", "object", "status"}

\* patchIBMPowerVSCluster, deferred by Reconcile.  Each request may fail on its
\* own.  A deleted object goes when its last finalizer does.
Patch ==
    /\ pc = "patch"
    /\ \E parts \in SUBSET PatchParts :
         /\ IF parts = PatchParts THEN NoFault ELSE Fault("patch")
         /\ stored' = Patched(parts)
         /\ recorded' = recorded \cup stored'.id
         /\ phase' = IF phase = "deleting" /\ ~stored'.finalizer THEN "gone" ELSE phase
    /\ ForgetAll
    /\ UNCHANGED <<cloudVars, gate, images>>

\* The manager stops in the middle of a reconcile.
Crash ==
    /\ pc # "idle"
    /\ Fault("crash")
    /\ ForgetAll
    /\ UNCHANGED <<cloudVars, apiVars>>

Controller ==
    \/ EnsureFinalizer \/ StartReconcile \/ ReconcileStep \/ DeleteStep \/ Patch

Next == Environment \/ Controller \/ Crash \/ ReconcileNotFound

Spec == Init /\ [][Next]_vars

\* The work queue retries errors and requeues, the manager resyncs, and a
\* reconcile that has begun goes on.
ControllerFairness == WF_vars(Controller)

FairSpec == Spec /\ ControllerFairness /\ EnvironmentFairness

----------------------------------------------------------------------------
(* Safety.                                                                 *)

InfraGone(r) == cloud[r] \in {"absent", "deleting", "removed"}

\* The controller never deletes what the user only refers to: the SourceType
\* guards of every Delete* method hold whatever the status says.
NoForeignDelete == \A r \in Referenced : cloud[r] = "active"

\* The controller issues a delete only for a resource that one of its own
\* create calls made.
DeletesOnlyCreated ==
    [][\A r \in Res : cloud[r] # "deleting" /\ cloud'[r] = "deleting" => r \in created]_vars

\* A status write never drops the ID of a provisioned resource that still exists.
NeverForgetsLive ==
    [][\A r \in stored.id \ stored'.id :
            phase = "live" \/ Provision(r) => cloud[r] = "absent"]_vars

\* The provisioned resources the object answers for: their ID was persisted
\* and they are not gone or going.
Owned == {r \in recorded : Provision(r) /\ ~InfraGone(r)}

Contract == INSTANCE ClusterContract
    WITH Resources <- Res, stage <- phase, owned <- Owned,
         provisioned <- stored.provisioned, endpoint <- stored.endpoint

\* The controller implements the contract: resources whose ID was persisted are
\* kept while the cluster is wanted and are gone or going when the object goes,
\* and Provisioned and the endpoint are never taken back, whatever fails.
ImplementsContract == Contract!Spec

\* Nothing is created twice: a name lookup precedes every create.
NoDuplicates == dup = {}

\* Record the ID, come back, then verify: a network step always has a PowerVS
\* client bound to the workspace, and a persisted WorkspaceReady, NetworkReady
\* or VPCSubnetReady condition never outruns the IDs it speaks of, even when
\* the patch of the conditions succeeds and the patch of the status fails.
ReadyIsBacked ==
    /\ pc = "components" /\ pvs = "network" => bound
    /\ phase = "live" =>
         /\ stored.cond["WorkspaceReady"] = "true" => "workspace" \in stored.id
         /\ stored.cond["NetworkReady"] = "true" => "network" \in stored.id
         /\ stored.cond["VPCSubnetReady"] = "true" =>
                \A s \in SubnetSet : Provision(s) => s \in stored.id

\* Initialization.Provisioned is reported only over infrastructure that works.
ProvisionedMeansReady ==
    phase = "live" /\ Topology = "LoadBalancer" /\ stored.provisioned =>
        /\ \A r \in {"workspace", "network", "tg", "vpcConn", "pvsConn"} : cloud[r] = "active"
        /\ HasCOS => cloud["cos"] = "active" /\ secret
        /\ cloud["vpc"] \in {"active", "failed"}
        /\ \A r \in SubnetSet \cup SecurityGroupSet \cup LoadBalancerSet : Exists(r)

\* Deletion waits for what is attached: until something fails, no delete call is
\* refused as "in use".
NoRefusedDelete ==
    faults = 0 /\ pc \in DOMAIN DeletingCondition => ~(res.err \/ loop.err)

----------------------------------------------------------------------------
(* Liveness, under FairSpec.                                               *)

\* A cluster nobody deletes is eventually provisioned, with its endpoint set,
\* unless IBM Cloud reports one of its resources as failed.
EventuallyProvisioned ==
    <>(\/ phase # "live"
       \/ stored.provisioned /\ (Topology = "LoadBalancer" => stored.endpoint)
       \/ \E r \in Res : cloud[r] = "failed")

\* Resources the controller created, that exist, and that the status does not know.
Unrecorded == {r \in created \ stored.id : Exists(r)}

\* A cluster whose deletion begins with every resource recorded goes away.
DeletionCompletes == pc = "images" /\ Unrecorded = {} ~> phase = "gone"
=============================================================================
