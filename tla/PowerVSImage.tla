---------------------------- MODULE PowerVSImage -----------------------------
(***************************************************************************)
(* The IBMPowerVSImage controller: the images of one cluster, imported     *)
(* into its workspace by COS import jobs.  One worker reconciles all of    *)
(* them in turn, and the workspace has one "last import job" for them all. *)
(* Beside it runs the part of the cluster controller that deletes the      *)
(* images and then the workspace.                                          *)
(***************************************************************************)
EXTENDS Naturals, Sequences

CONSTANTS
    Images,      \* the IBMPowerVSImages
    ByID,        \* the ones with Spec.Workspace.ID
    Labelled,    \* the ones created with the cluster-name label
    Retain,      \* the ones with Spec.DeletePolicy "retain"
    MayDelete,   \* what users delete: images, and "cluster"
    MaxJobs,     \* bound on the import jobs of the workspace
    FaultKinds,  \* the kinds of failure that may happen
    MaxFaults    \* bound on the number of failures

NoImage == "none"

ASSUME ImageAssumption ==
    /\ {NoImage, "cluster"} \cap Images = {}
    /\ MayDelete \subseteq Images \cup {"cluster"}
    /\ ByID \cup Labelled \cup Retain \subseteq Images
ASSUME BoundAssumption == MaxJobs \in Nat /\ MaxFaults \in Nat
ASSUME FaultAssumption ==
    FaultKinds \subseteq {"api", "lost", "nil", "patch", "crash", "fail"}

VARIABLES
    \* IBM Cloud
    workspace,  \* "absent", "pending" or "active"
    jobs,       \* the import jobs of the workspace, oldest first
    boot,       \* state of the boot image of each name
    \* the API server
    stored,     \* the persisted objects
    phase,      \* "live", "deleting" or "gone", for each object
    cluster,    \* the same, for the IBMPowerVSCluster
    \* the controller
    cur,        \* the image being reconciled
    local,      \* its in-memory copy
    pc,         \* where the reconcile stands
    \* failures
    faults      \* failures so far

cloudVars == <<workspace, jobs, boot>>
apiVars == <<stored, phase, cluster>>
ctlVars == <<cur, local, pc>>
vars == <<cloudVars, apiVars, ctlVars, faults>>

Status == {"none", "unknown", "true", "false"}
ImageStates == {"none", "queued", "importing", "completed", "failed", "active", "error"}

\* An IBMPowerVSImage: finalizer, cluster-name label and owner reference; the
\* two conditions; JobID (0 when empty), whether ImageID is set, ImageState.
ObjectType ==
    [finalizer : BOOLEAN, label : BOOLEAN, owner : BOOLEAN,
     workspaceReady : Status, ready : Status,
     job : 0..MaxJobs, id : BOOLEAN, state : ImageStates]

NewObject ==
    [finalizer |-> FALSE, label |-> FALSE, owner |-> FALSE,
     workspaceReady |-> "none", ready |-> "none",
     job |-> 0, id |-> FALSE, state |-> "none"]

JobType ==
    [image : Images, state : {"queued", "running", "completed", "failed", "deleted"}]

CloudTypeOK ==
    /\ workspace \in {"absent", "pending", "active"}
    /\ jobs \in Seq(JobType) /\ Len(jobs) <= MaxJobs
    /\ boot \in [Images -> {"absent", "queued", "active", "error"}]

ApiTypeOK ==
    /\ stored \in [Images -> ObjectType]
    /\ \A i \in Images : stored[i].job <= Len(jobs)
    /\ phase \in [Images -> {"live", "deleting", "gone"}]
    /\ cluster \in {"live", "deleting", "gone"}

ControllerTypeOK ==
    /\ cur \in Images \cup {NoImage}
    /\ local \in ObjectType /\ local.job <= Len(jobs)
    /\ pc \in {"idle", "scope", "poll", "list", "last", "import", "get",
               "delScope", "delete", "patch"}
    /\ pc # "idle" => cur \in Images
    /\ pc = "poll" => local.job # 0

\* Every variable has its type, and a JobID, persisted or not, is always the ID
\* of a job that was created.
TypeOK == CloudTypeOK /\ ApiTypeOK /\ ControllerTypeOK /\ faults \in 0..MaxFaults

Init ==
    /\ workspace = "absent" /\ jobs = <<>>
    /\ boot = [i \in Images |-> "absent"]
    /\ stored = [i \in Images |-> [NewObject EXCEPT !.label = (i \in Labelled)]]
    /\ phase = [i \in Images |-> "live"] /\ cluster = "live"
    /\ cur = NoImage /\ local = NewObject /\ pc = "idle"
    /\ faults = 0

----------------------------------------------------------------------------
(* Failures.  "api": a call fails and has no effect; "lost": it takes      *)
(* effect and its answer is lost; "nil": a job comes without its status;   *)
(* "patch", "crash": as for the cluster; "fail": an import fails.          *)

NoFault == faults' = faults

Fault(kind) ==
    /\ kind \in FaultKinds
    /\ faults < MaxFaults
    /\ faults' = faults + 1

Unfinished(j) == jobs[j].state \in {"queued", "running"}

----------------------------------------------------------------------------
(* IBM Cloud.                                                              *)

\* The cluster controller creates the workspace and IBM Cloud activates it.
WorkspaceProgress ==
    /\ \/ workspace = "absent" /\ cluster = "live" /\ workspace' = "pending"
       \/ workspace = "pending" /\ workspace' = "active"
    /\ UNCHANGED <<jobs, boot, apiVars, ctlVars, faults>>

JobStarts(j) ==
    /\ jobs[j].state = "queued"
    /\ jobs' = [jobs EXCEPT ![j].state = "running"]
    /\ UNCHANGED <<workspace, boot, apiVars, ctlVars, faults>>

JobCompletes(j) ==
    LET i == jobs[j].image IN
    /\ jobs[j].state = "running"
    /\ jobs' = [jobs EXCEPT ![j].state = "completed"]
    /\ boot' = [boot EXCEPT ![i] = IF @ = "absent" THEN "queued" ELSE @]
    /\ UNCHANGED <<workspace, apiVars, ctlVars, faults>>

JobFails(j) ==
    /\ Unfinished(j)
    /\ Fault("fail")
    /\ jobs' = [jobs EXCEPT ![j].state = "failed"]
    /\ UNCHANGED <<workspace, boot, apiVars, ctlVars>>

BootImageReady(i) ==
    /\ boot[i] = "queued"
    /\ \/ boot' = [boot EXCEPT ![i] = "active"] /\ NoFault
       \/ boot' = [boot EXCEPT ![i] = "error"] /\ Fault("fail")
    /\ UNCHANGED <<workspace, jobs, apiVars, ctlVars>>

----------------------------------------------------------------------------
(* Users, and the deletion of the cluster.                                 *)

Doomed(i) == IF stored[i].finalizer THEN "deleting" ELSE "gone"

DeleteImageObject(i) ==
    /\ i \in MayDelete /\ phase[i] = "live"
    /\ phase' = [phase EXCEPT ![i] = Doomed(i)]
    /\ UNCHANGED <<cloudVars, stored, cluster, ctlVars, faults>>

DeleteClusterObject ==
    /\ "cluster" \in MayDelete /\ cluster = "live"
    /\ cluster' = "deleting"
    /\ UNCHANGED <<cloudVars, stored, phase, ctlVars, faults>>

\* listDescendants: the images with the label of the cluster.
Descendants == {i \in Images : phase[i] # "gone" /\ stored[i].label}

\* deleteIBMPowerVSImage with images left: the owned ones are deleted.
ClusterDeletesImages ==
    /\ cluster = "deleting" /\ Descendants # {}
    /\ phase' = [i \in Images |-> IF i \in Descendants /\ stored[i].owner /\ phase[i] = "live"
                                  THEN Doomed(i) ELSE phase[i]]
    /\ UNCHANGED <<cloudVars, stored, cluster, ctlVars, faults>>

\* No image left: the workspace goes, with everything in it.
ClusterDeletesWorkspace ==
    /\ cluster = "deleting" /\ Descendants = {}
    /\ cluster' = "gone" /\ workspace' = "absent"
    /\ boot' = [i \in Images |-> "absent"]
    /\ jobs' = [j \in DOMAIN jobs |-> [jobs[j] EXCEPT !.state = "deleted"]]
    /\ UNCHANGED <<stored, phase, ctlVars, faults>>

----------------------------------------------------------------------------
(* Reconcile up to the scope.                                              *)

\* Reconcile of an object that is gone, or of a live one without its cluster.
ReconcileReturns(i) ==
    /\ pc = "idle"
    /\ phase[i] = "gone" \/ (phase[i] = "live" /\ stored[i].finalizer /\ cluster = "gone")
    /\ UNCHANGED vars

EnsureFinalizer(i) ==
    /\ pc = "idle" /\ phase[i] = "live" /\ ~stored[i].finalizer
    /\ stored' = [stored EXCEPT ![i].finalizer = TRUE]
    /\ UNCHANGED <<cloudVars, phase, cluster, ctlVars, faults>>

\* A live image needs its cluster to exist; a deleted one does not.
StartReconcile(i) ==
    /\ pc = "idle" /\ phase[i] # "gone" /\ stored[i].finalizer
    /\ phase[i] = "live" => cluster # "gone"
    /\ cur' = i /\ local' = stored[i]
    /\ pc' = IF phase[i] = "live" THEN "scope" ELSE "delScope"
    /\ UNCHANGED <<cloudVars, apiVars, faults>>

\* resolveWorkspace: by name the workspace has to be active, by ID to exist.
WorkspaceResolved == workspace = "active" \/ (cur \in ByID /\ workspace # "absent")

\* NewPowerVSImageScope fails; only a workspace found inactive is reported.
ScopeFails ==
    /\ pc \in {"scope", "delScope"}
    /\ \/ /\ ~WorkspaceResolved /\ NoFault
          /\ local' = [local EXCEPT !.ready = "unknown",
                           !.workspaceReady = IF workspace = "pending" THEN "false" ELSE @]
       \/ Fault("api") /\ local' = [local EXCEPT !.ready = "unknown"]
    /\ pc' = "patch"
    /\ UNCHANGED <<cloudVars, apiVars, cur>>

\* Mutant: adopts the image and goes on in the same reconcile.
AdoptAndProceed ==
    /\ pc = "scope" /\ WorkspaceResolved
    /\ local' = [local EXCEPT !.label = TRUE, !.owner = TRUE, !.workspaceReady = "true"]
    /\ pc' = IF local.job # 0 THEN "poll" ELSE "list"
    /\ NoFault
    /\ UNCHANGED <<cloudVars, apiVars, cur>>

\* reconcile: an image without an owner reference is adopted and nothing else
\* is done; the next reconcile goes on with the job or with the lookup.
Adopt ==
    /\ pc = "scope" /\ WorkspaceResolved
    /\ IF ~local.owner
       THEN /\ local' = [local EXCEPT !.label = TRUE, !.owner = TRUE]
            /\ pc' = "patch"
       ELSE /\ local' = [local EXCEPT !.label = TRUE, !.workspaceReady = "true"]
            /\ pc' = IF local.job # 0 THEN "poll" ELSE "list"
    /\ NoFault
    /\ UNCHANGED <<cloudVars, apiVars, cur>>

----------------------------------------------------------------------------
(* reconcile.                                                              *)

\* A call to the workspace fails, or the workspace is gone.
CallFails == Fault("api") \/ (workspace = "absent" /\ NoFault)
CallSucceeds == workspace # "absent" /\ NoFault

Polled(state) ==
    CASE state = "completed" -> [local EXCEPT !.state = state, !.ready = "true"]
      [] state \in {"failed", "queued"} -> [local EXCEPT !.state = state, !.ready = "false"]
      [] OTHER -> [local EXCEPT !.state = "importing", !.ready = "false"]

\* A recorded job is polled, and only a completed one lets the reconcile go on.
PollJob ==
    /\ pc = "poll"
    /\ LET state == jobs[local.job].state IN
       \/ /\ \/ state = "deleted" /\ NoFault
             \/ Fault("api") \/ Fault("nil")
          /\ pc' = "patch" /\ UNCHANGED local
       \/ /\ state # "deleted" /\ NoFault
          /\ local' = Polled(state)
          /\ pc' = IF state = "completed" THEN "list" ELSE "patch"
    /\ UNCHANGED <<cloudVars, apiVars, cur>>

\* GetOrImportImage, ensureImageUnique: the image of this name, if there is one.
ListImages ==
    /\ pc = "list"
    /\ \/ CallFails /\ pc' = "patch"
       \/ CallSucceeds /\ pc' = IF boot[cur] = "absent" THEN "last" ELSE "get"
    /\ UNCHANGED <<cloudVars, apiVars, cur, local>>

\* Mutant: no look at the job in progress.
ImportAtOnce ==
    /\ pc = "last" /\ NoFault
    /\ pc' = "import"
    /\ UNCHANGED <<cloudVars, apiVars, cur, local>>

\* Mutant: waits for whatever job came last, ended or not.
WaitForAnyJob ==
    /\ pc = "last" /\ NoFault
    /\ pc' = IF jobs # <<>> THEN "patch" ELSE "import"
    /\ UNCHANGED <<cloudVars, apiVars, cur, local>>

\* GetOrImportImage, getImportJob: the last job of the workspace, whichever
\* image it imports, must have ended; one without a status counts as none.
CheckLastJob ==
    /\ pc = "last"
    /\ \/ CallFails /\ pc' = "patch"
       \/ Fault("nil") /\ pc' = "import"
       \/ CallSucceeds
          /\ pc' = IF jobs # <<>> /\ Unfinished(Len(jobs)) THEN "patch" ELSE "import"
    /\ UNCHANGED <<cloudVars, apiVars, cur, local>>

\* CreateCosImage, whose answer is recorded as the JobID.
ImportImage ==
    /\ pc = "import"
    /\ \/ CallFails /\ UNCHANGED <<jobs, local>>
       \/ /\ Len(jobs) < MaxJobs /\ workspace # "absent"
          /\ jobs' = Append(jobs, [image |-> cur, state |-> "queued"])
          /\ \/ NoFault /\ local' = [local EXCEPT !.job = Len(jobs) + 1]
             \/ Fault("lost") /\ UNCHANGED local
    /\ pc' = "patch"
    /\ UNCHANGED <<workspace, boot, apiVars, cur>>

\* Mutant: takes a queued image for an active one.
ReconcileImageEarly ==
    /\ pc = "get" /\ boot[cur] # "absent" /\ NoFault
    /\ local' = [local EXCEPT !.id = TRUE, !.state = "active", !.ready = "true"]
    /\ pc' = "patch"
    /\ UNCHANGED <<cloudVars, apiVars, cur>>

\* reconcileImage on the image found: its ID and state are recorded.
ReconcileImage ==
    /\ pc = "get"
    /\ \/ /\ \/ boot[cur] = "absent" /\ NoFault
             \/ Fault("api")
          /\ UNCHANGED local
       \/ /\ boot[cur] # "absent" /\ NoFault
          /\ local' = [local EXCEPT !.id = TRUE, !.state = boot[cur],
                           !.ready = CASE boot[cur] = "queued" -> "false"
                                       [] boot[cur] = "active" -> "true"
                                       [] OTHER -> "unknown"]
    /\ pc' = "patch"
    /\ UNCHANGED <<cloudVars, apiVars, cur>>

----------------------------------------------------------------------------
(* reconcileDelete.                                                        *)

StartDelete ==
    /\ pc = "delScope" /\ WorkspaceResolved
    /\ local' = [local EXCEPT !.ready = "false"]
    /\ pc' = "delete" /\ NoFault
    /\ UNCHANGED <<cloudVars, apiVars, cur>>

Finalized == [local EXCEPT !.finalizer = FALSE]

\* Mutant: an image without ID and job is an error.
SkipDeleteOnlyRetained ==
    /\ pc = "delete"
    /\ IF local.id THEN cur \in Retain ELSE local.job = 0
    /\ local' = IF local.id THEN Finalized ELSE local
    /\ pc' = "patch" /\ NoFault
    /\ UNCHANGED <<cloudVars, apiVars, cur>>

\* Nothing to delete in the workspace: no ID and no job, or a retained image.
SkipDelete ==
    /\ pc = "delete"
    /\ IF local.id THEN cur \in Retain ELSE local.job = 0
    /\ local' = Finalized /\ pc' = "patch" /\ NoFault
    /\ UNCHANGED <<cloudVars, apiVars, cur>>

\* Without an image ID, DeleteImportJob; a job that is gone is an error.
DeleteImportJob ==
    /\ pc = "delete" /\ ~local.id /\ local.job # 0
    /\ \/ /\ \/ jobs[local.job].state = "deleted" /\ NoFault
             \/ Fault("api")
          /\ UNCHANGED <<jobs, local>>
       \/ /\ jobs[local.job].state # "deleted"
          /\ jobs' = [jobs EXCEPT ![local.job].state = "deleted"]
          /\ \/ NoFault /\ local' = Finalized
             \/ Fault("lost") /\ UNCHANGED local
    /\ pc' = "patch"
    /\ UNCHANGED <<workspace, boot, apiVars, cur>>

\* DeleteImage; an image that is gone is an error.
DeleteImage ==
    /\ pc = "delete" /\ local.id /\ cur \notin Retain
    /\ \/ /\ \/ boot[cur] = "absent" /\ NoFault
             \/ Fault("api")
          /\ UNCHANGED <<boot, local>>
       \/ /\ boot[cur] # "absent"
          /\ boot' = [boot EXCEPT ![cur] = "absent"]
          /\ \/ NoFault /\ local' = Finalized
             \/ Fault("lost") /\ UNCHANGED local
    /\ pc' = "patch"
    /\ UNCHANGED <<workspace, jobs, apiVars, cur>>

----------------------------------------------------------------------------
(* The deferred patch, and the whole.                                      *)

ForgetAll == cur' = NoImage /\ local' = NewObject /\ pc' = "idle"

\* SetSummaryCondition over WorkspaceReady alone.
Summary(o) ==
    [o EXCEPT !.ready = IF o.workspaceReady = "none" THEN "unknown" ELSE o.workspaceReady]

PatchParts == {"conditions", "object", "status"}

\* patchIBMPowerVSImage: three requests, each of which may fail on its own.
Patched(o, parts) ==
    LET part(p) == IF p \in parts THEN Summary(local) ELSE o IN
    [finalizer |-> part("object").finalizer, label |-> part("object").label,
     owner |-> part("object").owner,
     workspaceReady |-> part("conditions").workspaceReady,
     ready |-> part("conditions").ready,
     job |-> part("status").job, id |-> part("status").id, state |-> part("status").state]

Patch ==
    /\ pc = "patch"
    /\ \E parts \in SUBSET PatchParts :
         /\ IF parts = PatchParts THEN NoFault ELSE Fault("patch")
         /\ stored' = [stored EXCEPT ![cur] = Patched(@, parts)]
    /\ phase' = IF phase[cur] = "deleting" /\ ~stored'[cur].finalizer
                THEN [phase EXCEPT ![cur] = "gone"] ELSE phase
    /\ ForgetAll
    /\ UNCHANGED <<cloudVars, cluster>>

Crash ==
    /\ pc # "idle"
    /\ Fault("crash")
    /\ ForgetAll
    /\ UNCHANGED <<cloudVars, apiVars>>

Steps ==
    \/ ScopeFails \/ Adopt
    \/ PollJob \/ ListImages \/ CheckLastJob \/ ImportImage \/ ReconcileImage
    \/ StartDelete \/ SkipDelete \/ DeleteImportJob \/ DeleteImage
    \/ Patch

CloudProgress ==
    \/ WorkspaceProgress
    \/ \E j \in DOMAIN jobs : JobStarts(j) \/ JobCompletes(j) \/ JobFails(j)
    \/ \E i \in Images : BootImageReady(i)

Cluster == ClusterDeletesImages \/ ClusterDeletesWorkspace

Next ==
    \/ CloudProgress \/ Cluster \/ DeleteClusterObject
    \/ \E i \in Images :
          \/ DeleteImageObject(i)
          \/ ReconcileReturns(i) \/ EnsureFinalizer(i) \/ StartReconcile(i)
    \/ Steps \/ Crash

Spec == Init /\ [][Next]_vars

\* Every image keeps coming up in the work queue, a reconcile that has begun
\* goes on, and jobs, images and the cluster controller make progress.
FairSpec ==
    /\ Spec
    /\ WF_vars(Steps) /\ WF_vars(CloudProgress) /\ WF_vars(Cluster)
    /\ \A i \in Images : SF_vars(EnsureFinalizer(i) \/ StartReconcile(i))

----------------------------------------------------------------------------
(* Properties.                                                             *)

\* At most one import of the workspace is under way, although each image
\* decides on its own whether to start one.
OneImportAtATime ==
    \A j, k \in DOMAIN jobs : Unfinished(j) /\ Unfinished(k) => j = k

\* ImageState ACTIVE, which lets machines be created, stands for an image that
\* is active in the workspace, whatever failed on the way.
ActiveIsReal ==
    \A i \in Images : phase[i] = "live" /\ stored[i].state = "active" => boot[i] = "active"

\* The workspace is deleted only when no image object waits for it to delete
\* an import of its own.
NoStrandedImport ==
    [][\A i \in Images :
         workspace # "absent" /\ workspace' = "absent" /\ phase[i] # "gone"
         => stored[i].job = 0 /\ ~stored[i].id]_vars

\* A Ready image is one that machines can be created from.
ReadyMeansActive ==
    \A i \in Images : phase[i] = "live" /\ stored[i].ready = "true" => stored[i].state = "active"

\* An image nobody deletes becomes active, unless its import or the image failed.
EventuallyActive ==
    \A i \in Images :
        <>(\/ phase[i] # "live" \/ cluster # "live" \/ stored[i].state \in {"active", "failed", "error"})

\* After a failure, what the object still names is gone from the workspace.
Dangling(i) ==
    /\ faults > 0
    /\ \/ stored[i].id /\ boot[i] = "absent"
       \/ ~stored[i].id /\ stored[i].job # 0 /\ jobs[stored[i].job].state = "deleted"

\* A deleted image goes away while its cluster is there, after any failures.  Known
\* not to hold: image_liveness.cfg with this property.
DeletionAfterFaults ==
    \A i \in Images : phase[i] = "deleting" ~> (phase[i] = "gone" \/ cluster = "gone")

\* A deleted image goes away while its cluster is there, unless a deletion took
\* effect, because of a failure, without the object ever learning of it.
DeletionCompletes ==
    \A i \in Images :
        \/ phase[i] = "deleting" ~> (phase[i] = "gone" \/ cluster = "gone")
        \/ <>[]Dangling(i)
=============================================================================
