-------------------------- MODULE PowerVSImageProofs -------------------------
(***************************************************************************)
(* Proofs about PowerVSImage, for every set of images and every bound.     *)
(***************************************************************************)
EXTENDS PowerVSImage, SequenceTheorems, TLAPS

----------------------------------------------------------------------------
(* Types.                                                                  *)

\* The fault counter stays within its bound.
LEMMA FaultArithmetic ==
    ASSUME faults \in 0..MaxFaults
    PROVE /\ NoFault => faults' \in 0..MaxFaults
          /\ \A kind : Fault(kind) => faults' \in 0..MaxFaults
BY BoundAssumption DEF NoFault, Fault

\* A fresh object is well formed.
LEMMA NewObjectType == NewObject \in ObjectType
BY BoundAssumption DEF NewObject, ObjectType, Status, ImageStates

\* Writing one of its fields keeps an object well formed, and its JobID.
LEMMA ObjectUpdates ==
    ASSUME NEW o \in ObjectType, NEW v \in Status, NEW w \in Status,
           NEW b \in BOOLEAN, NEW st \in ImageStates
    PROVE /\ [o EXCEPT !.finalizer = b] \in ObjectType
          /\ [o EXCEPT !.ready = v] \in ObjectType
          /\ [o EXCEPT !.ready = v, !.workspaceReady = w] \in ObjectType
          /\ [o EXCEPT !.label = TRUE, !.owner = TRUE] \in ObjectType
          /\ [o EXCEPT !.label = TRUE, !.workspaceReady = v] \in ObjectType
          /\ [o EXCEPT !.state = st, !.ready = v] \in ObjectType
          /\ [o EXCEPT !.id = TRUE, !.state = st, !.ready = v] \in ObjectType
BY DEF ObjectType

\* A job that changes its state stays a job, and so does the list of them.
LEMMA JobUpdate ==
    ASSUME CloudTypeOK, NEW j \in DOMAIN jobs,
           NEW st \in {"queued", "running", "completed", "failed", "deleted"}
    PROVE /\ [jobs EXCEPT ![j].state = st] \in Seq(JobType)
          /\ Len([jobs EXCEPT ![j].state = st]) = Len(jobs)
<1>1. j \in 1..Len(jobs) /\ jobs[j] \in JobType
  BY DEF CloudTypeOK
<1>2. [jobs[j] EXCEPT !.state = st] \in JobType
  BY <1>1 DEF JobType
<1>3. [jobs EXCEPT ![j].state = st] = [jobs EXCEPT ![j] = [jobs[j] EXCEPT !.state = st]]
  OBVIOUS
<1>. QED BY <1>1, <1>2, <1>3, ExceptSeq DEF CloudTypeOK

\* The job list of a deleted workspace is a list of as many jobs.
LEMMA JobsDeleted ==
    ASSUME CloudTypeOK
    PROVE LET d == [j \in DOMAIN jobs |-> [jobs[j] EXCEPT !.state = "deleted"]]
          IN d \in Seq(JobType) /\ Len(d) = Len(jobs)
<1>. DEFINE d == [j \in DOMAIN jobs |-> [jobs[j] EXCEPT !.state = "deleted"]]
<1>1. DOMAIN d = 1..Len(jobs) /\ Len(jobs) \in Nat
  BY DEF CloudTypeOK
<1>2. ASSUME NEW j \in 1..Len(jobs) PROVE d[j] \in JobType
  <2>1. jobs[j] \in JobType
    BY DEF CloudTypeOK
  <2>2. [jobs[j] EXCEPT !.state = "deleted"] \in JobType
    BY <2>1 DEF JobType
  <2>. QED BY <1>1, <2>2
<1>3. d \in [1..Len(jobs) -> JobType]
  BY <1>1, <1>2
<1>. QED BY <1>1, <1>3

\* The steps of the cloud and of users keep the types.
LEMMA EnvironmentType ==
    ASSUME TypeOK,
           \/ CloudProgress \/ Cluster \/ DeleteClusterObject
           \/ \E i \in Images : DeleteImageObject(i)
    PROVE TypeOK'
<1>. USE DEF TypeOK, cloudVars, apiVars, ctlVars
<1>1. CASE WorkspaceProgress
  BY <1>1 DEF WorkspaceProgress, CloudTypeOK, ApiTypeOK, ControllerTypeOK
<1>2. ASSUME NEW j \in DOMAIN jobs, JobStarts(j) PROVE TypeOK'
  BY <1>2, JobUpdate DEF JobStarts, CloudTypeOK, ApiTypeOK, ControllerTypeOK
<1>3. ASSUME NEW j \in DOMAIN jobs, JobCompletes(j) PROVE TypeOK'
  <2>1. CloudTypeOK' /\ Len(jobs') = Len(jobs)
    BY <1>3, JobUpdate DEF JobCompletes, CloudTypeOK
  <2>. QED BY <1>3, <2>1 DEF JobCompletes, ApiTypeOK, ControllerTypeOK
<1>4. ASSUME NEW j \in DOMAIN jobs, JobFails(j) PROVE TypeOK'
  BY <1>4, JobUpdate, FaultArithmetic DEF JobFails, CloudTypeOK, ApiTypeOK, ControllerTypeOK
<1>5. ASSUME NEW i \in Images, BootImageReady(i) PROVE TypeOK'
  BY <1>5, FaultArithmetic DEF BootImageReady, CloudTypeOK, ApiTypeOK, ControllerTypeOK
<1>6. CASE ClusterDeletesImages
  BY <1>6 DEF ClusterDeletesImages, Doomed, CloudTypeOK, ApiTypeOK, ControllerTypeOK
<1>7. CASE ClusterDeletesWorkspace
  <2>1. CloudTypeOK' /\ Len(jobs') = Len(jobs)
    BY <1>7, JobsDeleted DEF ClusterDeletesWorkspace, CloudTypeOK
  <2>. QED BY <1>7, <2>1 DEF ClusterDeletesWorkspace, ApiTypeOK, ControllerTypeOK
<1>8. CASE DeleteClusterObject
  BY <1>8 DEF DeleteClusterObject, CloudTypeOK, ApiTypeOK, ControllerTypeOK
<1>9. ASSUME NEW i \in Images, DeleteImageObject(i) PROVE TypeOK'
  BY <1>9 DEF DeleteImageObject, Doomed, CloudTypeOK, ApiTypeOK, ControllerTypeOK
<1>. QED BY <1>1, <1>2, <1>3, <1>4, <1>5, <1>6, <1>7, <1>8, <1>9 DEF CloudProgress, Cluster

\* The steps of reconcile that end or begin it, or only look, keep the types.
LEMMA ControlType ==
    ASSUME TypeOK,
           \/ \E i \in Images : ReconcileReturns(i) \/ EnsureFinalizer(i) \/ StartReconcile(i)
           \/ ScopeFails \/ Adopt \/ ListImages \/ CheckLastJob \/ StartDelete \/ SkipDelete
           \/ Crash
    PROVE TypeOK'
<1>. USE DEF TypeOK, cloudVars, apiVars, ctlVars, CloudTypeOK, ApiTypeOK, ControllerTypeOK
<1>1. ASSUME NEW i \in Images, ReconcileReturns(i) PROVE TypeOK'
  BY <1>1 DEF ReconcileReturns, vars
<1>2. ASSUME NEW i \in Images, EnsureFinalizer(i) PROVE TypeOK'
  BY <1>2 DEF EnsureFinalizer, ObjectType
<1>3. ASSUME NEW i \in Images, StartReconcile(i) PROVE TypeOK'
  BY <1>3 DEF StartReconcile
<1>4. CASE ScopeFails
  BY <1>4, FaultArithmetic DEF ScopeFails, ObjectType, Status
<1>5. CASE Adopt
  <2>1. local' \in ObjectType
    BY <1>5, ObjectUpdates DEF Adopt, Status, ImageStates
  <2>2. local'.job = local.job
    BY <1>5 DEF Adopt, ObjectType
  <2>3. pc' \in {"patch", "poll", "list"} /\ (pc' = "poll" => local.job # 0)
    BY <1>5 DEF Adopt
  <2>. QED BY <1>5, <2>1, <2>2, <2>3, FaultArithmetic DEF Adopt
<1>6. CASE ListImages
  BY <1>6, FaultArithmetic DEF ListImages, CallFails, CallSucceeds
<1>7. CASE CheckLastJob
  BY <1>7, FaultArithmetic DEF CheckLastJob, CallFails, CallSucceeds
<1>8. CASE StartDelete
  BY <1>8, FaultArithmetic DEF StartDelete, ObjectType, Status
<1>9. CASE SkipDelete
  BY <1>9, FaultArithmetic DEF SkipDelete, Finalized, ObjectType
<1>10. CASE Crash
  BY <1>10, FaultArithmetic, NewObjectType, BoundAssumption
  DEF Crash, ForgetAll, NewObject
<1>. QED BY <1>1, <1>2, <1>3, <1>4, <1>5, <1>6, <1>7, <1>8, <1>9, <1>10

\* The steps that act on a job, an image or the object keep the types.
LEMMA ActionType ==
    ASSUME TypeOK,
           \/ PollJob \/ ImportImage \/ ReconcileImage \/ DeleteImportJob \/ DeleteImage \/ Patch
    PROVE TypeOK'
<1>. USE DEF TypeOK, cloudVars, apiVars, ctlVars
<1>1. CASE PollJob
  <2>1. local.job \in DOMAIN jobs
    BY <1>1 DEF PollJob, ControllerTypeOK, CloudTypeOK, ObjectType
  <2>2. \A st : Polled(st) \in ObjectType
    <3>1. local \in ObjectType
      BY DEF ControllerTypeOK
    <3>2. /\ {"true", "false"} \subseteq Status
          /\ {"completed", "failed", "queued", "importing"} \subseteq ImageStates
      BY DEF Status, ImageStates
    <3>. QED BY <3>1, <3>2, ObjectUpdates DEF Polled
  <2>3. Polled(jobs[local.job].state).job = local.job
    <3>1. local \in ObjectType
      BY DEF ControllerTypeOK
    <3>. QED BY <3>1 DEF Polled, ObjectType
  <2>. QED
    BY <1>1, <2>2, <2>3, FaultArithmetic
    DEF PollJob, CloudTypeOK, ApiTypeOK, ControllerTypeOK
<1>2. CASE ImportImage
  <2>1. cur \in Images
    BY <1>2 DEF ImportImage, ControllerTypeOK
  <2>. DEFINE job == [image |-> cur, state |-> "queued"]
  <2>2. job \in JobType
    BY <2>1 DEF JobType
  <2>3. /\ Append(jobs, job) \in Seq(JobType)
        /\ Len(Append(jobs, job)) = Len(jobs) + 1
        /\ Len(jobs) \in Nat
    BY <2>2 DEF CloudTypeOK
  <2>4. \/ UNCHANGED <<jobs, local>>
        \/ /\ Len(jobs) < MaxJobs /\ jobs' = Append(jobs, job)
           /\ local' = [local EXCEPT !.job = Len(jobs) + 1] \/ UNCHANGED local
    BY <1>2 DEF ImportImage
  <2>5. jobs' \in Seq(JobType) /\ Len(jobs') >= Len(jobs) /\ Len(jobs') <= MaxJobs
    BY <2>3, <2>4, BoundAssumption DEF CloudTypeOK
  <2>6. Len(jobs) < MaxJobs =>
           /\ [local EXCEPT !.job = Len(jobs) + 1] \in ObjectType
           /\ [local EXCEPT !.job = Len(jobs) + 1].job = Len(jobs) + 1
    BY <2>3, BoundAssumption DEF ControllerTypeOK, ObjectType
  <2>7. local' \in ObjectType /\ local'.job <= Len(jobs')
    BY <2>3, <2>4, <2>6 DEF ControllerTypeOK, ObjectType
  <2>. QED
    BY <1>2, <2>1, <2>3, <2>5, <2>7, FaultArithmetic, BoundAssumption
    DEF ImportImage, CallFails, CloudTypeOK, ApiTypeOK, ControllerTypeOK, ObjectType
<1>3. CASE ReconcileImage
  <2>1. local \in ObjectType /\ cur \in Images
    BY <1>3 DEF ReconcileImage, ControllerTypeOK
  <2>2. boot[cur] # "absent" => boot[cur] \in ImageStates
    BY <2>1 DEF CloudTypeOK, ImageStates
  <2>3. /\ \A v \in Status : boot[cur] # "absent" =>
               [local EXCEPT !.id = TRUE, !.state = boot[cur], !.ready = v] \in ObjectType
        /\ {"true", "false", "unknown"} \subseteq Status
    BY <2>1, <2>2, ObjectUpdates DEF Status
  <2>4. local' \in ObjectType
    BY <1>3, <2>1, <2>3 DEF ReconcileImage
  <2>5. local'.job = local.job
    BY <1>3, <2>1 DEF ReconcileImage, ObjectType
  <2>. QED
    BY <1>3, <2>4, <2>5, FaultArithmetic
    DEF ReconcileImage, CloudTypeOK, ApiTypeOK, ControllerTypeOK
<1>4. CASE DeleteImportJob
  <2>1. local.job \in DOMAIN jobs
    BY <1>4 DEF DeleteImportJob, ControllerTypeOK, CloudTypeOK, ObjectType
  <2>2. /\ [jobs EXCEPT ![local.job].state = "deleted"] \in Seq(JobType)
        /\ Len([jobs EXCEPT ![local.job].state = "deleted"]) = Len(jobs)
    BY <2>1, JobUpdate
  <2>3. CloudTypeOK' /\ Len(jobs') = Len(jobs)
    BY <1>4, <2>2 DEF DeleteImportJob, CloudTypeOK
  <2>4. local' \in ObjectType /\ local'.job = local.job
    BY <1>4 DEF DeleteImportJob, Finalized, ControllerTypeOK, ObjectType
  <2>. QED
    BY <1>4, <2>3, <2>4, FaultArithmetic
    DEF DeleteImportJob, ApiTypeOK, ControllerTypeOK
<1>5. CASE DeleteImage
  BY <1>5, FaultArithmetic
  DEF DeleteImage, Finalized, CloudTypeOK, ApiTypeOK, ControllerTypeOK, ObjectType
<1>6. CASE Patch
  <2>1. cur \in Images /\ stored[cur] \in ObjectType /\ local \in ObjectType
    BY <1>6 DEF Patch, ApiTypeOK, ControllerTypeOK
  <2>2. Summary(local) \in ObjectType /\ Summary(local).job = local.job
    BY <2>1 DEF Summary, ObjectType, Status
  <2>3. \A parts : /\ Patched(stored[cur], parts) \in ObjectType
                   /\ Patched(stored[cur], parts).job \in {local.job, stored[cur].job}
    BY <2>1, <2>2 DEF Patched, ObjectType
  <2>4. ApiTypeOK'
    BY <1>6, <2>1, <2>3 DEF Patch, ApiTypeOK, ControllerTypeOK
  <2>. QED
    BY <1>6, <2>4, FaultArithmetic, NewObjectType, BoundAssumption
    DEF Patch, ForgetAll, NewObject, CloudTypeOK, ControllerTypeOK
<1>. QED BY <1>1, <1>2, <1>3, <1>4, <1>5, <1>6

\* Every object written back is well formed and every JobID it holds, or a
\* reconcile works with, is the ID of a job: PollJob never follows a wrong one.
THEOREM TypeCorrect == Spec => []TypeOK
<1>1. Init => TypeOK
  <2>. SUFFICES ASSUME Init PROVE TypeOK
    OBVIOUS
  <2>1. \A i \in Images : /\ [NewObject EXCEPT !.label = (i \in Labelled)] \in ObjectType
                         /\ [NewObject EXCEPT !.label = (i \in Labelled)].job = 0
    <3>1. \A b \in BOOLEAN : /\ [NewObject EXCEPT !.label = b] \in ObjectType
                            /\ [NewObject EXCEPT !.label = b].job = 0
      BY NewObjectType DEF ObjectType, NewObject
    <3>2. \A i : (i \in Labelled) \in BOOLEAN
      OBVIOUS
    <3>. QED BY <3>1, <3>2
  <2>2. stored \in [Images -> ObjectType] /\ \A i \in Images : stored[i].job = 0
    BY <2>1 DEF Init
  <2>3. CloudTypeOK /\ Len(jobs) = 0
    BY BoundAssumption DEF Init, CloudTypeOK
  <2>4. ControllerTypeOK
    BY <2>3, NewObjectType DEF Init, ControllerTypeOK, NewObject
  <2>. QED BY <2>2, <2>3, <2>4, BoundAssumption DEF Init, TypeOK, ApiTypeOK
<1>2. TypeOK /\ [Next]_vars => TypeOK'
  <2>. SUFFICES ASSUME TypeOK, [Next]_vars PROVE TypeOK'
    OBVIOUS
  <2>1. CASE UNCHANGED vars
    BY <2>1 DEF vars, cloudVars, apiVars, ctlVars, TypeOK, CloudTypeOK, ApiTypeOK, ControllerTypeOK
  <2>2. CASE Next
    BY <2>2, EnvironmentType, ControlType, ActionType DEF Next, Steps
  <2>. QED BY <2>1, <2>2
<1>. QED BY <1>1, <1>2, PTL DEF Spec

----------------------------------------------------------------------------
(* One import at a time.                                                   *)

\* Only the last job may be unfinished, and none is when the next is created.
ImportInv ==
    /\ \A j \in DOMAIN jobs : Unfinished(j) => j = Len(jobs)
    /\ pc = "import" => \A j \in DOMAIN jobs : ~Unfinished(j)

\* A step that starts no job and lets none go back to work keeps the invariant.
LEMMA JobsFinish ==
    ASSUME ImportInv, CloudTypeOK, DOMAIN jobs' = DOMAIN jobs, Len(jobs') = Len(jobs),
           \A j \in DOMAIN jobs : Unfinished(j)' => Unfinished(j),
           pc' = "import" => pc = "import"
    PROVE ImportInv'
BY DEF ImportInv

\* Every step keeps the invariant, if jobs come with their status.
LEMMA ImportStep ==
    ASSUME "nil" \notin FaultKinds, TypeOK, ImportInv, [Next]_vars
    PROVE ImportInv'
<1>. USE DEF cloudVars, apiVars, ctlVars
<1>1. ASSUME UNCHANGED jobs, pc' # "import" PROVE ImportInv'
  BY <1>1 DEF ImportInv, Unfinished
<1>2. ASSUME UNCHANGED <<jobs, pc>> PROVE ImportInv'
  BY <1>2 DEF ImportInv, Unfinished
<1>3. ASSUME NEW j \in DOMAIN jobs,
             NEW st, jobs' = [jobs EXCEPT ![j].state = st],
             st \in {"queued", "running"} => Unfinished(j),
             pc' = "import" => pc = "import"
      PROVE ImportInv'
  <2>1. DOMAIN jobs' = DOMAIN jobs /\ Len(jobs') = Len(jobs)
    BY <1>3 DEF TypeOK, CloudTypeOK
  <2>2. \A k \in DOMAIN jobs : jobs'[k].state = IF k = j THEN st ELSE jobs[k].state
    BY <1>3 DEF TypeOK, CloudTypeOK, JobType
  <2>. QED BY <1>3, <2>1, <2>2, JobsFinish DEF Unfinished, TypeOK
<1>4. ASSUME NEW j \in DOMAIN jobs, JobStarts(j) \/ JobCompletes(j) \/ JobFails(j)
      PROVE ImportInv'
  BY <1>3, <1>4 DEF JobStarts, JobCompletes, JobFails, Unfinished
<1>5. CASE CloudProgress
  BY <1>2, <1>4, <1>5 DEF CloudProgress, WorkspaceProgress, BootImageReady
<1>6. CASE ClusterDeletesWorkspace
  <2>1. \A k \in DOMAIN jobs : jobs'[k].state = "deleted"
    <3>1. ASSUME NEW k \in DOMAIN jobs PROVE jobs'[k].state = "deleted"
      <4>1. jobs[k] \in JobType /\ jobs'[k] = [jobs[k] EXCEPT !.state = "deleted"]
        BY <1>6 DEF ClusterDeletesWorkspace, TypeOK, CloudTypeOK
      <4>. QED BY <4>1 DEF JobType
    <3>. QED BY <3>1
  <2>2. DOMAIN jobs' = DOMAIN jobs
    BY <1>6 DEF ClusterDeletesWorkspace
  <2>. QED BY <2>1, <2>2 DEF ImportInv, Unfinished
<1>7. CASE ImportImage
  <2>1. jobs' = jobs \/ jobs' = Append(jobs, [image |-> cur, state |-> "queued"])
    BY <1>7 DEF ImportImage
  <2>2. CASE jobs' = Append(jobs, [image |-> cur, state |-> "queued"])
    <3>1. Len(jobs) \in Nat /\ Len(jobs') = Len(jobs) + 1 /\ DOMAIN jobs' = 1..(Len(jobs) + 1)
      BY <2>2 DEF TypeOK, CloudTypeOK
    <3>2. \A k \in 1..Len(jobs) : jobs'[k] = jobs[k]
      BY <2>2 DEF TypeOK, CloudTypeOK
    <3>3. DOMAIN jobs = 1..Len(jobs)
      BY DEF TypeOK, CloudTypeOK
    <3>. QED BY <1>7, <3>1, <3>2, <3>3 DEF ImportInv, Unfinished, ImportImage
  <2>. QED BY <1>1, <1>7, <2>1, <2>2 DEF ImportImage
<1>8. CASE CheckLastJob
  <2>1. UNCHANGED jobs
    BY <1>8 DEF CheckLastJob
  <2>2. pc' = "import" => ~(jobs # <<>> /\ Unfinished(Len(jobs)))
    BY <1>8 DEF CheckLastJob, Fault, CallFails, CallSucceeds
  <2>3. \A j \in DOMAIN jobs : jobs # <<>>
    BY DEF TypeOK, CloudTypeOK
  <2>. QED BY <2>1, <2>2, <2>3 DEF ImportInv, Unfinished
<1>9. CASE DeleteImportJob
  <2>1. local.job \in DOMAIN jobs
    BY <1>9 DEF DeleteImportJob, TypeOK, ControllerTypeOK, CloudTypeOK, ObjectType
  <2>. QED BY <1>1, <1>3, <1>9, <2>1 DEF DeleteImportJob
<1>10. CASE ScopeFails \/ Adopt \/ PollJob \/ ListImages \/ ReconcileImage
            \/ StartDelete \/ SkipDelete \/ DeleteImage \/ Patch \/ Crash
  BY <1>1, <1>10
  DEF ScopeFails, Adopt, PollJob, ListImages, ReconcileImage, StartDelete, SkipDelete,
      DeleteImage, Patch, Crash, ForgetAll
<1>11. CASE ClusterDeletesImages \/ DeleteClusterObject \/ UNCHANGED vars
  BY <1>2, <1>11 DEF ClusterDeletesImages, DeleteClusterObject, vars
<1>12. ASSUME NEW i \in Images,
              \/ DeleteImageObject(i) \/ ReconcileReturns(i)
              \/ EnsureFinalizer(i) \/ StartReconcile(i)
       PROVE ImportInv'
  BY <1>1, <1>2, <1>12
  DEF DeleteImageObject, ReconcileReturns, EnsureFinalizer, StartReconcile, vars
<1>. QED BY <1>5, <1>6, <1>7, <1>8, <1>9, <1>10, <1>11, <1>12 DEF Next, Cluster, Steps

\* Whatever the number of images, crashes and lost answers, imports into the
\* workspace never overlap, as long as GetCosImages answers with a status.
THEOREM ImportsAreSerial ==
    ASSUME "nil" \notin FaultKinds
    PROVE Spec => []OneImportAtATime
<1>1. Init => ImportInv
  BY DEF Init, ImportInv
<1>2. TypeOK /\ ImportInv /\ [Next]_vars => ImportInv'
  BY ImportStep
<1>3. ImportInv => OneImportAtATime
  BY DEF ImportInv, OneImportAtATime
<1>. QED BY <1>1, <1>2, <1>3, TypeCorrect, PTL DEF Spec

----------------------------------------------------------------------------
(* Images are known to their cluster before they are imported.             *)

\* The object records something of an import.
Imported(o) == o.job # 0 \/ o.id \/ o.state # "none"

\* What was imported is labelled, in the store, and the copy of a reconcile
\* never loses the label; a reconcile keeps its object from going away.
AdoptInv ==
    /\ \A i \in Images : stored[i].owner \/ Imported(stored[i]) => stored[i].label
    /\ pc # "idle" =>
          /\ stored[cur].finalizer /\ phase[cur] # "gone"
          /\ stored[cur].label => local.label
          /\ local.owner => local.label
          /\ Imported(local) => stored[cur].label
          /\ pc = "scope" => local.owner = stored[cur].owner
          /\ pc \in {"poll", "list", "last", "import", "get"} => stored[cur].label
          /\ pc \in {"delScope", "delete"} \/ ~local.finalizer => phase[cur] = "deleting"

\* ActiveIsReal, of the stored objects and of the copy to be stored.
ActiveInv ==
    /\ ActiveIsReal
    /\ pc # "idle" /\ phase[cur] = "live" /\ local.state = "active" => boot[cur] = "active"

\* The steps of the cloud, of users and of the cluster, and those that begin
\* a reconcile, keep the invariant.
LEMMA AdoptOutside ==
    ASSUME TypeOK, AdoptInv,
           \/ CloudProgress \/ Cluster \/ DeleteClusterObject \/ Crash \/ UNCHANGED vars
           \/ \E i \in Images : \/ DeleteImageObject(i) \/ ReconcileReturns(i)
                               \/ EnsureFinalizer(i) \/ StartReconcile(i)
    PROVE AdoptInv'
<1>. USE DEF cloudVars, apiVars, ctlVars
<1>1. ASSUME UNCHANGED <<apiVars, ctlVars>> PROVE AdoptInv'
  BY <1>1 DEF AdoptInv, Imported
<1>2. ASSUME UNCHANGED <<stored, ctlVars>>, phase' \in [Images -> {"live", "deleting", "gone"}],
             \A i \in Images : phase'[i] # phase[i] => phase[i] = "live" /\ phase'[i] = Doomed(i)
      PROVE AdoptInv'
  BY <1>2 DEF AdoptInv, Imported, Doomed, TypeOK, ControllerTypeOK
<1>3. CASE CloudProgress
  BY <1>1, <1>3
  DEF CloudProgress, WorkspaceProgress, JobStarts, JobCompletes, JobFails, BootImageReady
<1>4. CASE ClusterDeletesImages
  BY <1>2, <1>4 DEF ClusterDeletesImages, TypeOK, ApiTypeOK, Doomed
<1>5. CASE ClusterDeletesWorkspace \/ DeleteClusterObject
  BY <1>2, <1>5 DEF ClusterDeletesWorkspace, DeleteClusterObject, TypeOK, ApiTypeOK
<1>6. CASE Crash
  BY <1>6 DEF Crash, ForgetAll, AdoptInv, Imported
<1>7. CASE UNCHANGED vars
  BY <1>1, <1>7 DEF vars
<1>8. ASSUME NEW i \in Images, DeleteImageObject(i) PROVE AdoptInv'
  BY <1>2, <1>8 DEF DeleteImageObject, TypeOK, ApiTypeOK, Doomed
<1>9. ASSUME NEW i \in Images, ReconcileReturns(i) PROVE AdoptInv'
  BY <1>1, <1>9 DEF ReconcileReturns, vars
<1>10. ASSUME NEW i \in Images, EnsureFinalizer(i) PROVE AdoptInv'
  BY <1>10 DEF EnsureFinalizer, AdoptInv, Imported, TypeOK, ApiTypeOK, ObjectType
<1>11. ASSUME NEW i \in Images, StartReconcile(i) PROVE AdoptInv'
  BY <1>11 DEF StartReconcile, AdoptInv, Imported, TypeOK, ApiTypeOK
<1>. QED BY <1>3, <1>4, <1>5, <1>6, <1>7, <1>8, <1>9, <1>10, <1>11 DEF Cluster

\* The steps of a reconcile before its patch keep the invariant.
LEMMA AdoptInside ==
    ASSUME TypeOK, AdoptInv,
           \/ ScopeFails \/ Adopt
           \/ PollJob \/ ListImages \/ CheckLastJob \/ ImportImage \/ ReconcileImage
           \/ StartDelete \/ SkipDelete \/ DeleteImportJob \/ DeleteImage
    PROVE AdoptInv'
<1>. USE DEF cloudVars, apiVars, ctlVars
<1>0. local \in ObjectType
  BY DEF TypeOK, ControllerTypeOK
<1>1. ASSUME UNCHANGED <<apiVars, cur, local>>, pc # "idle", pc' # "idle",
             pc' \notin {"scope", "delScope", "delete"},
             pc' = "patch" \/ pc \in {"poll", "list", "last", "import", "get"}
      PROVE AdoptInv'
  BY <1>1 DEF AdoptInv, Imported
<1>2. CASE ScopeFails
  BY <1>0, <1>2 DEF ScopeFails, AdoptInv, Imported, ObjectType
<1>3. CASE Adopt
  <2>1. cur \in Images /\ stored[cur] \in ObjectType /\ local.owner = stored[cur].owner
    BY <1>3 DEF Adopt, AdoptInv, TypeOK, ControllerTypeOK, ApiTypeOK
  <2>2. CASE ~local.owner
    BY <1>0, <1>3, <2>2 DEF Adopt, AdoptInv, Imported, ObjectType
  <2>3. CASE local.owner
    <3>1. stored[cur].label
      BY <2>1, <2>3 DEF AdoptInv
    <3>2. local' = [local EXCEPT !.label = TRUE, !.workspaceReady = "true"]
      BY <1>3, <2>3 DEF Adopt
    <3>3. pc # "idle" /\ pc' \in {"poll", "list"} /\ UNCHANGED <<apiVars, cur>>
      BY <1>3, <2>3 DEF Adopt
    <3>. QED BY <1>0, <1>3, <3>1, <3>2, <3>3 DEF AdoptInv, Imported, ObjectType, Adopt
  <2>. QED BY <2>2, <2>3
<1>4. CASE PollJob
  BY <1>0, <1>4 DEF PollJob, Polled, AdoptInv, Imported, ObjectType
<1>5. CASE ListImages \/ CheckLastJob
  BY <1>1, <1>5 DEF ListImages, CheckLastJob
<1>6. CASE ImportImage
  BY <1>0, <1>6 DEF ImportImage, AdoptInv, Imported, ObjectType
<1>7. CASE ReconcileImage
  BY <1>0, <1>7 DEF ReconcileImage, AdoptInv, Imported, ObjectType
<1>8. CASE StartDelete
  BY <1>0, <1>8 DEF StartDelete, AdoptInv, Imported, ObjectType
<1>9. CASE SkipDelete \/ DeleteImportJob \/ DeleteImage
  <2>1. /\ local' = local \/ local' = [local EXCEPT !.finalizer = FALSE]
        /\ pc = "delete" /\ pc' = "patch" /\ UNCHANGED <<apiVars, cur>>
    BY <1>9 DEF SkipDelete, DeleteImportJob, DeleteImage, Finalized
  <2>. QED BY <1>0, <2>1 DEF AdoptInv, Imported, ObjectType
<1>. QED BY <1>2, <1>3, <1>4, <1>5, <1>6, <1>7, <1>8, <1>9

\* What the patch leaves in each field, whichever of its requests fail.
LEMMA PatchFields ==
    ASSUME TypeOK, Patch
    PROVE /\ cur \in Images /\ pc' = "idle" /\ UNCHANGED <<cloudVars, cluster>>
          /\ \A i \in Images : i # cur => stored'[i] = stored[i] /\ phase'[i] = phase[i]
          /\ \/ /\ stored'[cur].label = local.label /\ stored'[cur].owner = local.owner
                /\ stored'[cur].finalizer = local.finalizer
             \/ /\ stored'[cur].label = stored[cur].label /\ stored'[cur].owner = stored[cur].owner
                /\ stored'[cur].finalizer = stored[cur].finalizer
          /\ \/ /\ stored'[cur].job = local.job /\ stored'[cur].id = local.id
                /\ stored'[cur].state = local.state
             \/ /\ stored'[cur].job = stored[cur].job /\ stored'[cur].id = stored[cur].id
                /\ stored'[cur].state = stored[cur].state
          /\ phase'[cur] \in {phase[cur], "gone"}
<1>1. cur \in Images /\ stored[cur] \in ObjectType /\ local \in ObjectType
  BY DEF Patch, TypeOK, ApiTypeOK, ControllerTypeOK
<1>2. PICK parts \in SUBSET PatchParts : stored' = [stored EXCEPT ![cur] = Patched(@, parts)]
  BY DEF Patch
<1>3. stored'[cur] = Patched(stored[cur], parts) /\ \A i \in Images : i # cur => stored'[i] = stored[i]
  BY <1>1, <1>2 DEF TypeOK, ApiTypeOK
<1>4. /\ Summary(local).label = local.label /\ Summary(local).owner = local.owner
      /\ Summary(local).finalizer = local.finalizer /\ Summary(local).job = local.job
      /\ Summary(local).id = local.id /\ Summary(local).state = local.state
  BY <1>1 DEF Summary, ObjectType
<1>5. /\ phase'[cur] \in {phase[cur], "gone"}
      /\ \A i \in Images : i # cur => phase'[i] = phase[i]
  BY <1>1 DEF Patch, TypeOK, ApiTypeOK
<1>6. \/ /\ stored'[cur].label = local.label /\ stored'[cur].owner = local.owner
         /\ stored'[cur].finalizer = local.finalizer
      \/ /\ stored'[cur].label = stored[cur].label /\ stored'[cur].owner = stored[cur].owner
         /\ stored'[cur].finalizer = stored[cur].finalizer
  BY <1>3, <1>4 DEF Patched
<1>7. \/ /\ stored'[cur].job = local.job /\ stored'[cur].id = local.id
         /\ stored'[cur].state = local.state
      \/ /\ stored'[cur].job = stored[cur].job /\ stored'[cur].id = stored[cur].id
         /\ stored'[cur].state = stored[cur].state
  BY <1>3, <1>4 DEF Patched
<1>. QED BY <1>1, <1>3, <1>5, <1>6, <1>7 DEF Patch, ForgetAll

\* Every step keeps the invariant.
LEMMA AdoptStep ==
    ASSUME TypeOK, AdoptInv, [Next]_vars
    PROVE AdoptInv'
<1>1. CASE Patch
  <2>1. pc # "idle"
    BY <1>1 DEF Patch
  <2>. QED BY <1>1, <2>1, PatchFields DEF AdoptInv, Imported
<1>. QED BY <1>1, AdoptOutside, AdoptInside DEF Next, Steps

\* The initial objects record no import and have no owner.
LEMMA AdoptInit == ASSUME Init PROVE AdoptInv
<1>1. ASSUME NEW i \in Images PROVE ~stored[i].owner /\ ~Imported(stored[i])
  BY DEF Init, Imported, NewObject
<1>. QED BY <1>1 DEF Init, AdoptInv

\* The cluster never takes the workspace from an image with an import in it:
\* an image is labelled, persistently, before its import begins.
THEOREM ImportsAreNotStranded == Spec => NoStrandedImport
<1>. DEFINE A == \A i \in Images :
         workspace # "absent" /\ workspace' = "absent" /\ phase[i] # "gone"
         => stored[i].job = 0 /\ ~stored[i].id
<1>1. TypeOK /\ AdoptInv /\ [Next]_vars => AdoptInv'
  BY AdoptStep
<1>2. TypeOK /\ AdoptInv /\ [Next]_vars => [A]_vars
  <2>. SUFFICES ASSUME TypeOK, AdoptInv, Next PROVE A
    BY DEF vars
  <2>1. ASSUME workspace # "absent", workspace' = "absent" PROVE ClusterDeletesWorkspace
    BY <2>1
    DEF Next, Steps, Cluster, CloudProgress, WorkspaceProgress, JobStarts, JobCompletes, JobFails,
        BootImageReady, ClusterDeletesImages, DeleteClusterObject, DeleteImageObject,
        ReconcileReturns, EnsureFinalizer, StartReconcile, ScopeFails, Adopt, PollJob, ListImages,
        CheckLastJob, ImportImage, ReconcileImage, StartDelete, SkipDelete, DeleteImportJob,
        DeleteImage, Patch, Crash, vars, cloudVars
  <2>. QED BY <2>1 DEF ClusterDeletesWorkspace, Descendants, AdoptInv, Imported
<1>3. Init => AdoptInv
  BY AdoptInit
<1>4. TypeOK /\ AdoptInv /\ [Next]_vars => [\A i \in Images :
         workspace # "absent" /\ workspace' = "absent" /\ phase[i] # "gone"
         => stored[i].job = 0 /\ ~stored[i].id]_vars
  BY <1>2
<1>. HIDE DEF A
<1>. QED BY <1>1, <1>3, <1>4, TypeCorrect, PTL DEF Spec, NoStrandedImport

\* Every step keeps the invariant behind ActiveIsReal.
LEMMA ActiveStep ==
    ASSUME TypeOK, AdoptInv, ActiveInv, [Next]_vars
    PROVE ActiveInv'
<1>. USE DEF cloudVars, apiVars, ctlVars
<1>0. local \in ObjectType /\ (pc # "idle" => cur \in Images)
  BY DEF TypeOK, ControllerTypeOK
<1>1. ASSUME UNCHANGED <<boot, stored, phase, cur, local, pc>> PROVE ActiveInv'
  BY <1>1 DEF ActiveInv, ActiveIsReal
<1>2. ASSUME UNCHANGED <<boot, stored, phase, cur>>, pc # "idle",
             local'.state = "active" => local.state = "active" \/ boot[cur] = "active"
      PROVE ActiveInv'
  BY <1>2 DEF ActiveInv, ActiveIsReal
<1>3. ASSUME UNCHANGED <<stored, phase, cur, local, pc>>,
             \A i \in Images : boot[i] = "active" => boot'[i] = "active"
      PROVE ActiveInv'
  BY <1>0, <1>3 DEF ActiveInv, ActiveIsReal
<1>4. ASSUME UNCHANGED <<boot, stored, cur, local, pc>>,
             \A i \in Images : phase'[i] = "live" => phase[i] = "live"
      PROVE ActiveInv'
  BY <1>0, <1>4 DEF ActiveInv, ActiveIsReal
<1>5. ASSUME NEW j \in DOMAIN jobs, JobCompletes(j) PROVE ActiveInv'
  <2>1. \A i \in Images : boot[i] = "active" => boot'[i] = "active"
    BY <1>5 DEF JobCompletes, TypeOK, CloudTypeOK
  <2>. QED BY <1>3, <1>5, <2>1 DEF JobCompletes
<1>6. ASSUME NEW i \in Images, BootImageReady(i) PROVE ActiveInv'
  <2>1. \A k \in Images : boot[k] = "active" => boot'[k] = "active"
    BY <1>6 DEF BootImageReady, TypeOK, CloudTypeOK
  <2>. QED BY <1>3, <1>6, <2>1 DEF BootImageReady
<1>7. CASE CloudProgress
  BY <1>1, <1>5, <1>6, <1>7 DEF CloudProgress, WorkspaceProgress, JobStarts, JobFails
<1>8. CASE ClusterDeletesImages
  <2>1. \A i \in Images : phase'[i] = "live" => phase[i] = "live"
    BY <1>8 DEF ClusterDeletesImages, Doomed
  <2>. QED BY <1>4, <1>8, <2>1 DEF ClusterDeletesImages
<1>9. CASE ClusterDeletesWorkspace
  <2>1. \A i \in Images : phase[i] # "gone" => ~stored[i].label
    BY <1>9 DEF ClusterDeletesWorkspace, Descendants
  <2>2. \A i \in Images : phase[i] = "live" => stored[i].state # "active"
    BY <2>1 DEF AdoptInv, Imported
  <2>3. pc # "idle" => local.state # "active"
    BY <1>0, <2>1 DEF AdoptInv, Imported
  <2>. QED BY <1>9, <2>2, <2>3 DEF ClusterDeletesWorkspace, ActiveInv, ActiveIsReal
<1>10. CASE DeleteClusterObject \/ UNCHANGED vars
  BY <1>1, <1>10 DEF DeleteClusterObject, vars
<1>11. ASSUME NEW i \in Images, DeleteImageObject(i) PROVE ActiveInv'
  <2>1. \A k \in Images : phase'[k] = "live" => phase[k] = "live"
    BY <1>11 DEF DeleteImageObject, Doomed, TypeOK, ApiTypeOK
  <2>. QED BY <1>4, <1>11, <2>1 DEF DeleteImageObject
<1>12. ASSUME NEW i \in Images, ReconcileReturns(i) PROVE ActiveInv'
  BY <1>1, <1>12 DEF ReconcileReturns, vars
<1>13. ASSUME NEW i \in Images, EnsureFinalizer(i) PROVE ActiveInv'
  <2>1. \A k \in Images : stored'[k].state = stored[k].state
    BY <1>13 DEF EnsureFinalizer, TypeOK, ApiTypeOK, ObjectType
  <2>. QED BY <1>13, <2>1 DEF EnsureFinalizer, ActiveInv, ActiveIsReal
<1>14. ASSUME NEW i \in Images, StartReconcile(i) PROVE ActiveInv'
  BY <1>14 DEF StartReconcile, ActiveInv, ActiveIsReal
<1>15. CASE ScopeFails \/ Adopt \/ ListImages \/ CheckLastJob \/ ImportImage
            \/ StartDelete \/ SkipDelete \/ DeleteImportJob
  <2>1. local'.state = local.state
    BY <1>0, <1>15
    DEF ScopeFails, Adopt, ListImages, CheckLastJob, ImportImage, StartDelete, SkipDelete,
        DeleteImportJob, Finalized, ObjectType
  <2>2. UNCHANGED <<boot, stored, phase, cur>> /\ pc # "idle"
    BY <1>15
    DEF ScopeFails, Adopt, ListImages, CheckLastJob, ImportImage, StartDelete, SkipDelete,
        DeleteImportJob
  <2>. QED BY <1>2, <2>1, <2>2
<1>16. CASE PollJob
  <2>1. local' = local \/ local'.state # "active"
    BY <1>0, <1>16 DEF PollJob, Polled, ObjectType
  <2>. QED BY <1>2, <1>16, <2>1 DEF PollJob
<1>17. CASE ReconcileImage
  <2>1. local' = local \/ local'.state = boot[cur]
    BY <1>0, <1>17 DEF ReconcileImage, ObjectType
  <2>. QED BY <1>2, <1>17, <2>1 DEF ReconcileImage
<1>18. CASE DeleteImage
  <2>1. phase[cur] = "deleting" /\ cur \in Images
    BY <1>0, <1>18 DEF DeleteImage, AdoptInv
  <2>2. \A i \in Images : i # cur => boot'[i] = boot[i]
    BY <1>18 DEF DeleteImage, TypeOK, CloudTypeOK
  <2>. QED BY <1>18, <2>1, <2>2 DEF DeleteImage, ActiveInv, ActiveIsReal
<1>19. CASE Patch
  <2>1. pc # "idle"
    BY <1>19 DEF Patch
  <2>. QED BY <1>19, <2>1, PatchFields DEF ActiveInv, ActiveIsReal
<1>20. CASE Crash
  BY <1>20 DEF Crash, ForgetAll, ActiveInv, ActiveIsReal
<1>. QED
  BY <1>7, <1>8, <1>9, <1>10, <1>11, <1>12, <1>13, <1>14, <1>15, <1>16, <1>17, <1>18, <1>19,
     <1>20
  DEF Next, Cluster, Steps

\* Machines created from an image whose object says ACTIVE find an active image
\* in the workspace, whatever failed, crashed or was deleted meanwhile.
THEOREM ActiveImagesAreReal == Spec => []ActiveIsReal
<1>1. Init => AdoptInv /\ ActiveInv
  <2>. SUFFICES ASSUME Init PROVE ActiveInv
    BY AdoptInit
  <2>1. \A i \in Images : stored[i].state = "none"
    BY DEF Init, NewObject
  <2>. QED BY <2>1 DEF Init, ActiveInv, ActiveIsReal
<1>2. TypeOK /\ AdoptInv /\ ActiveInv /\ [Next]_vars => AdoptInv' /\ ActiveInv'
  BY AdoptStep, ActiveStep
<1>3. ActiveInv => ActiveIsReal
  BY DEF ActiveInv
<1>. QED BY <1>1, <1>2, <1>3, TypeCorrect, PTL DEF Spec
=============================================================================
