# Formal model of the IBM Cloud provider for Cluster API

This directory holds TLA+ modules that model the controllers of this repository,
TLC configurations that check them on small instances, and TLAPS proofs of the
properties that matter most for every instance. `PROJECT.json` lists the runs,
the mutants, the source lines each definition stands for, the hazards the
properties are aimed at, and the theorems.

    tlc -workers 2 -config cluster_faults.cfg MCPowerVSCluster
    tlapm PowerVSClusterProofs.tla

## 1. The system

The repository is a set of Kubernetes controllers. Each one watches one kind of
object, and a *reconcile* of an object reads it, makes calls to IBM Cloud until
the cloud matches the spec or something is not ready, and writes the object back
in a deferred patch. All that survives a reconcile is the object and the cloud:
a crash, or a failed patch, loses the rest.

| component | state it keeps | operations | hard behaviour |
|---|---|---|---|
| PowerVS cluster (`ibmpowervscluster_controller.go`, `powervs_cluster.go`) | IDs of workspace, network, VPC, subnets, security groups, load balancers, gateway and its connections, COS; conditions; `Provisioned`; endpoint; finalizer | 10 `Reconcile*` and 8 `Delete*` methods, two of the former groups in parallel goroutines | resources recovered by name; half-failed creates; conditions read from an earlier reconcile; order of deletion; partial patches |
| PowerVS image (`ibmpowervsimage_controller.go`, `powervs_image.go`) | JobID, ImageID, ImageState, label, owner | adopt, poll, import, delete | one last job per workspace; check-then-act on the cloud; deletion ordered with the cluster's |
| PowerVS machine (`ibmpowervsmachine_controller.go`, `powervs_machine.go`) | InstanceID, addresses, state, a cache of DHCP addresses | create, follow the state, find the address, join the load balancer pools, delete | creation that answers late; a cache that outlives the machine; one pool member per reconcile |
| VPC cluster, first generation (`ibmvpccluster_controller.go`, `cluster.go`) | IDs of VPC, subnet and load balancer, load balancer state, endpoint, `Ready`, finalizer | create and delete VPC, subnet with public gateway, load balancer | asynchronous deletion of the load balancer; early removal of the finalizer; hostname and ID patched separately |
| VPC cluster, second generation (`Spec.Network`; `cluster_v2.go`) | ID and readiness of VPC, image, subnets, security groups, load balancers; endpoint; `Ready` | five stages, each of which looks up, creates, records and tags; rules of security groups; deletion only removes the finalizer | resources without a name; a tag that is tried once; load balancers created from what the status says; rules without identity |
| VPC machine (`ibmvpcmachine_controller.go`, `machine.go`) | instance ID, provider ID, pool members, volume IDs | create, tag, join pools, create and attach volumes, delete | an object read again in the middle of a reconcile; busy load balancers; deletion of what is gone |
| conversion (`api/powervs/v1beta2/conversion.go`) | an annotation with what the other version cannot say | `ConvertTo` and `ConvertFrom` of five objects | source types inferred anew by every write of a v1beta2 client |
| paging (`pagingutils/paging.go`) | the start token and what was found | every lookup by name or ID | the collection changes between two pages |
| templates, webhooks, service clients, `capibmadm`, manager | none, or data | validation, I/O | none that a protocol model would show |

The components meet in the objects: a machine is created once the cluster is
`Provisioned` and its image is `ACTIVE`; the cluster is deleted only after its
images; images need the workspace the cluster owns. On VPC a machine waits for
`Status.Ready` of its cluster and lives in its subnet, and the cluster's deletion
waits for its instances. Conversion stands between all clients and the objects,
and paging under every lookup by name.

What makes the whole correct: nothing is created twice or forgotten; what the
user only refers to is never deleted; conditions and `Provisioned` are true when
they are written; deletion happens in an order IBM Cloud accepts; wanted clusters
get provisioned and deleted ones go away, after any single failure.

## 2. Modules

| module | what it models |
|---|---|
| `PowerVSClusterState` | constants and their assumptions, the object, the cloud, faults, and every step the controller does not take |
| `PowerVSClusterReconcile` | `reconcile`: the two goroutines, the gateway, COS and HMAC steps, and the endpoint |
| `PowerVSClusterDelete` | `reconcileDelete` and the delete methods |
| `PowerVSCluster` | `Reconcile` around both, the deferred patch, crashes, fairness, the properties |
| `ClusterContract` | what the object promises, in four variables: stage, owned resources, provisioned, endpoint |
| `MCPowerVSCluster` | instances |
| `PowerVSClusterProofs` | theorems: types, references and conditions, the contract |
| `PowerVSImage`, `MCPowerVSImage` | the image controller beside the cluster deletion that waits for it |
| `PowerVSImageProofs` | theorems about it |
| `PowerVSMachine`, `MCPowerVSMachine` | the machine controller, with instances, load balancer pools, the address cache and the objects it waits for |
| `PowerVSMachineProofs` | theorems about it |
| `VPCCluster`, `MCVPCCluster` | the VPC cluster controller without `Spec.Network`, with its load balancer, network and machines |
| `VPCClusterProofs` | theorems about it |
| `VPCClusterV2`, `MCVPCClusterV2`, `VPCClusterV2Proofs` | the VPC cluster controller with `Spec.Network`; theorems |
| `VPCSecurityGroupRules`, `MCVPCSecurityGroupRules`, `VPCSecurityGroupRulesProofs` | how the rules of a security group are compared and created, which is one call per group in `VPCClusterV2`; theorems |
| `VPCMachine`, `MCVPCMachine`, `VPCMachineProofs` | the VPC machine controller, with instance, pools and volumes |
| `Conversion`, `MCConversion` | the conversion between v1beta2 and v1beta3, field by field, under clients of both |
| `Paging`, `MCPaging` | a lookup over a paged collection that changes |
| `SupportProofs` | theorems about both |

### PowerVS cluster

`stored` is the object in the API server, `local` the copy a reconcile works on,
`cloud` the state of each resource (`absent`, `pending`, `active`, `failed`,
`deleting`, `removed`). `created`, `dup` and `recorded` remember
what no single variable of the program holds. `pc` is where the reconcile
stands; during `components` the two goroutines stand at `pvs` and `vpc`. Each
step makes at most one call that changes the cloud, so everything that can
happen between two calls does.

A step named after a method models that method up to its next call. Where the
code looks a resource up by name and finds it, it is recorded without further
checks, as in the code; where a lookup error is dropped, the model drops it.

Spec fields that only choose data (names, CIDRs, zones, rule contents) are
abstracted. `Referenced` says which resources have source type Reference,
`HasCOS`, `UnnamedLBs` and `PrivateLBs` give the remaining choices a property
depends on.

### PowerVS image

One worker reconciles all images (`cur`), as `SetupWithManager` leaves the number
of workers at one. `jobs` is the sequence of import jobs of the workspace; its
last entry is what `GetCosImages` answers. `WorkspaceProgress`,
`ClusterDeletesImages` and `ClusterDeletesWorkspace` are what the cluster
controller does meanwhile; the detail of the latter two is in
`PowerVSClusterDelete`.

### PowerVS machine

One worker here too (`cur`, `local`, `pc`). `instances` is the sequence of all
instances ever created in the workspace, and the position of an instance stands
for its ID and for its address; what tells them apart is whether the address is
reported by the instance, leased by DHCP, or not there yet. `cache` is the DHCP
cache of the manager, keyed by machine name as in the code, so a later object of
the same name (`CreateMachineObject`) may find an entry of the earlier one.
`gates` are the three things `reconcileNormal` waits for: the cluster
(`infrastructure`), the image and the bootstrap data; the first two are what the
other modules promise. `members` and `busy` are the pools and the load balancers
that are being updated. `CreateMachine` is split where it calls IBM Cloud
(`FindInstance`, `ValidateSystemType`, `ResolveUserData`,
`ResolveImageAndNetwork`, `CreateInstance`), so that each call may fail and the
object may be deleted in between.

### VPC cluster

`VPCCluster` has the same frame: `stored`, `local`, `pc`, three-part patch,
crashes. Each resource is one value, because every name belongs to one cluster. A
load balancer is `own`, made by the controller, or `given`, named by the hostname
the user put into the endpoint; the value stands for its hostname and its ID, which
the object keeps in different places (`host` in the spec, `lb` in the status) and
patches in different requests. A step makes at most one call that changes the
cloud. `reconcileDelete` runs from `instances` to `deleteVPC`, and each of its
early exits is a disjunct.

`VPCClusterV2` goes through a *plan*, a sequence of items in the order in which
`reconcileCluster` reaches them (VPC, image, control plane subnets, worker subnets,
groups, rules, load balancers). An item is looked for, else created, recorded
and tagged; `Done` is the end of an item, which goes on within a stage and ends the
reconcile where the code asks to come back. The image may exist in several copies,
since one without a name in the spec cannot be found again; everything else is unique
by name. A VPC without a name in the spec is sent with the generated one
(`cluster_v2.go:441`, `704`), which IBM Cloud accepts once and which no lookup asks
for (`498`), so it cannot be created again once its ID is lost. A spec may have no security groups
(`cluster_v2.go:1254`). The requeue for a group that is missing from the status (`1398`)
cannot be reached, since the stage before it records the group, and is left out.
`home` remembers the VPC each thing was created in, `on` what a
load balancer was created on.

`VPCSecurityGroupRules` is `findOrCreateSecurityGroupRule` with its five
comparisons. `existing` is the list IBM Cloud returns, `listed` the one read at the
beginning of the current rule. `Matches` is the comparison of a rule and a remote
with a listed rule, `Panics` where the code dereferences nil. `break` in the switch
of the code leaves the switch and not the loop, so every listed rule is compared
even after a match; hence `AnyPanics`.

### VPC machine

`inst` has the instances ever made, found by name; an instance, its address and its
provider ID are one number. A pool stands for its load balancer (`lbs` says whether
it is active), `api` is the first pool of the cluster's. The loop over
`Spec.LoadBalancerPoolMembers` (`at`, `flag` for `needsRequeue`) and the one over
`AdditionalVolumes` are modelled call by call; `GetVolumeAttachments` includes the
second `Get` of the object, which replaces `local` by `stored`.

### Conversion

A behaviour follows one field of one object. `hub` is the stored v1beta3 value,
`spoke` what a v1beta2 client has read or is about to write, with the annotation
`MarshalData` leaves. `Get`, `Edit`, `Put` are a v1beta2 client, `HubPut` a v1beta3
one. All fields have one shape (type, id, name, the name to provision, what else
there is) so that one state machine serves all of them; the conversion functions are
one operator each and are chosen by `ClusterSpecToHub`, `ClusterConvertTo` and so
on. `Defaulted` is what the API server does to a v1beta2 object before it is converted:
it sets `public` of a load balancer (`api/powervs/v1beta2/vpc.go:38`) and `snat` of the
DHCP server. A field that is absent from the other version is `""`, as in the code. Maps are
followed at one key: the order of iteration is not modelled.

### Paging

`items` is the collection: an item keeps its place, of which there are `Slots`, and
anybody may fill or empty a place at any time. A page begins after the place its
token names, and has a link when an item is left. Every lookup of the
repository is a shape: what it does at a match, and what it returns as next link.

### What IBM Cloud and Kubernetes are assumed to do

These are marked external in the map.

- A delete of something in use is refused: subnets by load balancers, a VPC by
  its subnets, a gateway by its connections. A deleted VPC takes its security
  groups along, a deleted workspace its networks, images and jobs.
- A call may fail without effect (`api`) or take effect and lose its answer
  (`lost`). Pending resources end up active or `failed`.
- The patch helper makes three requests (conditions; metadata and spec; status),
  each of which may fail alone.
- A delete of an image or job that is gone is answered with an error, as the
  code of the image controller has no other way to tell.
- The API server removes an object when it is deleted and has no finalizer.
- An instance being deleted is listed until it is gone, in a state the code has no
  name for; deleting an instance that is gone is an error. An instance that is
  created and not listed at once counts as a fault (`late`), and nobody creates a
  new object of the same name before the listing has caught up.
- VPC: a subnet with instances or load balancers, and a VPC with a subnet, gateway or
  instances, cannot be deleted; deleting what is gone is an error. A load balancer
  that changes is not active for a while and refuses another change. A subnet with a
  taken name is refused, and so is a VPC with the generated name; an image without a
  name is created again. The lookup of a gateway a subnet does not have may answer
  nothing or an error.
- A page starts after the item its token names, also when that item is gone.
- The API server sends what a client wrote through the webhook with its annotations and
  with the defaults of the schema set.

## 3. Runs

Every fault is counted in `faults`; `MaxFaults` is 1 in the PowerVS and machine
runs, 2 in the VPC cluster runs and 3 in `vpc_rules`. One is enough for each recovery
path to be entered from every state, two for a failure within a recovery.
`FaultKinds` names the kinds a run allows.

| run | instance | properties |
|---|---|---|
| `cluster_faults` | everything provisioned, COS included; a subnet, security group, load balancer, image; lost answers, patches, crashes | `NoRefusedDelete`, `NoDuplicates`, `ReadyIsBacked`, `ProvisionedMeansReady`, `NeverForgetsLive`, `ImplementsContract` |
| `cluster_mixed` | two of each list, the first the user's, as are workspace, VPC and gateway; COS; six kinds of fault | `TypeOK`, `NoForeignDelete` |
| `cluster_liveness` | own workspace, network, VPC, subnet and load balancer, the user's gateway; five kinds of fault | `EventuallyProvisioned`, `DeletionCompletes` |
| `image_faults` | two images, one labelled and retained; user and cluster delete; five kinds of fault | `OneImportAtATime`, `ActiveIsReal`, `NoStrandedImport` |
| `image_liveness` | two images, one deleted; six kinds of fault | `EventuallyActive`, `DeletionCompletes` |
| `machine_faults` | a control plane machine in two pools, deleted and created again under its name, its image deleted at any time; seven kinds of fault | `OneInstance`, `AddressIsOwn`, `ReadyIsRegistered`, `DeletesWhatItRecorded`, `EventuallyServing`, `DeletionCompletes` |
| `vpc_cluster` | all three specs: a load balancer to make, a given host, and both; machines; pause and deletion at any time; two faults of five kinds | `LoadBalancerFirst`, `EndpointIsStable`, `NothingLeftOnceWaited`, `DeletionCompletes` |
| `vpc_network` | an unnamed VPC, an unnamed image, and a given VPC with existing resources; two subnets of one zone shared by the planes, a group or none, a private and a public load balancer; two faults of five kinds | `OneNetwork`, `SpansControlPlane`, `ReadyIsComplete`, `EventuallyReady` |
| `vpc_rules` | six lists of up to four rules in which protocols, ports, ICMP codes and remotes collide; a limit of seven rules; three faults of three kinds | `RulesStand`, `Settles` |
| `vpc_machine` | control plane with the cluster's pool, control plane with two pools, a worker in a pool, a worker with two volumes; one fault of five kinds | `ServesBeforeReady`, `NothingRecordedLeft`, `ProviderOutlivesInstance`, `EventuallyReady`, `DeletionCompletes` |
| `conversion` | all 33 pairs of object and field; two IDs, two names | `NoDrift`, `ReferenceByIDKept` |
| `paging` | every lookup; four places, pages of two | `FoundIfThere`, `LookupEnds` |

The instances are small because the properties are about one resource of a kind
next to one of another, or about the first and the second of a list. `MaxKeys`
saturates the count of HMAC keys at two, since only "more than one" matters.
`MaxJobs` is never reached in the passing runs: a reconcile blocked by it would
be reported as a deadlock. Nor is `MaxInstances`; `MaxBirths` of two lets one object
inherit the name, the cache entry and the instance of another. `MaxInstances` of
`VPCMachine`, `MaxVolumes` and `MaxCopies` (of the image) exceed what the faults can produce, as
their assumptions say. `MaxRules` is reached, on purpose, by the list with a rule
without ports. Two IDs and two names tell "the same" from "another", and no operator
of the conversion compares more than two. Four places with pages of two make a lookup
see up to two links and a removal behind, at and before each. `cluster_liveness` leaves the gateway to the user to
keep the graph small; the same properties also hold with an own gateway (about
half a million states, some four minutes). It has no COS instance, since
`EventuallyProvisioned` does not hold with one (`hmac_stuck.cfg`), and no load balancer
without a name: a public one of those is looked up with the suffix `-0`
(`powervs_cluster.go:492`) and created without it (`1850`), so it is not found
again once its ID is lost.

`NoRefusedDelete` speaks of behaviours without failure: after a lost answer a load balancer found by name counts as ready, and a
subnet nobody recorded keeps its VPC from being deleted. For the same reason
`DeletionCompletes` starts from a deletion with every resource recorded.

`AddressIsOwn` speaks of behaviours without failure as well: a crash, or a patch
that is lost, leaves a cache entry nobody remembers.
`EventuallyServing` is about the first object of a name whose image exists and
whose instance does not end in `ERROR`; what becomes of a second one is the
subject of `machine_wedged.cfg`.

The liveness properties name what they cannot promise, next to the property. Each
exception needs a failure (or a name that is used again), and it has to last: the
property is `... \/ <>[]exception`, so that a moment at which it holds on the way, or the controller's own
successful call, excuses nothing. But for the last, the promise without the exception
is a property of its own, and the known deviations below show what breaks it.

| exception | of | what it means |
|---|---|---|
| `VPCLost` | `EventuallyReady`, network | the ID of a VPC without a name was lost; two private load balancers are excepted as well |
| `Stuck` | `DeletionCompletes`, VPC cluster | the VPC went, or the gateway was detached, in an attempt that did not get to say so; a subnet or load balancer was made whose ID was lost |
| `VolumeLost`, `NeverRecorded`, `Unfit` | `EventuallyReady`, VPC machine | a volume or the instance failed; the instance ID is discarded at every attempt |
| `AskedInVain` | `DeletionCompletes`, VPC machine | the recorded instance is gone and the object still there |
| `Dangling` | `DeletionCompletes`, image | the same of an image or job |
| `DeletedUnnoticed` | `DeletionCompletes`, PowerVS machine | the same of an instance |

`NothingLeftOnceWaited` holds for clusters that saw their load balancer in
deletion; the others are the subject of `vpc_leak.cfg`. `RulesStand` excepts a remote
that is any and shadowed (`vpc_rules_any.cfg`), `Settles` a rule without ports
(`vpc_rules_ports.cfg`). `ServesBeforeReady` is about machines that have an address when
they become ready (`vpc_address.cfg` has the others).
`NoDrift` excepts the VirtualIP topology, which v1beta2 says by the absence of an
annotation. `ReferenceByIDKept` excepts the COS instance, which v1beta2 refers to by
name only, and load balancers (`conversion_lb.cfg`).

### Fairness

`WF(Controller)`: the work queue retries errors and requeues, and a reconcile
that has begun goes on. The cloud and the other controllers finish what they
started. For images and machines, whose objects share one worker, every object keeps
coming up in the queue (`SF` on starting it): the manager resyncs all objects
every ten minutes. The VPC modules use `SF` on starting a reconcile too, because a
pause or a step of the environment may disable it in between, `WF` on its steps, on
load balancers, volumes and instances that are on their way, and on the end of a
pause; machines of a deleted cluster stop again and again until they stay away
(`SF(StopInstances)`). For `Paging`, the lookup goes on (`WF`), and nothing is assumed
of the other users of the account. Failures are never fair.

### Known deviations

What the code does and its comments, tests or documents say otherwise. Each has a
property that states the expectation and a configuration under which TLC shows a
behaviour that breaks it; these configurations are kept as reproductions and are
expected to report a violation.

| configuration, module | property | what happens |
|---|---|---|
| `adopted_vpc.cfg`, `MCPowerVSCluster` | `DeletesOnlyCreated` | `powervs_cluster.go:1500` records any VPC found under the configured name, which is then deleted with the cluster; `docs/book/src/migrations/powervs-v1beta2-to-v1beta3.md:395`: "The controller only deletes VPCs it created (`type: Provision`)." |
| `duplicate_tg.cfg`, `MCPowerVSCluster` | `NoDuplicates` | `powervs_cluster.go:1159` drops a lookup error, which leads to a second gateway; line 1147: "creates a new TG if it doesn't already exist" |
| `hmac_stuck.cfg`, `MCPowerVSCluster` | `EventuallyProvisioned` | after a failed patch or crash behind the creation of the Secret (`powervs_cluster.go:2598`) every attempt issues a key and fails with AlreadyExists; line 2521: "ensures a COS HMAC service credential exists" |
| `image_ready.cfg`, `MCPowerVSImage` | `ReadyMeansActive` | `ibmpowervsimage_controller.go:343` recomputes Ready from the workspace alone; `conditions_consts.go:110`: "surfaces when the IBMPowerVSImage readiness criteria is not met" |
| `machine_leak.cfg`, `MCPowerVSMachine` | `NoLeak` | a machine deleted between `CreateInstance` and the next reconcile takes the early exit of `ibmpowervsmachine_controller.go:228`, meant for "the instance was never actually provisioned" (line 227) |
| `machine_wedged.cfg`, `MCPowerVSMachine` | `UnknownIsTransient` | an Unknown left by the dying instance of a predecessor counts as a creation under way (`powervs_machine.go:319`); line 317: "If the creation request was just sent" |
| `vpc_leak.cfg`, `MCVPCCluster` | `NothingLeft` | a load balancer that is gone before its `delete_pending` was seen makes `ibmvpccluster_controller.go:474` drop the finalizer with VPC and subnet in place |
| `vpc_ready.cfg`, `MCVPCCluster` | `ReadyMeansRecorded` | with a host in the spec `ibmvpccluster_controller.go:223` sets Ready before the VPC exists, and a later error leaves it |
| `vpc_rules_any.cfg`, `MCVPCSecurityGroupRules` | `EveryRuleStands` | a remote that is any matches a listed rule that has no address because it has a CIDR block (`cluster_v2.go:1740`: "has no address, defaults to any remote"), and is never created |
| `vpc_volumes.cfg`, `MCVPCMachine` | `ReadyAfterFaults` | the second `Get` (`ibmvpcmachine_controller.go:435`) drops the instance ID just set, so a first failure leaves a machine whose ID is never persisted |
| `vpc_address.cfg`, `MCVPCMachine` | `ReadyHasAddress` | an instance that runs before it has an address is registered as 0.0.0.0 in the pools of the spec (`machine.go:557`) and becomes ready; `ibmvpcmachine_controller.go:313` calls this address invalid on the other path |
| `vpc_machine.cfg` (1), `MCVPCMachine` | `DeletionAfterFaults` | after a patch that failed behind `DeleteInstance`, the retry asks for an instance that is gone, which is an error each time (`machine.go:471`); the finalizer stays |
| `vpc_cluster.cfg` (1), `MCVPCCluster` | `DeletionAfterFaults` | a deletion of the VPC whose answer is lost is tried again and answered with an error each time (`vpc/cluster.go:148`) |
| `vpc_unnamed.cfg`, `MCVPCClusterV2` | `ReadyAfterFaults` | a VPC without a name in the spec whose ID is lost is neither found (`cluster_v2.go:498`) nor created again under the generated name (`704`) |
| `vpc_rules_ports.cfg`, `MCVPCSecurityGroupRules` | `EveryGroupSettles` | a TCP or UDP rule without ports never matches its copy (`cluster_v2.go:1643`) and is created at every reconcile |
| `image_liveness.cfg` (1), `MCPowerVSImage` | `DeletionAfterFaults` | an image or job deleted by an attempt whose patch failed is deleted again, with an error each time (`ibmpowervsimage_controller.go:287`) |
| `conversion_lb.cfg`, `MCConversion` | `LoadBalancerByIDKept` | the API server sets `public` (`v1beta2/vpc.go:38`), which counts as data to create from (`conversion.go:1540`): a load balancer referred to by ID becomes type Provision when a v1beta2 client writes it back |
| `conversion_created.cfg`, `MCConversion` | `ControllerCreatedDecides` | a VPC by name that the controller did not create becomes type Provision (`conversion.go:1357`) |
| `paging_restart.cfg`, `MCPaging` | `SeveralWereFound` | the Resource Controller client returns a token where `paging.go:31` expects a link, so the first page is read again and one instance counts as several |

(1) With `PROPERTY DeletionAfterFaults` in the place of `DeletionCompletes`, which excepts
the case.

Met while modelling, without a property: a VPC whose default rule could not be created
is used without it, in both generations of clusters (`powervs_cluster.go:1561`,
`vpc/cluster.go:132`); a load balancer found by name after a crash counts as ready
without a look at its state (`powervs_cluster.go:1891`); a workspace, VPC or instance
deleted by somebody else blocks the deletion; an image whose workspace does not exist,
and a machine whose image object does not exist, cannot be deleted; an import that
completes just before a crash is started again; a public gateway that was detached and
not deleted keeps its VPC (`vpc/cluster.go:458`); the second generation deletes
nothing (`ibmvpccluster_controller.go:525`) and tags once; an ICMP rule with a code
is compared through a nil pointer (`cluster_v2.go:1617`); pool members of workers are
not removed, nor are volumes that were never attached; the rules of PowerVS security
groups are created at every reconcile (`powervs_cluster.go:2161`).

## 4. Proofs

The theorems hold for every value of the constants that satisfies the named
assumptions of the module they are about.

`PowerVSCluster`:

- `TypeCorrect`: `Spec => []TypeOK`, one lemma per action.
- `ReferencesAreSafe`: `Spec => []NoForeignDelete`. The invariant needed is that a
  referenced resource is active and was created by nobody here
  (`OwnsNothingReferenced`): vanishing and creating touch only what is not
  referenced, deletion of a VPC or workspace takes along only what lives in it
  (hence `NestingAssumption`), and every delete method is guarded.
- `ConditionsAreBacked`: `Spec => []ReadyIsBacked`. Conditions and IDs are patched
  separately, so the property is not inductive. `BackedInv` adds that a `true`
  in `local` is backed by `stored` as well as by `local` (the reconcile that
  records an ID comes back before it sets the condition), so that any subset of
  the three patches keeps it, and that a bound client stands for a recorded
  workspace.
- `IDsAreKept` (`NeverForgetsLive`) and `ContractIsImplemented`
  (`ImplementsContract`), from the inductive invariant `ContractInv`. The first is a
  statement about single patches, and whether one forgets depends on everything since
  the object was read:
  - `LifeInv`: the copy never takes back what the object reports; a wanted object that
    has recorded something has its finalizer, and nothing of it is being deleted; what
    was recorded and exists is in the status *and* in the copy; a copy without
    finalizer lists only what is gone.
  - `PlaceInv`: a resource exists only inside of what it lives in (connections in the
    gateway, subnets in the VPC, the network in the workspace), because a deletion
    takes along what lives in the deleted.
  - `PassedInv`: each program point of the delete path stands for the resources that
    the points before it have seen go.

  The step simulation (`StepImplements`) then needs only how a patch changes the
  object (`PatchEffects`) and that the environment ages resources. `CreatesOf` and
  `RecordsOf` say which resources and IDs each method can touch.

  Hypotheses: nobody else deletes resources (`"vanish" \notin FaultKinds`: the
  controller *is* free to drop the ID of what vanished, and TLC finds that it drops a
  connection that came back in a new gateway), and a connection the user has already
  comes with its gateway (`NestedPreexisting`, how IBM Cloud is).
- `NothingIsCreatedTwice`: `NoDuplicates`, for every mix of faults without a failing
  call; with failing calls the gateway is the only resource that can be duplicated,
  since its lookup takes an error for an absence (section 3, `duplicate_tg.cfg`).
- `DeletionIsNotRefused`: `NoRefusedDelete`. It depends on the create path: `CleanInv`
  says that, before anything fails, every subnet and connection the controller owns
  that exists is one whose ID the next patch will have written, so the delete path, which
  goes by the status, waits for it; and that no error has been met. Hypothesis
  (`NothingForeignAttached`): the user has attached nothing of his own to what the
  controller deletes. Without it IBM Cloud does refuse, rightly.
- `ProvisionedClustersWork`: `ProvisionedMeansReady`, with the invariant `LiveInv` for as long
  as the cluster is wanted. `StageInv` says what each goroutine, and reconcile after
  they joined, has behind it at every program point; the hard case is a VPC found by its
  name while it is pending, which is not waited for: then none of its subnets is recorded
  (`SubnetInv`), and the first one that is makes the reconcile end. `NetworkInv` says that
  `NetworkReady`, persisted, collected or in memory, speaks of an active network, which
  is why it is enough to look at the condition in the end. `ProvisionedInv` adds that the ID
  of the gateway is known, for a gateway whose ID is not may get a second, pending one.
  Every step is first shown to be `Firm`: what exists and works goes on to. Hypotheses: nobody
  else deletes resources, `NestedPreexisting`, and there is a subnet (the code makes one
  for every zone if the user names none).

`PowerVSImage`:

- `TypeCorrect`: `Spec => []TypeOK`; a recorded job is a job of the workspace.
- `ImportsAreSerial`: `OneImportAtATime`, provided that IBM Cloud reports a status
  for every job. `ImportInv` says that all jobs but the last are finished and that
  a reconcile about to import has seen the last one finished.
- `ImportsAreNotStranded`: `NoStrandedImport`. `AdoptInv` says that an image that
  has a job carries the label already, so the cluster counts it before it deletes
  the workspace.
- `ActiveImagesAreReal`: `ActiveIsReal`, with `ActiveInv` for the copy a reconcile
  works on.

`PowerVSMachine`:

- `TypeCorrect`: `Spec => []TypeOK`, which includes that whatever an object, a
  pool, the cache or a reconcile names is an instance created for that machine.
  `RegisterInv` adds that only a machine with an address is registered.
- `DeletionTakesTheInstance`: `DeletesWhatItRecorded`, an action property.
  `DeleteInv` says that an object under reconcile keeps its finalizer, that the
  copy is what the API server has when the deletion starts, and that the copy
  gives its finalizer up only when the instance the *stored* object names is being
  deleted; hence any subset of the three patches is safe.
- `ReadyMachineIsRegistered`: `ReadyIsRegistered`, for every number of pools, as
  long as a patch is written as a whole. The member goes to the first pool that
  lacks the address, so the first pool for the machine has it whenever the
  condition becomes `true`; `RegisteredInv` leaves out the one moment between
  lookup and registration at which the copy still says `true` of an earlier
  address, and adds that a machine without condition is not provisioned, because
  the patch makes the condition up from that.

- `OneInstancePerName`: `OneInstance`, for any number of machines. `SoleInv` says that a
  reconcile about to create has seen no instance of the name (`AbsentInv`), and that an
  instance that is not listed yet is remembered: by the condition in the object, in
  the copy, or by the program point (`LateInv`). The model shows the hypothesis
  (`NoLateForgotten`) to be needed: if the creation answers late *and* a second failure
  loses the patch that says so, the next reconcile creates a second instance. So it
  is assumed that creations answer, or nothing makes the controller forget, or there
  is at most one failure.
- `NoForeignAddress`: `AddressIsOwn`. The cache of DHCP addresses goes by name, so an
  object may take the name of one that is gone. `OwnInv` says that, until
  something fails, the ID in an object is that of the one instance its name has, its
  address is that instance's, and what the cache has under the name belongs to the
  instance in the object or in the copy; it needs `SoleInv`, since with two instances of a
  name the cache mixes them up.

`VPCCluster` (`VPCClusterProofs`), with the inductive invariant `VPCInv`
(`Invariance`), whose parts are

- `EndpointInv`: the endpoint is the spec's or the controller's own, a reconcile's
  copy agrees with a persisted one, and a load balancer is made only while there is
  none. It gives `EndpointStays` (`EndpointIsStable`) for any subset of the patch.
- `FinalizerInv`, `DeletionInv`: a deletion works on what was persisted, and gives the
  finalizer up only in its copy.
- `WaitInv`: only the own load balancer is ever deleted, and once its deletion was
  seen by the object or a copy it does not come back. It is what makes "not found, and
  the status says `delete_pending`" mean that it is gone.
- `OrderInv`: the network is touched, and the finalizer dropped, after it. It gives
  `LoadBalancerGoesFirst` (`LoadBalancerFirst`) and, with `FinalizerInv`,
  `NothingIsLeft` (`NothingLeftOnceWaited`).

The steps that build the network, and those that take it down, are first shown to be
`Builds` and `Dismantles`, which say what they have in common.

`VPCMachine` (`VPCMachineProofs`), for every set of specs, any bounds and any faults:

- `TypeCorrect`: `Spec => []TypeOK`. `ListInv` adds that the loops over pools and volumes
  stay within their lists.
- `ProviderStays`: `ProviderOutlivesInstance`, an action property. The instance is found by
  its name, so this rests on `SoleInv`: one instance has the name at a time, and a
  reconcile about to create has seen none. `ProviderInv` says that whatever ID the object,
  the copy or the reconcile has was given to an instance, and that the one it
  replaces is gone.
- `ReadyMachinesServe`: `ServesBeforeReady`, for machines that have an address. `AddressInv` says that a member is in a pool
  only under an address that was assigned, and `ServeInv` what the loop over the
  pools has behind it while its flag says that nothing is to be waited for.
- `NothingIsLeftBehind`: `NothingRecordedLeft`. `FinalizerInv` says that a finalizer is given
  up at the end of a deletion only, `LeftInv` which pools have let go of the address at
  each point of the deletion.

`VPCClusterV2` (`VPCClusterV2Proofs`), for every set of specs, any subnets, groups and
load balancers, and any faults. A spec may list a subnet twice, and the two planes may
share subnets. `PlanOfFacts` says where each item stands in the plan. The fifteen steps
that go through it are first shown to write only the current item and to leave it in one
of three ways (`Outcome`: `Ended` by an error, `Moved` within the item, `Finished`), and
to create something in at most two (`MakingOutcome`: `Gated`, `Made`).

- `TypeCorrect`: `Spec => []TypeOK`, together with `PlaceInv` (where the controller can
  stand) and `CloudInv`: what is about to be created is absent, so that nothing that is
  available stops being so (`ThingsGrow`).
- `EverythingInOneVPC`: `OneNetwork`. `HomeInv` has two halves. A VPC that has a name
  or is given is found by it, so it is the only one. One without a name is found by
  the persisted ID only: the stage of the VPC always ends the reconcile that creates
  it, so that whenever something is created in a VPC its ID was persisted before,
  and no partial patch takes it back.
- `LoadBalancersSpanTheirSubnets`: `SpansControlPlane`. `PassedInv` says that an item before the
  current one is settled (recorded as available, and so in IBM Cloud), unless it belongs
  to the current stage and that stage will be come back to; so all the subnets and
  groups are when a load balancer is created. `RecInv` says that the status has entries
  for items of the plan only: the status has no subnet that the spec has not.
- `ReadyClustersAreComplete`: `ReadyIsComplete`, an action property. `ReadyInv` says that a copy
  that is ready while the object is not is about to be patched, with all of
  the plan settled, and that an endpoint, in the copy or persisted, is that of an available
  load balancer; so it does not matter which parts of the patch fail.

`NetworkAssumption` says that subnets, gateways, groups and load balancers are told
apart by what they are, which is how IBM Cloud keeps them.

`VPCSecurityGroupRules` (`VPCSecurityGroupRulesProofs`): `RulesAreThere` (`RulesStand`)
and `GroupSettles` (`Settles`), for every set of lists the validation of the API admits
(`RulesAssumption`), names of remotes that are not empty (`NamesAssumption`) and any
limit on the group. Neither is inductive. `RulesInv` adds that

- every existing rule was created from a rule and a remote of the spec
  (`MadeFromSpec`): an existing rule that matches is then the rule's own, unless the
  remote is any (`MatchIsOwn`);
- what the reconcile has gone through is done (`GoneThrough`): the remotes of earlier
  rules, the earlier remotes of this rule and, after a full pass, all of them;
- after a full pass the list the reconcile works with is the one that exists
  (`ListedIsFresh`). Without it a rule created for one remote would be missing from
  the list used for the next. A rule that is done is then found in it, if it has its
  ports (`DoneIsMatched`), and nothing is created.

`Conversion` (`SupportProofs`): `ConversionSettles` (`NoDrift`) and
`ReferencesSurvive` (`ReferenceByIDKept`, so not for load balancers), for all sets of IDs, names and other
values. What is written is converted after the defaults are set (`Sent`, `DefaultedIsSent`);
only load balancers and DHCP servers have any (`NoDefaults`). `ConversionInv` says that the stored and the read value have the shape of their
field (`Fits`, `RefShape`) and that a value v1beta2 has written is a fixed point of
reading and writing back (`Settled`); the latter is one lemma per kind of field,
which follows the value through both conversion functions.

`Paging` (`SupportProofs`): `NothingIsPassedOver` (`FoundIfThere`) and
`NothingIsTakenTwice` (`TakenOnce`), for collections and pages of any size.
`PagingInv` says that the matches that were there all the time and lie before the
position of the next page have been taken, and that nothing at or behind it has; that
a page ends at the least item beyond its size needs the well-foundedness of the
naturals.

Only model-checked: liveness (the prover handles neither fairness nor `ENABLED`),
and `ReadyIsRegistered` with partial patches. Recursive definitions and facts that need
induction over data are not used in the modules with theorems.

## 5. Not modelled, and the plan

Not modelled because there is no protocol in it: template controllers, webhooks,
endpoints and options, Ignition types, the manager's start-up, `capibmadm` but for its
paged lists. The service clients are the environment of every module. Names and how
they are cut to length, regions, zones and CIDRs are data; so are the contents of the
rules of PowerVS security groups. Conversion leaves out fields that are copied, the
order in which Go iterates over maps, and the v1beta1 conversion of the VPC objects.
`VPCClusterV2` takes the deletion of IBM Cloud resources by others to be out of scope:
a lookup by a recorded ID that fails is a failed call.

Next, in this order:

1. Default names and their truncation as a pure algorithm.
2. A composition of VPC cluster and machine over one load balancer, whose updates
   make the two controllers wait for each other.
