# Verification of cluster-api-provider-ovh

TLA+ models of the two reconcilers of cluster-api-provider-ovh (CAPIOVH), of
the conversion and validation of its objects and of the initialisation of
workload nodes, with an abstract specification that both reconcilers implement,
the TLC instances that check all this and TLAPS proofs of every safety property
that the passing runs check. Paths are relative to the repository; `MC`, `CC`
and `CL` stand for `internal/controller/ovhmachine_controller.go`,
`internal/controller/ovhcluster_controller.go` and `pkg/ovh/client.go`; `CV` and
`NI` for `api/v1alpha1/conversion.go` and `util/node_init.go`.

## The system

CAPIOVH is a Cluster API infrastructure provider: a Kubernetes manager with two
controllers that turn `OVHCluster` and `OVHMachine` objects into resources of
an OVH Public Cloud project.

| Part | State | Operations | Talks to |
|---|---|---|---|
| OVHMachine controller (`MC`) | the object's finalizer, `Spec.ProviderID`, `Status.{InstanceID, Ready, FailureReason, LBPoolMemberID, RegisterPoolMemberID}` | Reconcile → ReconcileNormal (find by id, adopt, find by name, create, register in two pools) or ReconcileDelete (deregister, delete, verify) and the deferred patch | API server, informer cache, OVH compute and load-balancer API; reads the OVHCluster's status |
| OVHCluster controller (`CC`) | finalizer, endpoint, condition `NetworkCreatedByController`, ids of network, subnet, load balancer, two listeners and pools, floating IP, gateway, security group, DNS record | network, subnet, security group, load balancer, listeners, pools, health monitors, floating IP, gateway, DNS; the same in reverse on deletion, with orphan cleanup | API server, cache, OVH network, Octavia and DNS API |
| OVH client (`CL`, `pkg/ovh/errors.go`) | none | HTTP calls, `retryWithBackoff`, error classes (404, 409 PENDING, retryable) | OVH |
| API types, conversion, webhooks (`api/`) | the objects' fields | validation in both versions, v1alpha1 ↔ v1alpha2 | API server |
| Utilities (`util/`) | none | RFC 1035 names, provider ids, node initialisation, etcd member removal (not called), base64 | workload cluster |
| Manager, metrics, dashboard extension, chart, scripts | – | wiring, counters, presentation, packaging | – |

What is hard here:

- **No transaction spans OVH and Kubernetes.** What a reconcile did is known
  only in memory until the deferred patch, which itself is two requests for a
  machine and three for a cluster. A crash or a failed request in between
  leaves any prefix.
- **Reads are stale.** A reconcile reads an informer cache that may not have
  the finalizer, the deletion or the id that the API server has.
- **OVH is asynchronous and other people use it.** Load balancers are
  PENDING_* for a while and refuse calls then; a new one may not be listed yet;
  addresses come late; anything may vanish; names are shared within a project.
- **Answers get lost** after the request was carried out, and the client
  repeats some POSTs.
- **Best effort.** Many deletion and registration steps log an error and go on,
  so that a later step, or a later reconcile, has to make up for it.
- **Two versions of everything.** Fields and rules are written down twice, and
  every request passes through the conversion and both webhooks.
- **Shared writers.** The Node of a machine is also written by its kubelet, a
  cloud controller manager and whoever sets taints, without a resourceVersion
  on this side.

`PROJECT.json` lists these hazards line by line, each with the properties that
would notice it going wrong, or with a note that says why none of a passing run
does.

## Modules

| Module | Models |
|---|---|
| `OVHMachine` | the machine controller, its work queue and cache, the API server, the instances and the members of the two pools |
| `OVHCluster` | the cluster controller with all resources of one cluster |
| `ManagedResources` | the contract of a controller that manages cloud resources for objects, abstractly; `OVHMachine` and `OVHCluster` implement it |
| `ApiVersions` | the types of both versions, conversion, the validating webhooks, and the API server that stores, lists and converts |
| `WorkloadNode` | the initialisation of a machine's Node, against the other writers of it |
| `MCOVHMachine`, `MCOVHCluster`, `MCApiVersions`, `MCWorkloadNode` | model values and symmetry sets for TLC |
| `OVHMachine_proofs` → `OVHMachineInstances_proofs` → `OVHMachineContract_proofs` | the theorems about `OVHMachine`: the controller by itself; its instances; the refinement and the end of a machine. Each extends the one before |
| `OVHCluster_proofs` → `OVHClusterResources_proofs` → `OVHClusterDeletion_proofs` | the theorems about `OVHCluster`: the controller by itself; load balancer, network and Ready; the record, the refinement and the deletion |
| `ApiVersions_proofs`, `WorkloadNode_proofs` | the theorems about these two |

### How the models follow the code

*Objects.* `obj` is what the API server holds and `cache` what the informer
holds; `CacheSync` copies the first to the second and queues the object. `base`
is the patch helper's copy of what was read and `mem` the Go object the
reconcile changes. An object that is gone keeps its last content with
`ex = FALSE`.

*Steps.* A reconcile is one action up to its first OVH call (all it does there
is local: the actions of `Start`, one per early return) and then one action per
OVH call, up to the next one; `pc` names the call to come. Local
code after a call belongs to the action of that call. Whatever way a reconcile
returns, `Return` goes to the deferred patch (`MC:123-133`, `CC`'s
equivalent). `PatchObject` and `PatchStatus` (and `PatchConditions`, which runs
first in the cluster controller) write the fields in which `mem` differs from
`base`, as `patch.Helper` does, so that a field read stale and not changed is
not written back. Removing the last finalizer of a deleted object removes it.

*Results.* In `OVHMachine`, `again` is RequeueAfter or an error and puts the
machine back into `queue`, delays left out. Every return of the cluster
controller has a requeue, an error or a change of the object, so `OVHCluster`
has no queue: a reconcile may begin whenever the worker is idle.

*OVH.* Resources have the states the code tells apart. `retryWithBackoff` is
explicit for `CreateInstance` (`att`, `MaxRetries`), a second POST for load
balancers (`RepostLoadBalancer`) and networks, and elsewhere part of a call
that succeeds or fails as a whole. In `OVHCluster` a listener, a pool and a
floating IP have the id of their load balancer, and a subnet that of its
network; only the floating IP that is adopted (`ExistingFIP`) has its own. What
a pass knows of the address and the floating IP of its load balancer is from one
answer, read before the listeners and pools (`LBAnswers`, kept in `lbRead`).
Instances that were there before (`Existing`) have no machine's name: they are
there to be adopted by id. Deleting a pool or a listener makes its load balancer PENDING_UPDATE,
in which state DELETE answers 409; `IsAlreadyDeleting` takes that for success.

*Environment.* The user deletes objects, sets the keep annotation, names a
network in the spec; CAPI sets owner references and bootstrap data; pools of a
cluster come and go under the machine controller.

*Faults.* `FaultKinds` says which may happen and `MaxFaults` how many:
`crash` (the process restarts and lists everything), `stale` (a reconcile may
begin with an old cache; not counted), `api` (a call fails), `lost` (it fails
after having been carried out), `lostPost` (the same of `CreateInstance`),
`patch` (one request of the deferred patch fails), `pause`, `vanish` (somebody
deletes a resource), `flap` and `error` (an instance leaves ACTIVE, a build
fails), `pool` (a pool is missing), `hide` (a new load balancer is not listed
yet), `noVIP` (a load balancer is ACTIVE before it has an address), `edit` (the
user names a network after one was created).

*Versions.* In `ApiVersions` a document is a function from field names to
contents. The operators `ClusterSpecTo`, `MachineStatusFrom`, ... are the sets of
fields that the assignments of `CV` copy, so that a forgotten assignment is a
forgotten member; contents are told apart as far as validation and conversion
look at them (the protocols of the listeners, a network configuration that is
empty or has a bad gateway, a volume without a name, ...). A write is read in the client's version, changed, seen by the
webhooks of both versions (the API server's matchPolicy Equivalent, with the
conversion in between) and stored in v1alpha2; objects of the release before are
stored in v1alpha1 as its schema admitted them. `wanted` is a history variable:
what was last written to each field.

*Node initialisation.* `WorkloadNode` begins where `OVHMachine` leaves off, at
the end of `handleExistingInstance`. There is one action per call to the
workload cluster, and one for each other writer. The providerID is that of the
machine's n-th instance, `Foreign` for anybody else's (`rke2://<hostname>`,
`openstack:///...`) or empty; Node validation accepts a change from empty only.
The two patches are separate from what they were computed from, so that other
writers come in between.

### The contract and the refinement

`ManagedResources` is what a user of the provider may rely on: an object goes
through the lives *new*, *held* (with the finalizer), *doomed* / *spared* /
*kept* (deleted without keep, keep set afterwards, deleted with keep) and
*released* / *left*; resources are created only for an object that is held or
later, terminated only for one that was deleted without keep and has a title to
them, and a doomed object is released only when all resources that were *learnt*
of are going. It has no caches, requests, retries, crashes or pools.

`ImplementsContract` says that the two controllers implement it, under all their
faults, with the mapping `LifeOf` (from the object in the API server and the
history `kept`), `FateOf` (from the resource's status) and, for machines,
`TitleOf` (by name or adoption) and `known <- seen` (instances that a reconcile
has read about in the status). For clusters the resources are the load
balancers, known by their name. Every crash, stale read and failed request is a
stuttering step of the contract, and the removal of the finalizer is *Release*,
with its guard: the refinement is where the order of deletion, verification and
the two-request patch has to be right.

## Runs

Deadlock is not an error in the runs of the controllers: once every object is
gone or settled they have nothing left to do. It is one in `versions` and
`node_init`, where somebody can always go on.

| Run | Instance | Shows |
|---|---|---|
| `machine_safety` | 1 control-plane machine, 3 instances, three of all faults but vanish and lostPost | `TypeOK`; `CreateUnderFinalizer`: the finalizer is in the API server before any instance is asked for; `NoDuplicateInstance`: no second instance under the machine's name; `TerminationJustified`: nothing terminated but one's own on a deletion without keep; `SeenInstancesDeleted`: the object does not go before the instances a reconcile has read about do; `UnfinishedIsQueued`: no early return forgets a machine; `ImplementsContract` |
| `machine_two` | 2 machines with the same instance name, one adopting by id, one failed call or vanished instance | `ManagersAlike`: two machines record the same instance only if both adopt it, or neither adopts one and their names coincide; `NoLeak`: nothing is left of deleted machines; `TerminationJustified`, here with an instance of another machine to get wrong; `DrainedBeforeTermination`: an instance is out of the API pool before it is terminated, as long as no call has failed |
| `machine_live` | 1 control-plane machine, one fault (a pause of the cluster is one), fair | `DeletionCompletes`, `Converges` (Ready, ACTIVE and in both pools, or failed) |
| `cluster_safety` | user's network, 2 load balancers, an adopted floating IP, two crashes, stale reads, failed patches, vanishing load balancers | `TypeOK`, `CreateUnderFinalizer`, `NoDuplicateLB`; `KeepHonoured`: after a deletion with keep nothing is removed, but by somebody else |
| `cluster_clean` | created network, security group, DNS; two of vanish, noVIP | `NothingLeft`; `MadeOnce`: one network and one DNS record at a time, although nothing searches for them; `ImplementsContract` |
| `cluster_adopt` | adopted load balancer, floating IP, created network, security group, DNS; two of api, lost, edit | `UserNetworkKept`, `ReadyHasEndpoint` |
| `cluster_live` | user's network, floating IP; one fault, fair | `ReadyIsServed`, `BecomesReady`, `DeletionCompletes`, `MonitorsAttached` |
| `versions` | 2 objects of any kinds, new or of the release before, clients of both versions | `TypeOK`; `CommonFieldsKept`: no field that both versions have is lost or mixed up by any sequence of reads and writes in either; `WebhooksAgree`: the two sets of rules and the conversion between them agree; `ListStaysServed`: nobody can break the list that the controllers' informers need |
| `node_init` | 2 instances one after another, 3 registrations of the Node, 2 taints of others, 2 faults, cloud controller manager, fair | `TypeOK`; `FreedWithID`: the Node does not lose the taint without a providerID; `OthersTaintsStay`: the patch of the whole list undoes only what others did after the second read; `EventuallyInitialised` |

Bounds. One machine needs three instances to be created anew after two losses,
which covers every path back to `createInstance`; two machines are enough for
every property about a pair. The interesting scenarios here consist of two
faults (a lost id and what is done about it), so two or three faults are
allowed in the safety runs; with fairness one, because the properties are about
recovery after the last fault. `MaxRetries = 1` exercises a retry and giving
up. Two networks besides the user's and two load balancers allow one
replacement of each; `MaxRecords = 2` one duplicate DNS record. Symmetry is
used in safety runs only, over ids that do not exist yet (and over the objects of
`versions`). Two objects are enough for a list with one item that converts and
one that does not; `Edits` has one field for each rule of the webhooks and each
way of being copied. Two instances and three registrations let the Node be
replaced between any two steps of a pass and again after it.

Each of the runs leaves out the faults under which its properties are false of
the code; the next two sections say which and why.

### Runs that show a disagreement

| Run | What happens |
|---|---|
| `machine_leak` | A crash between `CreateInstance` and the patch, then a deletion: `ReconcileDelete` knows no id, does not search by name and removes the finalizer; the instance stays (`MC:799` against `docs/ARCHITECTURE.md:294-295`). |
| `cluster_lb_left` | On a network of the user's, `DeletePool` makes the load balancer PENDING_UPDATE, its DELETE answers 409, that is taken for success and the finalizer goes (`pkg/ovh/errors.go:67`). No fault is needed. With a created network, deleting the network fails as long as the load balancer is on it, which is why `cluster_clean` passes. |
| `versions_lost` | A v1alpha1 client changes one field of an object: what v1alpha1 has no field for (security groups, tags, DNS, existing ids, failure domains, and in the status the security group and DNS record ids by which the deletion finds them) is gone (`CV:101` against `CHANGELOG.md:15-18`). |

### Other disagreements met while modelling

The models show these too, with other constants; they have no run of their own.

- The replacement of a vanished load balancer gets no listener for port 9345,
  because `RegisterListenerID` and `RegisterPoolID` are not cleared with the
  others (`CC:688`; `ReadyIsServed` with {"vanish"} and two load balancers).
- `NetworkCreatedByController` is patched before the status: a crash in between
  leaves the mark without an id, and a network named in the spec later is
  deleted with the cluster (`CC:1235`; `UserNetworkKept` with {"crash", "edit"}).
- The orphan cleanup matches the prefix `capi-<cluster>-lb`, which another
  cluster's load balancer may have (`CC:1197`; `OtherClustersKept` with
  OtherLBs = {l2}).
- An `existingFloatingIPID` is recorded as if the controller had allocated it
  (`CC:676`): its address becomes the endpoint (`CC:867`), but nothing attaches it
  to the load balancer (`AssociateFloatingIPToLB` is never called), and it is
  deleted with the cluster, even if no floating network is configured
  (`api/v1alpha2/ovhcluster_types.go:113` only says "to adopt"; `ReadyIsServed`
  with ExistingFIP = adopted and FloatingNetwork = TRUE, no fault needed).
- One listener with the protocol HTTP in one legacy v1alpha1 object makes the
  list of all OVHClusters fail, with which the controller's informer starts
  (`CV:57`: the webhook converts the objects of a list one by one, and one error
  fails the review); `ListStaysServed` starts from a list that is served.
- A Node that registered with a foreign providerID (RKE2's own
  `rke2://<hostname>`) keeps it, and loses the taint, so that CAPI does not find
  the machine's Node, although the comment says the call is there to link them
  (`MC:401-404` against `NI:78`; `EventuallyLinked` with Registers = {"foreign"}).
  The same happens to the Node of an instance that was replaced under the same
  name.
- A taint that somebody sets between the second read and the patch is lost, and
  one removed then comes back (`NI:119`, `OthersTaintsStay` without `late`); a Node
  replaced since the pass first read it is freed without a providerID
  (`FreedWithID` without its last condition).
- `CHANGELOG.md:330` announces the removal of etcd members; nothing calls it.
- The chart's CRDs say conversion strategy None (its `values.yaml` calls the
  schemas identical), with which nothing converts; the model has the webhook
  strategy of `config/`.
- A deletion reconciled from a cache without the new `InstanceID` leaks the
  instance as in `machine_leak` (FaultKinds = {"stale"}).
- A deletion reconciled from a cache that has the deletion and the instance but not
  yet the `LBPoolMemberID` of the last patch skips `removeLBPoolMember` and terminates an
  instance that is still in the API server's pool (FaultKinds = {"stale"} and an
  instance that is created, not adopted; `DrainedBeforeTermination`).
- A `removeLBPoolMember` that fails is logged, and the instance is terminated all
  the same (`MC:743`): the member stays in the API server's pool.
  `DrainedBeforeTermination` is about deletions before any fault for that reason.
  The member for port 9345 is never removed.
- Two machines of a set whose names are long get the same instance name
  (`util/util.go:73-76` cuts at 63 characters, the random suffix included). They
  share one instance: each records the one it finds by name, and the deletion of
  either terminates it under the other, which may still have it in the pool
  (`DrainedBeforeTermination` with two machines of one name that adopt nothing;
  `ManagersAlike` and `NoLeak` hold).
- A `CreateInstance` POST with a lost answer is repeated by `retryWithBackoff`
  and makes a second instance (`CL:167`, {"lostPost"}, `NoDuplicateInstance`).
- `Status.Ready` stays true while the replacement of a vanished instance is
  still building (`MC:297` against `api/v1alpha2/ovhmachine_types.go:127`).
- A registration that met a missing pool is "retried on the next reconcile"
  (`MC:394-395`), but handleExistingInstance returns without a requeue: after the event of its
  own status patch nothing comes but the informer's resync.
- A crash after the creation of a network makes a second network: there is no
  search by name (`CC:526` against `README.md:24`). In the same way a lost answer
  or a crash makes a second DNS record, of which one is deleted (`MadeOnce` with
  {"crash"} or {"lost"}).
- A deletion step that is best effort and fails leaves its resource behind, since
  the finalizer goes all the same (`NothingLeft` with {"api"}).
- A crash while a new load balancer is not listed yet makes a second one
  (`docs/ARCHITECTURE.md:239-240`; {"crash", "hide"}, `NoDuplicateLB`); so does
  an error of the search, which is ignored.
- A floating IP known only through its load balancer is forgotten when its
  first DELETE does not go through (`CC:1149-1151`; `NothingLeft`).
- While a load balancer is PENDING_DELETE, deleting its floating IP only
  detaches it, says the comment at `CC:1260-1262`, and "a subsequent call deletes
  it"; but a detached floating IP counts as deleted (`CC:1284`), so that the
  subsequent call is never made (`DropFloatingIP`; `NothingLeft` with a floating
  IP).
- Health monitors are looked up by a name that is the same for every cluster of
  the region, so a second cluster gets none (`CC:1080` against
  `CHANGELOG.md:106-107`; OtherLBs not empty, `MonitorsAttached`).
- A spec with a subnet and no networkConfig, which the webhook admits
  (`api/v1alpha2/ovhcluster_webhook.go:92`), never becomes Ready (`CC:722`).
- A network that vanishes and is replaced in the spec by the user's keeps the
  mark too: the user's is deleted ({"vanish", "edit"}).
- `Status.VolumeIDs` is never filled.

Faults left out of a passing run for what they do to its properties:
`SeenInstancesDeleted` fails with `lostPost` and `stale` together (a duplicate), and
with `vanish`, `stale` and `api` (a merge patch from a stale copy erases a newer
id); `ReadyHasEndpoint` fails for a moment when the request for metadata and spec
fails and the one for the status does not, and with `noVIP` and no floating IP;
`NothingLeft` fails with `hide` and `vanish` together and with any loss of an
id.

## Fairness

`FairSpec` assumes weak fairness of the worker's steps (a call returns or fails
by its timeout), of the watch, of the informer's resync (10 hours by default),
of CAPI's progress and of OVH's progress on what it has accepted. `Start(m)` is
strongly fair in `OVHMachine`, because the queue is first in first out and a
machine in it is taken up however often others come. Whoever pauses a cluster is
assumed to unpause it (weak fairness of `Unpause`): a paused machine is not
reconciled, by design (`MC:251`). Nothing is assumed of the user otherwise or of
faults, whose number is bounded. `Converges` rests on the resync
(see the registration above) and, for an object whose pool is missing, on the
cluster controller rebuilding it.

`WorkloadNode` assumes weak fairness of `Start` (the resync reconciles an ACTIVE
machine again and again), of a pass that has begun, and of the kubeconfig secret
being written; nothing of the kubelet, the cloud controller manager or those who
taint and delete, and the number of failing calls is bounded.

## Proofs

All theorems are about `Spec`, for every value of the constants that satisfies
the module's `ConstantsAssumption`: any number of machines, instances, networks,
load balancers, objects, taints and faults. `PROJECT.json` lists them. Where a
theorem needs some kinds of fault to be absent, it says so in its ASSUME, and
the column *Without* below repeats it; a dash means any faults whatever. These
hypotheses are not for the prover's convenience: TLC, given the kinds that a
theorem excludes, finds the property violated, by each kind alone or in the
combinations that the lists above name. Of the others, *stale* does harm to
`ReadyIsServed` together with api, lost or hide, and *hide* to the cluster's
`ImplementsContract` because it leads to two load balancers, which the orphan
cleanup takes at once.

Every proof has the same shape: an inductive invariant, made of named parts each
with a lemma for `Init` and one for a step (one case per action), and a final
step that combines them with PTL.

### The machine controller

| Theorem | Property | Without | Inductive invariant |
|---|---|---|---|
| `TypeCorrect` | `TypeOK` | – | `TypeInv` |
| `CreatesUnderFinalizer` | `CreateUnderFinalizer` | – | `FinalizerInv` |
| `TerminatesOnlyOwn` | `TerminationJustified` | – | `OwnInv` |
| `NothingDropped` | `UnfinishedIsQueued` | – | `QueueInv` |
| `OneInstancePerName` | `NoDuplicateInstance` | lostPost | `UniqueInv` |
| `OnlyNamesakesShare` | `ManagersAlike` | – | `BaseInv`, `AdoptedInv` |
| `NamedInstancesGoFirst` | `SeenInstancesDeleted` | stale; or lostPost, vanish (`NamesDiffer`) | `FreshInv`; `FullInv` |
| `KeepsContract` | `ImplementsContract` | stale; or lostPost, vanish (`NamesDiffer`) | `FreshInv`; `FullInv` |
| `NothingLeftBehind` | `NoLeak` | stale, crash, patch, lostPost | `SideInv`, `LeakInv` |
| `DrainsFirst` | `DrainedBeforeTermination` | stale (`NamesDiffer`) | `DrainInv` |

`NamesDiffer` says that no two machines have the same instance name or adopt the
same instance. Nothing in the code enforces either: `GenerateRFC1035Name` cuts
names at 63 characters, so that it is up to the user to keep them short. The
theorems that assume it say nothing about machines that share an instance; the
others hold for them too.

- `TypeInv` is `TypeOK` with `KnowsInstance`: where a step needs an id,
  `mem.inst` or `Adopt[cur]` is one.
- `FinalizerInv` relates the API server, which the property is about, to the
  cache, which is all the reconcile saw. `CacheBehind` says what the cache may lag
  behind in (a deletion it has seen has happened; a finalizer it has seen is in
  the API server until a deletion with it removes it), and `ReconcileInv` what
  the running reconcile inherits from what it read: only a reconcile of a deleted
  object drops the finalizer, and there is one worker, so none does during a
  create.
- `OwnInv`: every id recorded for a machine, in the API server, the cache and the
  two copies, is of an instance with the machine's name or of the one it adopts.
  Ids only move between these places (`RecordsMove`), and names stick to instances
  (`InstanceStep`). With `FinalizerInv` this gives `TerminationJustified`.
- `AdoptedInv`: a machine that adopts an instance records that one or none, so that
  of two machines with the same record both adopt it or both have its name.
- `QueueInv` is about the returns without a requeue. While a reconcile runs and
  its machine is not queued again, the cache is what the reconcile read, since any
  event would have queued it; so a patch that changes something leaves the cache
  behind, which brings an event, and a patch that changes nothing proves the
  machine finished.
- `UniqueInv` adds to the property that on the way from the search by name to the
  POST nobody has the name: names are only given by that POST, and one worker
  makes all of them.
- `FreshInv` and `FullInv` are two arguments for the same end, `CleanInv`: when the
  finalizer is taken off, all instances that reconciles have read about are going.
  `FreshInv` is for reconciles that begin with what the API server has: an id that
  was read is the recorded one or of an instance that is going, since only a 404
  makes a reconcile forget it. Other people may delete instances and answers may be
  lost then.
- `FullInv` allows any stale reads. It adds `OneInstanceInv` (a machine never has a second instance, and its
  instance goes only for a machine that is being deleted) and `RecordInv` (an id
  that a reconcile has read is still in the cache and in the API server, and what
  the running reconcile writes does not take it back). This is where `vanish` has
  to be out: a reconcile from a stale copy whose instance is gone gets a 404 and
  writes the empty id over that of the replacement.
- `LeakInv`: for an instance that is alive under a name there is a machine with that
  name whose object records it, or whose running reconcile is about to, and the
  object is there, under its finalizer, or was deleted with keep. It needs that nothing comes
  between POST and patch, which is what `machine_leak` shows.
- `DrainInv`: as long as no fault has happened, what a machine has in the API
  server's pool is the member it records (`Undisturbed`), and the record is cleared
  by the time of the DELETE.

The refinement is proved action by action. `StutterStep` takes care of the steps
that leave `LifeOf`, `FateOf`, `TitleOf` and `seen` alone (`LifeSame` lists what
they read); the others are shown to be one of the contract's: `CreateInstance` is
*Create*, the DELETE is *Terminate*, an instance that ends is *End*, beginning a
reconcile with an id is *Learn*, a patch that adds or removes the finalizer and
what users do to the object is *Live* or *Release*. The one difficult case is
*Release*, whose guard is `SeenInstancesDeleted`.

### The cluster controller

| Theorem | Property | Without | Inductive invariant |
|---|---|---|---|
| `TypeCorrect` | `TypeOK` | – | `TypeInv` |
| `CreatesUnderFinalizer` | `CreateUnderFinalizer` | – | `FinalizerInv` |
| `KeepIsHonoured` | `KeepHonoured` | – | `FinalizerInv` |
| `OneLoadBalancer` | `NoDuplicateLB` | hide, lost, api | `OneLBInv` |
| `UserNetworkStays` | `UserNetworkKept` | edit; or stale, crash, patch, vanish | `FixedNetInv`; `EditedNetInv` |
| `ReadyWithEndpoint` | `ReadyHasEndpoint` | patch; noVIP too, if there is no floating network | `EndpointInv` |
| `ReadyMeansServed` | `ReadyIsServed` | stale, vanish (no floating IP adopted) | `ServedInv` |
| `MadeOnlyOnce` | `MadeOnce` | stale, crash, patch, lost | `RecordInv`, `MadeInv` |
| `KeepsContract` | `ImplementsContract` | all but vanish and noVIP (own network, `OtherLBs = {}`) | `KnownInv`, `LBInv` |
| `LeavesNothing` | `NothingLeft` | all but vanish and noVIP (own network, no floating network) | `RestInv` too |

- `TypeInv` is `TypeOK` with `Knows`: subnets, listeners and pools are attached to
  the id in memory, which is one by then.
- `FinalizerInv` is `CopyInv` (the cache never goes back, and shows a deletion
  only together with the annotations of that moment) and `RunInv` (only a
  reconcile that read the deletion removes the finalizer). The second half of
  `CopyInv` is what `KeepIsHonoured` needs: every copy with the deletion has the
  keep annotation.
- `OneLBInv` also says that no load balancer is hidden and no POST is about to be
  repeated. A failing search counts as *not found* in the code, hence `api`.
- `FixedNetInv`: with a spec that does not change, either it names the user's
  network and no copy of the object ever has the mark `NetworkCreatedByController`,
  or it names none and no copy has the user's network.
  For a spec that is edited the mark and the id have to be kept together
  (`EditedNetInv`), and they are written by two requests: a crash, a failed patch
  or a stale read parts them, and so does a network that vanishes, because
  `GetPrivateNetwork` clears the id and leaves the mark.
- `EndpointInv`: the endpoint is in the second request of the patch and Ready in
  the third, so Ready without an endpoint takes a second one that fails.
- `ServedInv`: while nothing is deleted, the ids in every copy are of one load
  balancer, and each listener and pool id on record is of one that exists; what
  the pass has read of the load balancer's floating IP still holds (`ReadHolds`).
- `RecordInv`: only the patch writes the ids, and an object with ids to be written
  is held by its finalizer until it has them. `MadeInv`: the record names the
  network and the DNS record that there are, so what is not recorded may be made.
- `LBInv` is the argument why taking a 409 for success does no harm with a network
  of one's own. After `DeletePool` the load balancer is PENDING_UPDATE and its
  DELETE is refused (`TouchedInv`); then the network is still in use, its deletion
  fails, the finalizer stays (`HoldInv`) and the next reconcile finds the load
  balancer ACTIVE. Only the end of `ReconcileDelete` lets the object go
  (`LettingGo`). On a network of the user's the argument breaks down, as
  `cluster_lb_left` shows. `OtherLBs = {}` is there because the orphan cleanup
  deletes by prefix, also what belongs to others.
- `RestInv` does the same for the security group and the DNS record, for a
  cluster without floating IP: one that has one can leave it behind (see above).

### Versions and nodes

| Theorem | Property | Inductive invariant |
|---|---|---|
| `ApiVersions_proofs!TypeCorrect` | `TypeOK` | `DocInv` |
| `ConversionKeepsFields` | `CommonFieldsKept` | `DocInv` |
| `WebhooksConsistent` | `WebhooksAgree` | none: of any document |
| `ListsStayServed` | `ListStaysServed` | `DocInv` |
| `WorkloadNode_proofs!TypeCorrect` | `TypeOK` | `TypeOK` itself |
| `NodesFreedWithID` | `FreedWithID` | `LinkInv` |
| `TaintsOfOthersStay` | `OthersTaintsStay` | `ListInv` |

None of them needs a hypothesis. `DocInv` says that a stored document has the
fields of its version and agrees with `wanted` on the fields both versions have;
`AllAssigned` shows first that the assignments of `CV` cover those, after which a
conversion is a restriction or an extension. `LinkInv` ties the pass to the Node
it read first by the uid: a Node registered since has a larger one. `ListInv` says
that the list about to be written has the taints of others as they were at the
second read, up to those in `late`.

### Only model-checked

- Liveness (`DeletionCompletes`, `Converges`, `BecomesReady`, `MonitorsAttached`,
  `EventuallyInitialised`): the prover has no rules for fairness and ENABLED.
- The three runs that expect a violation.

Every safety property of a passing run is stated by a theorem, and the constants
of the run satisfy the theorem's hypotheses, with one exception: the machines of
`machine_two` share a name, which `DrainsFirst` excludes (there one of the two
adopts, so that they never share an instance).

## Not modelled

- Conditions (but the one that decides something), addresses, events, metrics.
- `reconcileFailureDomains` (a list of zones copied to the status) and subnet
  allocation ranges.
- A lost answer to the creation of a subnet; the loop over
  `Status.VolumeIDs`, which nothing fills.
- Two managers at the same time: the shipped deployments pass
  `--leader-elect` (`config/manager/manager.yaml`, the chart).
- `ConvertTo` and `ConvertFrom` of the list types, which the conversion webhook does
  not call.
- Name generation character by character (that names coincide or extend each
  other is a parameter), back-off delays, defaults of the schema, the matching
  of error texts.
- `RemoveEtcdMember` and `ParseProviderID`, which nothing calls.
- OVHMachinePool (a type without a controller), the dashboard extension,
  packaging and scripts.

## Plan

1. Done: `OVHMachine`, `OVHCluster`, their runs and the first three theorems.
2. Done: `ManagedResources` and its refinement by both controllers;
   `ApiVersions`; `WorkloadNode`; adoption of a floating IP.
3. Done: the proofs above.
4. Left: `NothingLeft` for a cluster with a floating IP, under the condition that
   the load balancer is not PENDING_DELETE when its floating IP is deleted;
   `NothingLeft` and `ImplementsContract` of the cluster through API errors, which
   the runs leave out as well; both controllers on one load balancer, with the life
   of pool members.
