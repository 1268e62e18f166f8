----------------------------- MODULE OVHMachine -----------------------------
(***************************************************************************)
(* The OVHMachine controller                                               *)
(* (internal/controller/ovhmachine_controller.go) against the Kubernetes   *)
(* API server, the informer cache it reads from and the OVH compute and    *)
(* load-balancer API.                                                      *)
(*                                                                         *)
(* One reconcile worker runs (controller-runtime's default).  A reconcile  *)
(* reads the object from the CACHE, works on an in-memory copy, makes one  *)
(* OVH call per step, and ends in the deferred patch, which writes to the  *)
(* API server the fields that differ from the copy taken at the start:     *)
(* first metadata and spec, then status.  Crashes, stale reads, failed     *)
(* calls, lost replies and failed patches are faults, drawn from           *)
(* FaultKinds and limited in number by MaxFaults.                          *)
(***************************************************************************)
EXTENDS Naturals, FiniteSets

CONSTANTS
    Machines,      \* OVHMachine objects
    Instances,     \* ids of OVH instances, those not created yet included
    Names,         \* instance names
    ControlPlane,  \* the machines with the control-plane label
    InstanceName,  \* [Machines -> Names]: GenerateRFC1035Name(cluster, machine)
    Existing,      \* instances that exist before the controller starts
    Adopt,         \* [Machines -> Existing or None]: Spec.ExistingInstanceID
    MaxRetries,    \* maxRetries of pkg/ovh/client.go
    FaultKinds,    \* the kinds of fault that may happen ("stale" is not counted)
    MaxFaults,     \* how many faults may happen
    None           \* the empty string of an id field

AllFaultKinds ==
    {"crash", "stale", "api", "lost", "lostPost", "patch", "pause", "vanish",
     "flap", "error", "pool"}

ASSUME ConstantsAssumption ==
    /\ None \notin Machines /\ None \notin Instances /\ None \notin Names
    /\ ControlPlane \subseteq Machines
    /\ InstanceName \in [Machines -> Names]
    /\ Existing \subseteq Instances
    /\ Adopt \in [Machines -> Existing \union {None}]
    /\ MaxRetries \in Nat /\ MaxFaults \in Nat
    /\ FaultKinds \subseteq AllFaultKinds

VARIABLES
    obj,         \* [Machines -> CR]: the objects in the API server
    cache,       \* [Machines -> CR]: the informer cache
    queue,       \* the work queue: machines to reconcile now or after a delay
    pc,          \* where the worker is
    cur,         \* the machine it reconciles
    base,        \* the patch helper's copy of what was read
    mem,         \* the object the reconcile works on
    again,       \* the result asks for another run (RequeueAfter or an error)
    att,         \* attempt number of the CreateInstance call
    inst,        \* [Instances -> status and name]: the OVH project
    apiPool,     \* instances with a member in the port-6443 pool
    regPool,     \* instances with a member in the port-9345 pool
    stage,       \* [Machines -> Stages]: what CAPI did for the owner Machine
    infraReady,  \* Cluster.Status.InfrastructureReady
    paused,      \* annotations.IsPaused for the cluster
    pools,       \* the load-balancer pools that exist
    faults,      \* faults so far
    seen,        \* history: instance ids that reconciles have read, per machine
    kept         \* history: machines deleted with the keep annotation on

workerVars == <<pc, cur, base, mem, again, att>>
cloudVars  == <<inst, apiPool, regPool>>
envVars    == <<stage, infraReady, paused, pools>>
histVars   == <<seen, kept>>
vars == <<obj, cache, queue, workerVars, cloudVars, envVars, faults, histVars>>

Ids == Instances \union {None}

\* ex: present; del: deletionTimestamp; keep: adoption-policy annotation; fin:
\* finalizer; prov: Spec.ProviderID; the rest is Status.  A deleted object is
\* kept with ex = FALSE, so that what it last said can be named.
CR == [ex : BOOLEAN, del : BOOLEAN, keep : BOOLEAN, fin : BOOLEAN, prov : Ids,
       inst : Ids, ready : BOOLEAN, failed : BOOLEAN, lb : Ids, reg : Ids]

NewCR == [ex |-> TRUE, del |-> FALSE, keep |-> FALSE, fin |-> FALSE,
          prov |-> None, inst |-> None, ready |-> FALSE, failed |-> FALSE,
          lb |-> None, reg |-> None]

NoCR == [NewCR EXCEPT !.ex = FALSE]

\* "none": never created; OTHER stands for REBOOT, STOPPED and the like;
\* DELETING for whatever a terminating instance reports; "gone" answers 404.
Statuses == {"none", "BUILD", "ACTIVE", "ERROR", "OTHER", "DELETING", "DELETED",
             "gone"}
Stages   == {"orphan", "owned", "bootstrapped"}
Pools    == {"api", "register"}
PCs      == {"idle", "get", "adopt", "find", "resolve", "post", "member",
             "register", "deregister", "delete", "verify", "patch", "patchStatus"}

Present(i) == inst[i].st \notin {"none", "gone"}  \* GetInstance does not answer 404
Doomed(i)  == inst[i].st \in {"DELETING", "DELETED", "gone"}

-----------------------------------------------------------------------------

\* The objects are there and queued, nothing is done yet; instances that exist
\* already carry no machine's name.
Init ==
    /\ obj = [m \in Machines |-> NewCR]
    /\ cache = [m \in Machines |-> NewCR]
    /\ queue = Machines
    /\ pc = "idle" /\ cur = None /\ base = NoCR /\ mem = NoCR
    /\ again = FALSE /\ att = 0
    /\ inst = [i \in Instances |->
                 [st |-> IF i \in Existing THEN "ACTIVE" ELSE "none", name |-> None]]
    /\ apiPool = {} /\ regPool = {}
    /\ stage = [m \in Machines |-> "orphan"]
    /\ infraReady = FALSE /\ paused = FALSE /\ pools = Pools
    /\ faults = 0
    /\ seen = [m \in Machines |-> {}] /\ kept = {}

Fault(k) == k \in FaultKinds /\ faults < MaxFaults /\ faults' = faults + 1

\* The reconcile returns: the deferred patch comes next.
Return(requeue) == pc' = "patch" /\ again' = requeue

-----------------------------------------------------------------------------
(* Reconcile and the local part of ReconcileNormal and ReconcileDelete: no  *)
(* OVH call is made before the step after this one.                         *)

Begin(m, copy) ==
    /\ pc = "idle" /\ m \in queue
    /\ cache[m] = obj[m] \/ "stale" \in FaultKinds
    /\ cache[m].ex
    /\ queue' = queue \ {m}
    /\ cur' = m /\ base' = cache[m] /\ mem' = copy
    /\ att' = 0
    /\ seen' = [seen EXCEPT ![m] = @ \union ({cache[m].inst} \ {None})]
    /\ UNCHANGED <<obj, cache, cloudVars, envVars, kept>>

ReconcileNotFound(m) ==
    /\ pc = "idle" /\ m \in queue /\ ~cache[m].ex
    /\ queue' = queue \ {m}
    /\ UNCHANGED <<obj, cache, workerVars, cloudVars, envVars, faults, histVars>>

\* No owner Machine yet: requeue.
WaitOwner(m) ==
    /\ Begin(m, cache[m]) /\ stage[m] = "orphan"
    /\ Return(TRUE) /\ UNCHANGED faults

\* Reading the owner, the Cluster or the OVHCluster, or building the OVH
\* client, fails.
ReadFails(m) ==
    /\ Begin(m, cache[m]) /\ stage[m] # "orphan"
    /\ Fault("api") /\ Return(TRUE)

\* Mutant of ReconcileNormalPaused: a paused machine gives up its finalizer.
ReconcileNormalPausedLetsGo(m) ==
    /\ Begin(m, [cache[m] EXCEPT !.ready = FALSE, !.fin = FALSE])
    /\ stage[m] # "orphan" /\ ~cache[m].del /\ paused
    /\ Return(FALSE) /\ UNCHANGED faults

ReconcileNormalPaused(m) ==
    /\ Begin(m, [cache[m] EXCEPT !.ready = FALSE])
    /\ stage[m] # "orphan" /\ ~cache[m].del /\ paused
    /\ Return(FALSE) /\ UNCHANGED faults

\* Mutant of AddFinalizer: the handler goes on instead of returning.
AddFinalizerAndGoOn(m) ==
    /\ Begin(m, [cache[m] EXCEPT !.fin = TRUE, !.ready = FALSE])
    /\ ~cache[m].del /\ ~paused /\ ~cache[m].fin
    /\ infraReady /\ stage[m] = "bootstrapped"
    /\ pc' = "find" /\ again' = FALSE /\ UNCHANGED faults

\* The finalizer is written before anything is created: the handler returns.
AddFinalizer(m) ==
    /\ Begin(m, [cache[m] EXCEPT !.fin = TRUE, !.ready = FALSE])
    /\ stage[m] # "orphan" /\ ~cache[m].del /\ ~paused /\ ~cache[m].fin
    /\ Return(FALSE) /\ UNCHANGED faults

WaitInfraOrBootstrap(m) ==
    /\ Begin(m, cache[m])
    /\ stage[m] # "orphan" /\ ~cache[m].del /\ ~paused /\ cache[m].fin
    /\ ~infraReady \/ stage[m] = "owned"
    /\ Return(TRUE) /\ UNCHANGED faults

\* Mutant of AdoptOrFind: creates without the search by name.
AdoptOrCreate(m) == IF Adopt[m] # None THEN "adopt" ELSE "resolve"

\* Where ReconcileNormal looks for an instance once it has no live recorded one.
AdoptOrFind(m) == IF Adopt[m] # None THEN "adopt" ELSE "find"

Locate(m) ==
    /\ Begin(m, cache[m])
    /\ ~cache[m].del /\ ~paused /\ cache[m].fin
    /\ infraReady /\ stage[m] = "bootstrapped"
    /\ pc' = IF cache[m].inst # None THEN "get" ELSE AdoptOrFind(m)
    /\ again' = FALSE /\ UNCHANGED faults

\* The pause is not looked at on deletion.
ReconcileDeleteKeep(m) ==
    /\ Begin(m, [cache[m] EXCEPT !.fin = FALSE])
    /\ stage[m] # "orphan" /\ cache[m].del /\ cache[m].keep
    /\ Return(FALSE) /\ UNCHANGED faults

\* Mutant of ReconcileDelete: the annotation is not read.
ReconcileDeleteAlways(m) ==
    /\ Begin(m, cache[m])
    /\ stage[m] # "orphan" /\ cache[m].del
    /\ pc' = "deregister" /\ again' = FALSE /\ UNCHANGED faults

ReconcileDelete(m) ==
    /\ Begin(m, cache[m])
    /\ stage[m] # "orphan" /\ cache[m].del /\ ~cache[m].keep
    /\ pc' = "deregister" /\ again' = FALSE /\ UNCHANGED faults

-----------------------------------------------------------------------------
(* ReconcileNormal: one OVH call per step.                                  *)

inReconcile == UNCHANGED <<obj, cache, queue, cur, base, envVars, histVars>>

\* OVH has no instance left for the project: Instances bounds the quota.
QuotaUsedUp == \A i \in Instances : inst[i].st # "none"

\* A call of ReconcileNormal or createInstance fails for good (retries used up, or
\* a permanent error) and the handler returns the error; what the call had set in memory stays.
CallFails ==
    /\ pc \in {"get", "adopt", "find", "resolve", "post"}
    /\ \/ Fault("api")
       \/ pc = "post" /\ QuotaUsedUp /\ UNCHANGED faults
    /\ Return(TRUE)
    /\ inReconcile /\ UNCHANGED <<mem, att, cloudVars>>

HandleExistingInstance(i) ==
    /\ CASE inst[i].st = "ACTIVE" ->
              /\ mem' = [mem EXCEPT !.inst = i, !.prov = i, !.ready = TRUE]
              /\ pc' = IF cur \in ControlPlane THEN "member" ELSE "patch"
              /\ again' = FALSE
         [] inst[i].st = "ERROR" ->
              /\ mem' = [mem EXCEPT !.inst = i, !.ready = FALSE, !.failed = TRUE]
              /\ Return(FALSE)
         [] OTHER ->
              /\ mem' = [mem EXCEPT !.inst = i, !.ready = FALSE]
              /\ Return(TRUE)
    /\ inReconcile /\ UNCHANGED <<att, cloudVars, faults>>

\* GetInstance on the recorded id; a 404 forgets it.
GetKnownInstance ==
    /\ pc = "get"
    /\ \/ Present(mem.inst) /\ HandleExistingInstance(mem.inst)
       \/ /\ ~Present(mem.inst)
          /\ mem' = [mem EXCEPT !.inst = None] /\ pc' = AdoptOrFind(cur)
          /\ inReconcile /\ UNCHANGED <<again, att, cloudVars, faults>>

\* GetInstance on Spec.ExistingInstanceID; a 404 is an error here.
AdoptInstance ==
    /\ pc = "adopt"
    /\ \/ Present(Adopt[cur]) /\ HandleExistingInstance(Adopt[cur])
       \/ /\ ~Present(Adopt[cur]) /\ Return(TRUE)
          /\ inReconcile /\ UNCHANGED <<mem, att, cloudVars, faults>>

\* Mutant of Named: any instance of the list will do.
AnyPresent(n) == {i \in Instances : Present(i)}

Named(n) == {i \in Instances : Present(i) /\ inst[i].name = n}

\* The first of the listed instances with the name; the list has no order.
FindInstanceByName ==
    /\ pc = "find"
    /\ \/ \E i \in Named(InstanceName[cur]) : HandleExistingInstance(i)
       \/ /\ Named(InstanceName[cur]) = {} /\ pc' = "resolve"
          /\ inReconcile /\ UNCHANGED <<mem, again, att, cloudVars, faults>>

\* Flavor, image, bootstrap secret, SSH key: reads that succeed or fail.
ResolveCreateOptions ==
    /\ pc = "resolve" /\ pc' = "post"
    /\ inReconcile /\ UNCHANGED <<mem, again, att, cloudVars, faults>>

\* OVH accepts the POST: a new instance in BUILD.
Spawn(i) ==
    /\ inst[i].st = "none"
    /\ inst' = [inst EXCEPT ![i] = [st |-> "BUILD", name |-> InstanceName[cur]]]

\* Mutant of CreateInstance: the id is not stored in the status.
CreateInstanceUnrecorded ==
    /\ pc = "post"
    /\ \E i \in Instances : Spawn(i)
    /\ Return(TRUE)
    /\ inReconcile /\ UNCHANGED <<mem, att, apiPool, regPool, faults>>

CreateInstance ==
    /\ pc = "post"
    /\ \E i \in Instances : Spawn(i) /\ mem' = [mem EXCEPT !.inst = i]
    /\ Return(TRUE)
    /\ inReconcile /\ UNCHANGED <<att, apiPool, regPool, faults>>

\* Mutant of RetryPost: one attempt too many.
RetryPostOnceMore ==
    /\ IF att <= MaxRetries
         THEN att' = att + 1 /\ UNCHANGED <<pc, again>>
         ELSE Return(TRUE) /\ UNCHANGED att
    /\ inReconcile /\ UNCHANGED <<mem, apiPool, regPool>>

\* retryWithBackoff: another attempt, or the error once maxRetries are used.
RetryPost ==
    /\ IF att < MaxRetries
         THEN att' = att + 1 /\ UNCHANGED <<pc, again>>
         ELSE Return(TRUE) /\ UNCHANGED att
    /\ inReconcile /\ UNCHANGED <<mem, apiPool, regPool>>

\* A transient error; "lostPost": the request had been carried out.
CreateInstanceRetried ==
    /\ pc = "post"
    /\ \/ Fault("api") /\ UNCHANGED inst
       \/ Fault("lostPost") /\ \E i \in Instances : Spawn(i)
    /\ RetryPost

-----------------------------------------------------------------------------
(* ensureLBPoolMember and ensureRKE2RegisterPoolMember, best effort.  A     *)
(* member's id and address are those of its instance.                       *)

\* The pool is not there yet, the instance has no private address, or the
\* list and the add fail: a warning, and the reconcile goes on to its end.
\* "lost": the add was carried out.
MemberSkipped ==
    /\ pc = "member"
    /\ \/ "api" \notin pools /\ UNCHANGED <<apiPool, faults>>
       \/ Fault("api") /\ UNCHANGED apiPool
       \/ "api" \in pools /\ Fault("lost") /\ apiPool' = apiPool \union {mem.inst}
    /\ pc' = "patch"
    /\ inReconcile /\ UNCHANGED <<mem, again, att, inst, regPool>>

\* Mutant of EnsureLBPoolMember: trusts the recorded member id.
EnsureLBPoolMemberOnce ==
    /\ pc = "member" /\ "api" \in pools
    /\ apiPool' = IF mem.lb = None THEN apiPool \union {mem.inst} ELSE apiPool
    /\ mem' = [mem EXCEPT !.lb = mem.inst]
    /\ pc' = "register"
    /\ inReconcile /\ UNCHANGED <<again, att, inst, regPool, faults>>

\* Lists the members first, so that an existing one is recorded, not added.
EnsureLBPoolMember ==
    /\ pc = "member" /\ "api" \in pools
    /\ apiPool' = apiPool \union {mem.inst}
    /\ mem' = [mem EXCEPT !.lb = mem.inst]
    /\ pc' = "register"
    /\ inReconcile /\ UNCHANGED <<again, att, inst, regPool, faults>>

RegisterSkipped ==
    /\ pc = "register"
    /\ \/ "register" \notin pools /\ UNCHANGED <<regPool, faults>>
       \/ Fault("api") /\ UNCHANGED regPool
       \/ "register" \in pools /\ Fault("lost")
             /\ regPool' = regPool \union {mem.inst}
    /\ pc' = "patch"
    /\ inReconcile /\ UNCHANGED <<mem, again, att, inst, apiPool>>

EnsureRKE2RegisterPoolMember ==
    /\ pc = "register" /\ "register" \in pools
    /\ regPool' = regPool \union {mem.inst}
    /\ mem' = [mem EXCEPT !.reg = mem.inst]
    /\ pc' = "patch"
    /\ inReconcile /\ UNCHANGED <<again, att, inst, apiPool, faults>>

-----------------------------------------------------------------------------
(* ReconcileDelete.                                                         *)

\* Mutant of RemoveLBPoolMember: the member is left to the pool's owner.
RemoveLBPoolMemberSkipped ==
    /\ pc = "deregister" /\ pc' = "delete"
    /\ mem' = [mem EXCEPT !.lb = None]
    /\ inReconcile /\ UNCHANGED <<again, att, inst, apiPool, regPool, faults>>

\* Best effort: a failure leaves the member and its recorded id; "lost": only the id.
RemoveLBPoolMember ==
    /\ pc = "deregister" /\ pc' = "delete"
    /\ \/ /\ mem.lb = None \/ "api" \notin pools
          /\ UNCHANGED <<mem, apiPool, faults>>
       \/ /\ mem.lb # None /\ "api" \in pools
          /\ apiPool' = apiPool \ {mem.lb}
          /\ mem' = [mem EXCEPT !.lb = None] /\ UNCHANGED faults
       \/ /\ mem.lb # None /\ "api" \in pools
          /\ \/ Fault("api") /\ UNCHANGED apiPool
             \/ Fault("lost") /\ apiPool' = apiPool \ {mem.lb}
          /\ UNCHANGED mem
    /\ inReconcile /\ UNCHANGED <<again, att, inst, regPool>>

Terminate(i) ==
    inst' = IF Doomed(i) THEN inst ELSE [inst EXCEPT ![i].st = "DELETING"]

RemoveFinalizer == mem' = [mem EXCEPT !.fin = FALSE] /\ Return(FALSE)

NothingToDelete ==
    /\ pc = "delete" /\ mem.inst = None
    /\ RemoveFinalizer
    /\ inReconcile /\ UNCHANGED <<att, cloudVars, faults>>

\* Mutant of DeleteInstance: a 404 is an error.
DeleteInstanceMustExist ==
    /\ pc = "delete" /\ mem.inst # None
    /\ IF Present(mem.inst) THEN pc' = "verify" /\ UNCHANGED again ELSE Return(TRUE)
    /\ Terminate(mem.inst)
    /\ inReconcile /\ UNCHANGED <<mem, att, apiPool, regPool, faults>>

\* A 404 counts as success.
DeleteInstance ==
    /\ pc = "delete" /\ mem.inst # None
    /\ Terminate(mem.inst) /\ pc' = "verify"
    /\ inReconcile /\ UNCHANGED <<mem, again, att, apiPool, regPool, faults>>

\* Mutant of DeleteInstanceFails: the error is logged and ignored.
DeleteInstanceBestEffort ==
    /\ pc = "delete" /\ mem.inst # None
    /\ Fault("api") /\ RemoveFinalizer
    /\ inReconcile /\ UNCHANGED <<att, cloudVars>>

\* The call ends in an error; "lost": it was carried out nevertheless.
DeleteInstanceFails ==
    /\ pc = "delete" /\ mem.inst # None
    /\ \/ Fault("api") /\ UNCHANGED inst
       \/ Fault("lost") /\ Terminate(mem.inst)
    /\ Return(TRUE)
    /\ inReconcile /\ UNCHANGED <<mem, att, apiPool, regPool>>

\* Mutant of StillTerminating: returns without a requeue.
StillTerminatingDropped ==
    /\ pc = "verify"
    /\ Present(mem.inst) /\ inst[mem.inst].st # "DELETED"
    /\ Return(FALSE)
    /\ inReconcile /\ UNCHANGED <<mem, att, cloudVars, faults>>

StillTerminating ==
    /\ pc = "verify"
    /\ Present(mem.inst) /\ inst[mem.inst].st # "DELETED"
    /\ Return(TRUE)
    /\ inReconcile /\ UNCHANGED <<mem, att, cloudVars, faults>>

\* Any error of GetInstance, not only a 404, counts as "gone".
VerifyGone ==
    /\ pc = "verify"
    /\ \/ /\ ~Present(mem.inst) \/ inst[mem.inst].st = "DELETED"
          /\ UNCHANGED faults
       \/ Fault("api")
    /\ RemoveFinalizer
    /\ inReconcile /\ UNCHANGED <<att, cloudVars>>

-----------------------------------------------------------------------------
(* The deferred patch: merge patches of the fields the reconcile changed.   *)

inPatch == UNCHANGED <<cache, cloudVars, envVars, histVars>>

Merged(f) == IF mem[f] # base[f] THEN mem[f] ELSE obj[cur][f]

ObjectDirty == mem.fin # base.fin \/ mem.prov # base.prov
StatusDirty == \E f \in {"inst", "ready", "failed", "lb", "reg"} : mem[f] # base[f]

\* Metadata and spec.  Removing the last finalizer of an object that is being
\* deleted removes the object.
PatchObject ==
    /\ pc = "patch" /\ pc' = "patchStatus"
    /\ \/ /\ ~ObjectDirty /\ UNCHANGED <<obj, again, faults>>
       \/ /\ ObjectDirty /\ obj[cur].ex
          /\ obj' = [obj EXCEPT ![cur].fin = Merged("fin"),
                                ![cur].prov = Merged("prov"),
                                ![cur].ex = ~obj[cur].del \/ Merged("fin")]
          /\ UNCHANGED <<again, faults>>
       \/ /\ ObjectDirty /\ ~obj[cur].ex /\ again' = TRUE
          /\ UNCHANGED <<obj, faults>>
       \/ /\ ObjectDirty /\ Fault("patch") /\ again' = TRUE
          /\ UNCHANGED obj
    /\ inPatch /\ UNCHANGED <<queue, cur, base, mem, att>>

\* The worker is free again; the machine is queued when the result or a
\* failed patch asks for it.
Done(requeue) ==
    /\ pc' = "idle" /\ cur' = None /\ base' = NoCR /\ mem' = NoCR
    /\ again' = FALSE /\ att' = 0
    /\ queue' = IF requeue THEN queue \union {cur} ELSE queue

PatchStatus ==
    /\ pc = "patchStatus"
    /\ \/ /\ ~StatusDirty /\ Done(again) /\ UNCHANGED <<obj, faults>>
       \/ /\ StatusDirty /\ obj[cur].ex /\ Done(again)
          /\ obj' = [obj EXCEPT ![cur].inst = Merged("inst"),
                                ![cur].ready = Merged("ready"),
                                ![cur].failed = Merged("failed"),
                                ![cur].lb = Merged("lb"),
                                ![cur].reg = Merged("reg")]
          /\ UNCHANGED faults
       \* NotFound is fine for an object whose finalizer was just removed
       \/ /\ StatusDirty /\ ~obj[cur].ex /\ Done(again \/ ~mem.del \/ mem.fin)
          /\ UNCHANGED <<obj, faults>>
       \/ /\ StatusDirty /\ Fault("patch") /\ Done(TRUE) /\ UNCHANGED obj
    /\ inPatch

-----------------------------------------------------------------------------
(* The environment.                                                         *)

\* The watch delivers the latest version and its event.
CacheSync(m) ==
    /\ cache[m] # obj[m]
    /\ cache' = [cache EXCEPT ![m] = obj[m]]
    /\ queue' = queue \union {m}
    /\ UNCHANGED <<obj, workerVars, cloudVars, envVars, faults, histVars>>

\* The process stops and the next one lists all objects.
Crash ==
    /\ Fault("crash")
    /\ pc' = "idle" /\ cur' = None /\ base' = NoCR /\ mem' = NoCR
    /\ again' = FALSE /\ att' = 0
    /\ cache' = obj
    /\ queue' = {m \in Machines : obj[m].ex}
    /\ UNCHANGED <<obj, cloudVars, envVars, histVars>>

\* The informer's periodic resync.
Resync ==
    /\ queue' = {m \in Machines : cache[m].ex} \union queue
    /\ queue' # queue
    /\ UNCHANGED <<obj, cache, workerVars, cloudVars, envVars, faults, histVars>>

kubeEnv == UNCHANGED <<cache, workerVars, cloudVars, seen>>

UserDelete(m) ==
    /\ obj[m].ex /\ ~obj[m].del
    /\ obj' = [obj EXCEPT ![m].del = TRUE, ![m].ex = obj[m].fin]
    /\ kept' = IF obj[m].keep THEN kept \union {m} ELSE kept
    /\ kubeEnv /\ UNCHANGED <<queue, envVars, faults>>

UserKeep(m) ==
    /\ obj[m].ex /\ ~obj[m].keep
    /\ obj' = [obj EXCEPT ![m].keep = TRUE]
    /\ kubeEnv /\ UNCHANGED <<queue, envVars, faults, kept>>

\* CAPI sets the owner reference, then the bootstrap data: a Machine event.
StageProgress(m) ==
    /\ stage[m] # "bootstrapped"
    /\ stage' = [stage EXCEPT ![m] = IF @ = "orphan" THEN "owned" ELSE "bootstrapped"]
    /\ queue' = queue \union {m}
    /\ kubeEnv /\ UNCHANGED <<obj, infraReady, paused, pools, faults, kept>>

InfraBecomesReady ==
    /\ ~infraReady /\ infraReady' = TRUE
    /\ kubeEnv /\ UNCHANGED <<obj, queue, stage, paused, pools, faults, kept>>

Pause ==
    /\ ~paused /\ Fault("pause") /\ paused' = TRUE
    /\ kubeEnv /\ UNCHANGED <<obj, queue, stage, infraReady, pools, kept>>

\* predicates.ClusterUnpaused: an event for every machine of the cluster.
Unpause ==
    /\ paused /\ paused' = FALSE
    /\ queue' = queue \union {m \in Machines : cache[m].ex}
    /\ kubeEnv /\ UNCHANGED <<obj, stage, infraReady, pools, faults, kept>>

\* The OVHCluster controller deletes or rebuilds a pool.
PoolChange ==
    /\ \/ /\ Fault("pool")
          /\ \E p \in pools : pools' = pools \ {p}
       \/ /\ pools # Pools /\ pools' = Pools /\ UNCHANGED faults
    /\ apiPool' = IF "api" \in pools' /\ "api" \in pools THEN apiPool ELSE {}
    /\ regPool' = IF "register" \in pools' /\ "register" \in pools THEN regPool ELSE {}
    /\ UNCHANGED <<obj, cache, queue, workerVars, inst, stage, infraReady, paused,
                   histVars>>

cloudEnv ==
    UNCHANGED <<obj, cache, queue, workerVars, apiPool, regPool, envVars, seen, kept>>

InstanceChange(i, from, to) ==
    /\ inst[i].st \in from
    /\ inst' = [inst EXCEPT ![i].st = to]
    /\ cloudEnv

\* What OVH does in its own time.
CloudProgress(i) ==
    /\ \/ InstanceChange(i, {"BUILD", "OTHER"}, "ACTIVE")
       \/ InstanceChange(i, {"DELETING"}, "DELETED")
       \/ InstanceChange(i, {"DELETING", "DELETED"}, "gone")
    /\ UNCHANGED faults

\* The build fails; the instance is stopped or rebooted; somebody deletes it.
CloudFault(i) ==
    \/ Fault("error") /\ InstanceChange(i, {"BUILD"}, "ERROR")
    \/ Fault("flap") /\ InstanceChange(i, {"ACTIVE"}, "OTHER")
    \/ Fault("vanish") /\ InstanceChange(i, {"BUILD", "ACTIVE", "ERROR", "OTHER"}, "gone")

-----------------------------------------------------------------------------

Start(m) ==
    \/ ReconcileNotFound(m) \/ WaitOwner(m) \/ ReconcileNormalPaused(m)
    \/ AddFinalizer(m) \/ WaitInfraOrBootstrap(m) \/ Locate(m)
    \/ ReconcileDeleteKeep(m) \/ ReconcileDelete(m)

\* The steps of the running reconcile; at least one of them makes progress
\* without a fault.
Proceed ==
    \/ GetKnownInstance \/ AdoptInstance \/ FindInstanceByName
    \/ ResolveCreateOptions \/ CreateInstance
    \/ EnsureLBPoolMember \/ MemberSkipped
    \/ EnsureRKE2RegisterPoolMember \/ RegisterSkipped
    \/ RemoveLBPoolMember \/ NothingToDelete \/ DeleteInstance
    \/ DeleteInstanceFails \/ StillTerminating \/ VerifyGone
    \/ PatchObject \/ PatchStatus
    \/ CallFails \/ CreateInstanceRetried

Next ==
    \/ \E m \in Machines :
         \/ Start(m) \/ ReadFails(m) \/ CacheSync(m)
         \/ UserDelete(m) \/ UserKeep(m) \/ StageProgress(m)
    \/ Proceed
    \/ \E i \in Instances : CloudProgress(i) \/ CloudFault(i)
    \/ Crash \/ Resync \/ InfraBecomesReady \/ Pause \/ Unpause \/ PoolChange

Spec == Init /\ [][Next]_vars

-----------------------------------------------------------------------------
(* What the controller has to get right.                                    *)

\* Every variable has its type; the CreateInstance call is attempted at most
\* maxRetries times more than once (retryWithBackoff).
TypeOK ==
    /\ obj \in [Machines -> CR] /\ cache \in [Machines -> CR]
    /\ queue \subseteq Machines
    /\ pc \in PCs /\ cur \in Machines \union {None}
    /\ pc # "idle" => cur \in Machines
    /\ base \in CR /\ mem \in CR /\ again \in BOOLEAN /\ att \in 0 .. MaxRetries
    /\ inst \in [Instances -> [st : Statuses, name : Names \union {None}]]
    /\ apiPool \subseteq Instances /\ regPool \subseteq Instances
    /\ stage \in [Machines -> Stages] /\ infraReady \in BOOLEAN
    /\ paused \in BOOLEAN /\ pools \subseteq Pools /\ faults \in 0 .. MaxFaults
    /\ seen \in [Machines -> SUBSET Instances] /\ kept \subseteq Machines

\* A CreateInstance request is sent only while the API server holds the object
\* with its finalizer, whatever the cache said when the reconcile began: there
\* is always an object whose deletion will come past ReconcileDelete.
CreateUnderFinalizer == pc = "post" => obj[cur].ex /\ obj[cur].fin

\* Two OVHMachines come to manage the same instance only if both are told to adopt
\* it, or if neither is and GenerateRFC1035Name, which cuts names at 63 characters,
\* gives both the same name: FindInstanceByName and the ids in the status never
\* lead to the instance of any other machine.
ManagersAlike ==
    \A m, n \in Machines :
        m # n /\ obj[m].inst # None /\ obj[m].inst = obj[n].inst =>
            \/ Adopt[m] = obj[m].inst /\ Adopt[n] = obj[n].inst
            \/ /\ Adopt[m] = None /\ Adopt[n] = None
               /\ InstanceName[m] = InstanceName[n]

\* What a step that begins to terminate an instance needs.
TerminatesOwn ==
    \A i \in Instances :
        ~Doomed(i) /\ inst'[i].st = "DELETING" =>
            /\ obj[cur].del /\ cur \notin kept
            /\ inst[i].name = InstanceName[cur] \/ Adopt[cur] = i

\* The controller deletes an instance only for an object whose deletion the user
\* asked for without the keep annotation on it, and only the instance of that
\* machine.
TerminationJustified == [][TerminatesOwn]_vars

\* When the object disappears, every instance that a reconcile has ever read in
\* its status is deleted or terminating (ReconcileDelete's finalizer), unless
\* the user asked to keep it.
SeenInstancesDeleted ==
    [][\A m \in Machines :
         obj[m].ex /\ ~obj'[m].ex /\ ~obj[m].keep =>
             \A i \in seen[m] : Doomed(i)]_vars

\* As long as no call has failed, the controller terminates an instance only
\* after it has taken it out of the API server's pool (removeLBPoolMember comes
\* first in ReconcileDelete), so that no request is sent to a dying node.
DrainedBeforeTermination ==
    [][\A i \in Instances :
         ~Doomed(i) /\ inst'[i].st = "DELETING" => i \notin apiPool \/ faults > 0]_vars

\* At most one instance answers to a machine's name: ReconcileNormal looks it up
\* by id and by name before it creates.
NoDuplicateInstance ==
    \A m \in Machines : \A i, j \in Named(InstanceName[m]) : i = j

\* The machines that may have created instance i; a machine that adopts creates none.
CreatorsOf(i) == {m \in Machines : Adopt[m] = None /\ inst[i].name = InstanceName[m]}

\* Once the object for which an instance was created is gone, and every other
\* object with the same instance name, ReconcileDelete has seen to it that the
\* instance does not go on running, unless one of them was deleted with keep.
NoLeak ==
    \A i \in Instances :
        /\ CreatorsOf(i) # {}
        /\ \A m \in CreatorsOf(i) : ~obj[m].ex /\ ~obj[m].keep
        => Doomed(i)

\* A machine the controller has forgotten about: not queued, no event on its
\* way, no reconcile running.
Forgotten(m) ==
    pc = "idle" /\ m \notin queue /\ cache[m] = obj[m] /\ obj[m].ex

\* The controller never drops a machine with work left: one that waits for
\* nobody's event is finished (Ready or failed) and not being deleted.
UnfinishedIsQueued ==
    \A m \in Machines :
        Forgotten(m) => ~obj[m].del /\ (paused \/ obj[m].ready \/ obj[m].failed)

\* Fairness: the worker goes on, the work queue is first in first out, the
\* watch and the resync deliver, OVH finishes what it started, CAPI goes on.
Fairness ==
    /\ WF_vars(Proceed) /\ \A m \in Machines : SF_vars(Start(m))
    /\ \A m \in Machines : WF_vars(CacheSync(m)) /\ WF_vars(StageProgress(m))
    /\ WF_vars(Resync) /\ WF_vars(InfraBecomesReady) /\ WF_vars(Unpause)
    /\ WF_vars(PoolChange /\ pools' = Pools)
    /\ \A i \in Instances : WF_vars(CloudProgress(i))

FairSpec == Spec /\ Fairness

\* A deletion that was asked for completes (ReconcileDelete).
DeletionCompletes == \A m \in Machines : obj[m].del ~> ~obj[m].ex

\* Once the faults are over, every object that stays has failed for good or is
\* Ready with an ACTIVE instance, which is in both pools if it is a
\* control-plane node.
Converges ==
    \A m \in Machines :
        <>[](obj[m].ex =>
               \/ obj[m].failed
               \/ /\ obj[m].ready /\ obj[m].inst # None
                  /\ inst[obj[m].inst].st = "ACTIVE"
                  /\ m \in ControlPlane => obj[m].inst \in apiPool \intersect regPool)

-----------------------------------------------------------------------------
(* OVHMachine implements ManagedResources: instances are the resources.     *)

LifeOf(m) ==
    IF ~obj[m].ex THEN (IF m \in kept THEN "left" ELSE "released")
    ELSE IF ~obj[m].fin THEN "new"
    ELSE IF ~obj[m].del THEN "held"
    ELSE IF m \in kept THEN "kept"
    ELSE IF obj[m].keep THEN "spared" ELSE "doomed"

FateOf(i) ==
    CASE inst[i].st = "none" -> "none"
      [] inst[i].st \in {"DELETING", "DELETED"} -> "ending"
      [] inst[i].st = "gone" -> "ended"
      [] OTHER -> "running"

TitleOf(i) == {m \in Machines : inst[i].name = InstanceName[m] \/ Adopt[m] = i}

Contract == INSTANCE ManagedResources WITH
    Objects <- Machines, Resources <- Instances,
    life <- [m \in Machines |-> LifeOf(m)], res <- [i \in Instances |-> FateOf(i)],
    title <- [i \in Instances |-> TitleOf(i)], known <- seen

\* The controller keeps the contract of ManagedResources: it creates under the
\* finalizer, terminates only what belongs to a deleted machine, and removes the
\* finalizer only once every instance it has read about is on its way out.
ImplementsContract == Contract!Spec

=============================================================================
