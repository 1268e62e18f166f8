--------------------- MODULE OVHMachineInstances_proofs ---------------------
(***************************************************************************)
(* Proofs about the instances of OVHMachines, for any number of machines,  *)
(* instances and faults: a machine's name is given once, machines that     *)
(* manage the same instance adopt it or have the same name, and an object  *)
(* goes only after the instances that its status has named.  Each theorem  *)
(* says which kinds of fault have to be absent for it.                     *)
(***************************************************************************)
EXTENDS OVHMachine_proofs

\* No two machines have the same instance name or are told to adopt the same
\* instance.  This is up to the users: GenerateRFC1035Name joins the names of the
\* cluster and the machine and cuts the result at 63 characters, so that machines
\* of a set, which differ in their last characters, have one name if theirs are long.
NamesDiffer ==
    /\ \A m, n \in Machines : InstanceName[m] = InstanceName[n] => m = n
    /\ \A m, n \in Machines : Adopt[m] = Adopt[n] /\ Adopt[m] # None => m = n

-----------------------------------------------------------------------------
(* What a step does to the instances and to the search for one.             *)

\* Instances that were there before have no machine's name.
ExistingInv == \A i \in Existing : inst[i].name = None /\ inst[i].st # "none"

BaseInv == TypeInv /\ OwnInv /\ ExistingInv

\* What a machine may record is there, or was.
LEMMA OwnExists ==
    ASSUME BaseInv, NEW m \in Machines, NEW i \in Instances, Own(m, i)
    PROVE  inst[i].st # "none"
BY ConstantsAssumption DEF BaseInv, OwnInv, ExistingInv, Own

Ended == {"DELETING", "DELETED", "gone"}

\* The step loses the answer of a CreateInstance; somebody deletes an instance.
LosesPost == "lostPost" \in FaultKinds /\ faults' # faults
Vanishes  == "vanish" \in FaultKinds /\ faults' # faults

\* The cloud moves an instance along; it is taken away by "vanish" only.
Moved ==
    \E i \in Instances, to \in Statuses \ {"none"} :
        /\ inst' = [inst EXCEPT ![i].st = to]
        /\ inst[i].st \notin {"none", "gone"}
        /\ inst[i].st \in Ended => to \in Ended
        /\ to \in Ended => inst[i].st \in Ended \/ (Vanishes /\ to = "gone")

Born ==
    /\ pc = "post" /\ cur \in Machines /\ cur' = cur
    /\ \E i \in Instances : Spawn(i)
    /\ ~LosesPost => pc' = "patch"

Ending ==
    /\ pc = "delete" /\ pc' \in {"verify", "patch"} /\ cur \in Machines
    /\ mem.inst \in Instances /\ inst[mem.inst].st # "none" /\ Terminate(mem.inst)

Fate ==
    \/ inst' = inst
    \/ Born
    \/ Ending
    \/ Moved /\ UNCHANGED <<pc, cur>>

LEMMA Fates == BaseInv /\ [Next]_vars => Fate
<1> SUFFICES ASSUME BaseInv, [Next]_vars PROVE Fate
  OBVIOUS
<1> USE DEF BaseInv, cloudVars
<1>1. CASE UNCHANGED vars
  BY <1>1 DEF vars, Fate
<1>2. ASSUME NEW m \in Machines,
             \/ Start(m) \/ ReadFails(m) \/ CacheSync(m)
             \/ UserDelete(m) \/ UserKeep(m) \/ StageProgress(m)
      PROVE  Fate
  BY <1>2 DEF Fate, Start, ReadFails, ReconcileNotFound, WaitOwner,
        ReconcileNormalPaused, AddFinalizer, WaitInfraOrBootstrap, Locate,
        ReconcileDeleteKeep, ReconcileDelete, Begin, CacheSync, UserDelete, UserKeep,
        StageProgress, kubeEnv
<1>3. CASE Proceed
  <2>1. CASE CreateInstance
    <3>1. pc = "post" /\ cur \in Machines /\ cur' = cur /\ pc' = "patch"
      BY <2>1 DEF CreateInstance, Return, inReconcile, TypeInv, TypeOK
    <3> QED
      BY <2>1, <3>1 DEF CreateInstance, Fate, Born
  <2>2. CASE CreateInstanceRetried
    <3>1. pc = "post" /\ cur \in Machines /\ cur' = cur
      BY <2>2 DEF CreateInstanceRetried, RetryPost, inReconcile, TypeInv, TypeOK
    <3>2. Fault("lostPost") => LosesPost
      BY ConstantsAssumption DEF Fault, LosesPost, TypeInv, TypeOK
    <3>3. inst' = inst \/ (LosesPost /\ \E i \in Instances : Spawn(i))
      BY <2>2, <3>2 DEF CreateInstanceRetried
    <3> QED
      BY <3>1, <3>3 DEF Fate, Born
  <2>3. CASE DeleteInstance \/ DeleteInstanceFails
    <3>1. pc = "delete" /\ cur \in Machines /\ mem.inst \in Instances
      BY <2>3 DEF DeleteInstance, DeleteInstanceFails, TypeInv, TypeOK, CR, Ids
    <3>2. Own(cur, mem.inst)
      BY <3>1, ConstantsAssumption DEF OwnInv
    <3>3. inst[mem.inst].st # "none"
      BY <3>1, <3>2, OwnExists
    <3> QED
      BY <2>3, <3>1, <3>3 DEF DeleteInstance, DeleteInstanceFails, Return, Fate, Ending
  <2>4. CASE PatchObject \/ PatchStatus
    BY <2>4 DEF Fate, PatchObject, PatchStatus, inPatch
  <2>5. CASE \/ GetKnownInstance \/ AdoptInstance \/ FindInstanceByName
             \/ ResolveCreateOptions \/ CallFails
    BY <2>5 DEF Fate, GetKnownInstance, AdoptInstance, FindInstanceByName,
                ResolveCreateOptions, CallFails, HandleExistingInstance
  <2>6. CASE \/ EnsureLBPoolMember \/ MemberSkipped \/ EnsureRKE2RegisterPoolMember
             \/ RegisterSkipped \/ RemoveLBPoolMember \/ NothingToDelete
             \/ StillTerminating \/ VerifyGone
    BY <2>6 DEF Fate, EnsureLBPoolMember, MemberSkipped,
                EnsureRKE2RegisterPoolMember, RegisterSkipped, RemoveLBPoolMember,
                NothingToDelete, StillTerminating, VerifyGone
  <2> QED
    BY <1>3, <2>1, <2>2, <2>3, <2>4, <2>5, <2>6 DEF Proceed
<1>4. CASE \E i \in Instances : CloudProgress(i) \/ CloudFault(i)
  <2>1. Fault("vanish") => Vanishes
    BY ConstantsAssumption DEF Fault, Vanishes, TypeInv, TypeOK
  <2>2. Moved
    BY <1>4, <2>1 DEF CloudProgress, CloudFault, InstanceChange, Moved, Statuses, Ended
  <2>3. UNCHANGED <<pc, cur>>
    BY <1>4 DEF CloudProgress, CloudFault, InstanceChange, cloudEnv, workerVars
  <2> QED
    BY <2>2, <2>3 DEF Fate
<1>5. CASE Crash \/ Resync \/ InfraBecomesReady \/ Pause \/ Unpause \/ PoolChange
  BY <1>5 DEF Fate, Crash, Resync, InfraBecomesReady, Pause, Unpause, PoolChange, kubeEnv
<1> QED
  BY <1>1, <1>2, <1>3, <1>4, <1>5 DEF Next

\* An instance of the next state is one of this state, under the same name, or
\* it was created just now; and what is on its way out stays so.
LEMMA FateKeeps ==
    ASSUME TypeInv, Fate, NEW i \in Instances
    PROVE  /\ \/ inst'[i].name = inst[i].name /\ (Present(i)' => Present(i))
              \/ Born /\ Spawn(i)
           /\ Doomed(i) => Doomed(i)'
           /\ inst[i].st # "none" => inst'[i].st # "none"
<1> USE DEF Present, Doomed, Ended
<1>1. inst \in [Instances -> [st : Statuses, name : Names \union {None}]]
  BY DEF TypeInv, TypeOK
<1>2. CASE inst' = inst
  BY <1>2
<1>3. CASE Born
  <2>1. PICK k \in Instances : Spawn(k)
    BY <1>3 DEF Born
  <2>2. CASE k = i
    BY <1>1, <1>3, <2>1, <2>2 DEF Spawn
  <2>3. CASE k # i
    <3>1. inst'[i] = inst[i]
      BY <1>1, <2>1, <2>3 DEF Spawn
    <3> QED
      BY <3>1
  <2> QED
    BY <2>2, <2>3
<1>4. CASE Ending
  BY <1>1, <1>4 DEF Ending, Terminate
<1>5. CASE Moved
  <2>1. PICK k \in Instances, to \in Statuses \ {"none"} :
            /\ inst' = [inst EXCEPT ![k].st = to]
            /\ inst[k].st \notin {"none", "gone"}
            /\ inst[k].st \in Ended => to \in Ended
    BY <1>5 DEF Moved
  <2>2. inst'[i].name = inst[i].name
    BY <1>1, <2>1
  <2>3. inst'[i].st = IF i = k THEN to ELSE inst[i].st
    BY <1>1, <2>1
  <2> QED
    BY <2>1, <2>2, <2>3
<1> QED
  BY <1>2, <1>3, <1>4, <1>5 DEF Fate

LEMMA ExistingInit == Init => ExistingInv
BY ConstantsAssumption DEF Init, ExistingInv

LEMMA ExistingStep == BaseInv /\ [Next]_vars => ExistingInv'
<1> SUFFICES ASSUME BaseInv, [Next]_vars, NEW i \in Existing
             PROVE  inst'[i].name = None /\ inst'[i].st # "none"
  BY DEF ExistingInv
<1> USE DEF BaseInv
<1>1. Fate /\ i \in Instances
  BY Fates, ConstantsAssumption
<1>2. ~Spawn(i)
  BY DEF ExistingInv, Spawn
<1> QED
  BY <1>1, <1>2, FateKeeps DEF ExistingInv

LEMMA BaseInit == Init => BaseInv
BY TypeInit, OwnInit, ExistingInit DEF BaseInv

LEMMA BaseStep == BaseInv /\ [Next]_vars => BaseInv'
BY TypeStep, OwnStep, ExistingStep DEF BaseInv

\* The way to a POST leads through the search by name, which found nothing, and
\* is open only to a machine that adopts no instance.
SearchPCs == {"find", "resolve", "post"}

Search ==
    pc' \in SearchPCs =>
        \/ pc' = "find" /\ Adopt[cur'] = None
        \/ /\ pc \in SearchPCs /\ cur' = cur
           /\ pc' \in {"resolve", "post"} =>
                \/ pc \in {"resolve", "post"}
                \/ inst' = inst /\ Named(InstanceName[cur]) = {}

LEMMA Searches == TypeInv /\ [Next]_vars => Search
<1> SUFFICES ASSUME TypeInv, [Next]_vars PROVE Search
  OBVIOUS
<1> USE DEF SearchPCs
<1>1. ASSUME UNCHANGED <<pc, cur>> PROVE Search
  BY <1>1 DEF Search
<1>2. ASSUME pc' \notin SearchPCs PROVE Search
  BY <1>2 DEF Search
<1>3. CASE UNCHANGED vars
  BY <1>1, <1>3 DEF vars, workerVars
<1>4. ASSUME NEW m \in Machines, Start(m) \/ ReadFails(m) PROVE Search
  <2>1. CASE Locate(m)
    BY <2>1 DEF Locate, Begin, AdoptOrFind, Search
  <2>2. CASE ReconcileNotFound(m)
    BY <1>1, <2>2 DEF ReconcileNotFound, workerVars
  <2>3. CASE ~Locate(m) /\ ~ReconcileNotFound(m)
    BY <1>2, <1>4, <2>3 DEF Start, ReadFails, WaitOwner, ReconcileNormalPaused,
        AddFinalizer, WaitInfraOrBootstrap, ReconcileDeleteKeep, ReconcileDelete, Return
  <2> QED
    BY <2>1, <2>2, <2>3
<1>5. ASSUME NEW m \in Machines,
             CacheSync(m) \/ UserDelete(m) \/ UserKeep(m) \/ StageProgress(m)
      PROVE  Search
  BY <1>1, <1>5 DEF CacheSync, UserDelete, UserKeep, StageProgress, kubeEnv, workerVars
<1>6. CASE Proceed
  <2>1. ASSUME NEW i \in Instances, HandleExistingInstance(i) PROVE Search
    <3>1. pc' \in {"member", "patch"}
      BY <2>1, HandleExistingInstanceKeeps DEF TypeInv, TypeOK
    <3> QED
      BY <1>2, <3>1
  <2>2. CASE GetKnownInstance
    <3>1. CASE HandleExistingInstance(mem.inst)
      BY <2>1, <2>2, <3>1 DEF GetKnownInstance, TypeInv, KnowsInstance
    <3>2. CASE ~HandleExistingInstance(mem.inst)
      <4>1. pc' = AdoptOrFind(cur) /\ cur' = cur
        BY <2>2, <3>2 DEF GetKnownInstance, inReconcile
      <4> QED
        BY <4>1 DEF AdoptOrFind, Search
    <3> QED
      BY <3>1, <3>2
  <2>3. CASE AdoptInstance
    <3>1. CASE HandleExistingInstance(Adopt[cur])
      BY <2>1, <2>3, <3>1 DEF AdoptInstance, TypeInv, KnowsInstance
    <3>2. CASE ~HandleExistingInstance(Adopt[cur])
      BY <1>2, <2>3, <3>2 DEF AdoptInstance, Return
    <3> QED
      BY <3>1, <3>2
  <2>4. CASE FindInstanceByName
    <3>1. CASE \E i \in Named(InstanceName[cur]) : HandleExistingInstance(i)
      BY <2>1, <3>1 DEF Named
    <3>2. CASE ~\E i \in Named(InstanceName[cur]) : HandleExistingInstance(i)
      BY <2>4, <3>2 DEF FindInstanceByName, Search, inReconcile, cloudVars
    <3> QED
      BY <3>1, <3>2
  <2>5. CASE ResolveCreateOptions
    BY <2>5 DEF ResolveCreateOptions, Search, inReconcile
  <2>6. CASE CreateInstanceRetried
    BY <2>6 DEF CreateInstanceRetried, RetryPost, Return, Search, inReconcile
  <2>7. CASE \/ CreateInstance \/ CallFails \/ EnsureLBPoolMember \/ MemberSkipped
             \/ EnsureRKE2RegisterPoolMember \/ RegisterSkipped \/ RemoveLBPoolMember
             \/ NothingToDelete \/ DeleteInstance \/ DeleteInstanceFails
             \/ StillTerminating \/ VerifyGone \/ PatchObject \/ PatchStatus
    BY <1>2, <2>7 DEF CreateInstance, CallFails, EnsureLBPoolMember, MemberSkipped,
        EnsureRKE2RegisterPoolMember, RegisterSkipped, RemoveLBPoolMember,
        NothingToDelete, DeleteInstance, DeleteInstanceFails, StillTerminating,
        VerifyGone, PatchObject, PatchStatus, RemoveFinalizer, Return, Done
  <2> QED
    BY <1>6, <2>2, <2>3, <2>4, <2>5, <2>6, <2>7 DEF Proceed
<1>7. CASE \E i \in Instances : CloudProgress(i) \/ CloudFault(i)
  <2>1. UNCHANGED <<pc, cur>>
    BY <1>7 DEF CloudProgress, CloudFault, InstanceChange, cloudEnv, workerVars
  <2> QED
    BY <1>1, <2>1
<1>8. CASE Crash
  BY <1>2, <1>8 DEF Crash
<1>9. CASE Resync \/ InfraBecomesReady \/ Pause \/ Unpause \/ PoolChange
  <2>1. UNCHANGED <<pc, cur>>
    BY <1>9 DEF Resync, InfraBecomesReady, Pause, Unpause, PoolChange, kubeEnv, workerVars
  <2> QED
    BY <1>1, <2>1
<1> QED
  BY <1>3, <1>4, <1>5, <1>6, <1>7, <1>8, <1>9 DEF Next

-----------------------------------------------------------------------------
(* One instance per name: nothing happens to the name between the search    *)
(* and the POST, which a lost answer would repeat.                          *)

UniqueInv ==
    /\ NoDuplicateInstance
    /\ pc \in {"resolve", "post"} => Named(InstanceName[cur]) = {}

LEMMA UniqueInit == Init => UniqueInv
<1> SUFFICES ASSUME Init PROVE UniqueInv
  OBVIOUS
<1>1. \A i \in Instances : inst[i].name = None
  BY DEF Init
<1>2. \A m \in Machines : InstanceName[m] # None
  BY ConstantsAssumption
<1> QED
  BY <1>1, <1>2 DEF Init, UniqueInv, NoDuplicateInstance, Named

LEMMA UniqueStep == BaseInv /\ UniqueInv /\ ~LosesPost /\ [Next]_vars => UniqueInv'
<1> SUFFICES ASSUME BaseInv, UniqueInv, ~LosesPost, [Next]_vars PROVE UniqueInv'
  OBVIOUS
<1> USE DEF BaseInv
<1>1. Fate /\ Search /\ inst \in [Instances -> [st : Statuses, name : Names \union {None}]]
  BY Fates, Searches DEF TypeInv, TypeOK
<1>2. CASE Born
  <2>1. PICK k \in Instances : Spawn(k)
    BY <1>2 DEF Born
  <2>2. /\ pc' = "patch" /\ Named(InstanceName[cur]) = {}
        /\ inst'[k].name = InstanceName[cur]
        /\ \A i \in Instances \ {k} : inst'[i] = inst[i]
    BY <1>1, <1>2, <2>1 DEF Born, Spawn, UniqueInv
  <2>3. ASSUME NEW m \in Machines, NEW i \in Named(InstanceName[m])',
               NEW j \in Named(InstanceName[m])'
        PROVE  i = j
    <3>1. CASE InstanceName[m] = InstanceName[cur]
      BY <2>2, <2>3, <3>1 DEF Named, Present
    <3>2. CASE InstanceName[m] # InstanceName[cur]
      <4>1. i \in Named(InstanceName[m]) /\ j \in Named(InstanceName[m])
        BY <2>2, <2>3, <3>2 DEF Named, Present
      <4> QED
        BY <4>1 DEF UniqueInv, NoDuplicateInstance
    <3> QED
      BY <3>1, <3>2
  <2>4. NoDuplicateInstance'
    BY <2>3 DEF NoDuplicateInstance
  <2> QED
    BY <2>2, <2>4 DEF UniqueInv
<1>3. CASE ~Born
  <2>1. \A i \in Instances :
          inst'[i].name = inst[i].name /\ (Present(i)' => Present(i))
    BY <1>1, <1>3, FateKeeps
  <2>2. \A m \in Machines \union {None} :
          Named(InstanceName[m])' \subseteq Named(InstanceName[m])
    BY <2>1 DEF Named
  <2>3. NoDuplicateInstance'
    BY <2>2 DEF UniqueInv, NoDuplicateInstance
  <2>4. ASSUME pc' \in {"resolve", "post"} PROVE Named(InstanceName[cur])' = {}
    <3>1. cur' = cur /\ cur \in Machines \union {None} /\ Named(InstanceName[cur]) = {}
      BY <1>1, <2>4 DEF Search, SearchPCs, UniqueInv, TypeInv, TypeOK
    <3>2. Named(InstanceName[cur])' = {i \in Instances : Present(i)' /\ inst'[i].name = InstanceName[cur]}
      BY <3>1 DEF Named
    <3> QED
      BY <2>1, <3>1, <3>2 DEF Named
  <2> QED
    BY <2>3, <2>4 DEF UniqueInv
<1> QED
  BY <1>2, <1>3

\* As long as no answer to a CreateInstance request is lost, at most one instance
\* answers to a machine's name: crashes, stale caches, failed calls and patches do
\* not lead to a second one, since findInstanceByName comes before every POST.
THEOREM OneInstancePerName ==
    ASSUME "lostPost" \notin FaultKinds
    PROVE  Spec => []NoDuplicateInstance
<1>1. UniqueInv => NoDuplicateInstance
  BY DEF UniqueInv
<1>2. BaseInv /\ UniqueInv /\ [Next]_vars => UniqueInv'
  BY UniqueStep DEF LosesPost
<1> QED
  BY <1>1, <1>2, BaseInit, BaseStep, UniqueInit, PTL DEF Spec

-----------------------------------------------------------------------------
(* Which machines may manage the same instance.  A machine that adopts an   *)
(* instance records no other, whatever its name.                            *)

AdoptedInv ==
    /\ \A m \in Machines : Adopt[m] # None =>
         obj[m].inst \in {None, Adopt[m]} /\ cache[m].inst \in {None, Adopt[m]}
    /\ pc # "idle" /\ Adopt[cur] # None =>
         base.inst \in {None, Adopt[cur]} /\ mem.inst \in {None, Adopt[cur]}

LEMMA AdoptedStep == TypeInv /\ AdoptedInv /\ [Next]_vars => AdoptedInv'
<1> SUFFICES ASSUME TypeInv, AdoptedInv, [Next]_vars PROVE AdoptedInv'
  OBVIOUS
<1>1. RecordsMove /\ (pc # "idle" => cur \in Machines)
  BY RecordsMoves DEF TypeInv, TypeOK
<1>2. ASSUME NEW m \in Machines, Adopt[m] # None
      PROVE  obj'[m].inst \in {None, Adopt[m]} /\ cache'[m].inst \in {None, Adopt[m]}
  BY <1>1, <1>2 DEF RecordsMove, AdoptedInv
<1>3. ASSUME pc' # "idle", Adopt[cur'] # None
      PROVE  base'.inst \in {None, Adopt[cur']} /\ mem'.inst \in {None, Adopt[cur']}
  BY <1>1, <1>3 DEF RecordsMove, AdoptedInv
<1> QED
  BY <1>2, <1>3 DEF AdoptedInv

\* What a machine records carries its name, or is the instance that it adopts.
LEMMA OwnAlike ==
    ASSUME BaseInv, AdoptedInv, NEW m \in Machines, obj[m].inst # None
    PROVE  \/ Adopt[m] = obj[m].inst /\ inst[obj[m].inst].name = None
           \/ Adopt[m] = None /\ inst[obj[m].inst].name = InstanceName[m]
<1>1. Own(m, obj[m].inst) /\ obj[m].inst \in Instances
  BY DEF BaseInv, OwnInv, TypeInv, TypeOK, CR, Ids
<1> QED
  BY <1>1, ConstantsAssumption DEF AdoptedInv, BaseInv, ExistingInv, Own

\* Two OVHMachines record the same instance only if both adopt it, or if neither
\* adopts one and their instance names coincide; whatever the names, the adoptions
\* and the faults.
THEOREM OnlyNamesakesShare == Spec => []ManagersAlike
<1>1. BaseInv /\ AdoptedInv => ManagersAlike
  <2> SUFFICES ASSUME BaseInv, AdoptedInv, NEW m \in Machines, NEW n \in Machines,
                      obj[m].inst # None, obj[m].inst = obj[n].inst
               PROVE  \/ Adopt[m] = obj[m].inst /\ Adopt[n] = obj[n].inst
                      \/ /\ Adopt[m] = None /\ Adopt[n] = None
                         /\ InstanceName[m] = InstanceName[n]
    BY DEF ManagersAlike
  <2>1. InstanceName[m] # None /\ InstanceName[n] # None
    BY ConstantsAssumption
  <2> QED
    BY <2>1, OwnAlike
<1>2. Init => AdoptedInv
  BY DEF Init, AdoptedInv, NewCR
<1>3. BaseInv /\ AdoptedInv /\ [Next]_vars => AdoptedInv'
  BY AdoptedStep DEF BaseInv
<1> QED
  BY <1>1, <1>2, <1>3, BaseInit, BaseStep, PTL DEF Spec

-----------------------------------------------------------------------------
(* An object goes only after the instances that its status has named.       *)

\* A reconcile of m may have begun that saw its deletion.
Quitting(m) == cache[m].del /\ (pc = "idle" \/ cur # m \/ base.del)

\* A machine that adopts an instance creates none.
AdoptInv ==
    /\ \A m \in Machines, i \in Instances :
         inst[i].name = InstanceName[m] => Adopt[m] = None
    /\ pc \in {"find", "resolve", "post"} => Adopt[cur] = None

\* Nothing takes an instance away from a machine that is not being deleted, so
\* that a machine never has a second one.
OneInstanceInv ==
    /\ \A m \in Machines, i, j \in Instances : Own(m, i) /\ Own(m, j) => i = j
    /\ \A m \in Machines, i \in Instances : Own(m, i) /\ Doomed(i) => Quitting(m)
    /\ AdoptInv

LEMMA SoleOwner ==
    ASSUME NamesDiffer, ExistingInv, NEW m \in Machines, NEW n \in Machines,
           NEW i \in Instances, Own(m, i), Own(n, i)
    PROVE  m = n
<1>1. InstanceName[m] # None /\ InstanceName[n] # None
  BY ConstantsAssumption
<1>2. (Adopt[m] = i \/ Adopt[n] = i) => inst[i].name = None /\ i # None
  BY ConstantsAssumption DEF ExistingInv
<1> QED
  BY <1>1, <1>2 DEF NamesDiffer, Own

LEMMA OneInstanceInit ==
    ASSUME NamesDiffer
    PROVE  Init => OneInstanceInv
<1> SUFFICES ASSUME Init PROVE OneInstanceInv
  OBVIOUS
<1>1. \A i \in Instances : inst[i].name = None /\ inst[i].st \in {"ACTIVE", "none"}
  BY DEF Init
<1>2. \A m \in Machines : InstanceName[m] # None
  BY ConstantsAssumption
<1>3. pc = "idle"
  BY DEF Init
<1> QED
  BY <1>1, <1>2, <1>3 DEF OneInstanceInv, AdoptInv, Own, Doomed

\* A deletion that a reconcile may have seen is not unseen again.
LEMMA QuittingStays ==
    ASSUME TypeInv, FinalizerInv, [Next]_vars, NEW m \in Machines, Quitting(m)
    PROVE  Quitting(m)'
<1>1. /\ obj \in [Machines -> CR] /\ cache \in [Machines -> CR]
      /\ cache[m].del => obj[m].del
  BY DEF TypeInv, TypeOK, FinalizerInv, CacheBehind
<1>2. ASSUME cache' = cache, pc' = "idle" \/ UNCHANGED <<pc, cur, base>>
      PROVE  Quitting(m)'
  BY <1>2 DEF Quitting
<1>3. ASSUME pc # "idle", UNCHANGED <<cache, cur, base>> PROVE Quitting(m)'
  BY <1>3 DEF Quitting
<1>4. CASE UNCHANGED vars
  BY <1>2, <1>4 DEF vars, workerVars
<1>5. ASSUME NEW n \in Machines, Start(n) \/ ReadFails(n) PROVE Quitting(m)'
  <2>1. CASE ReconcileNotFound(n)
    BY <1>2, <2>1 DEF ReconcileNotFound, workerVars
  <2>2. CASE ~ReconcileNotFound(n)
    <3>1. cache' = cache /\ cur' = n /\ base' = cache[n]
      BY <1>5, <2>2 DEF Start, ReadFails, WaitOwner, ReconcileNormalPaused, AddFinalizer,
         WaitInfraOrBootstrap, Locate, ReconcileDeleteKeep, ReconcileDelete, Begin
    <3> QED
      BY <3>1 DEF Quitting
  <2> QED
    BY <2>1, <2>2
<1>6. ASSUME NEW n \in Machines, CacheSync(n) PROVE Quitting(m)'
  <2>1. cache'[m].del /\ UNCHANGED <<pc, cur, base>>
    BY <1>1, <1>6 DEF CacheSync, workerVars, Quitting
  <2> QED
    BY <2>1 DEF Quitting
<1>7. ASSUME NEW n \in Machines, UserDelete(n) \/ UserKeep(n) \/ StageProgress(n)
      PROVE  Quitting(m)'
  BY <1>2, <1>7 DEF UserDelete, UserKeep, StageProgress, kubeEnv, workerVars
<1>8. CASE Proceed
  <2>1. CASE PatchObject
    BY <1>2, <2>1 DEF PatchObject, inPatch, Quitting
  <2>2. CASE PatchStatus
    BY <1>2, <2>2 DEF PatchStatus, Done, inPatch
  <2>3. CASE ~PatchObject /\ ~PatchStatus
    <3>1. pc # "idle" /\ inReconcile
      BY <1>8, <2>3 DEF Proceed, GetKnownInstance, AdoptInstance, FindInstanceByName,
         HandleExistingInstance, ResolveCreateOptions, CreateInstance, CallFails,
         CreateInstanceRetried, RetryPost, EnsureLBPoolMember, MemberSkipped,
         EnsureRKE2RegisterPoolMember, RegisterSkipped, RemoveLBPoolMember,
         NothingToDelete, DeleteInstance, DeleteInstanceFails, StillTerminating, VerifyGone
    <3> QED
      BY <1>3, <3>1 DEF inReconcile
  <2> QED
    BY <2>1, <2>2, <2>3
<1>9. CASE \E i \in Instances : CloudProgress(i) \/ CloudFault(i)
  BY <1>2, <1>9 DEF CloudProgress, CloudFault, InstanceChange, cloudEnv, workerVars
<1>10. CASE Crash
  BY <1>1, <1>10 DEF Crash, Quitting
<1>11. CASE Resync \/ InfraBecomesReady \/ Pause \/ Unpause \/ PoolChange
  BY <1>2, <1>11 DEF Resync, InfraBecomesReady, Pause, Unpause, PoolChange, kubeEnv,
                     workerVars
<1> QED
  BY <1>4, <1>5, <1>6, <1>7, <1>8, <1>9, <1>10, <1>11 DEF Next

\* At the POST the machine has no instance, alive or not.
LEMMA NoneAtPost ==
    ASSUME BaseInv, QueueInv, UniqueInv, OneInstanceInv, pc = "post",
           NEW i \in Instances, Own(cur, i)
    PROVE  FALSE
<1> USE DEF BaseInv
<1>1. cur \in Machines /\ ~base.del /\ Adopt[cur] = None
  BY DEF TypeInv, TypeOK, QueueInv, RunInv, NormalPCs, OneInstanceInv, AdoptInv
<1>2. inst[i].name = InstanceName[cur]
  BY <1>1, ConstantsAssumption DEF Own
<1>3. ~Doomed(i)
  BY <1>1 DEF OneInstanceInv, Quitting
<1>4. inst[i].st # "none"
  BY <1>1, OwnExists
<1>5. i \in Named(InstanceName[cur])
  BY <1>2, <1>3, <1>4 DEF Named, Present, Doomed
<1> QED
  BY <1>5 DEF UniqueInv

LEMMA AdoptStep ==
    ASSUME NamesDiffer
    PROVE  BaseInv /\ AdoptInv /\ [Next]_vars => AdoptInv'
<1> SUFFICES ASSUME BaseInv, AdoptInv, [Next]_vars PROVE AdoptInv'
  OBVIOUS
<1> USE DEF BaseInv
<1>1. Fate /\ Search /\ inst \in [Instances -> [st : Statuses, name : Names \union {None}]]
  BY Fates, Searches DEF TypeInv, TypeOK
<1>2. ASSUME pc' \in {"find", "resolve", "post"} PROVE Adopt[cur'] = None
  BY <1>1, <1>2 DEF Search, SearchPCs, AdoptInv
<1>3. ASSUME NEW m \in Machines, NEW i \in Instances, inst'[i].name = InstanceName[m]
      PROVE  Adopt[m] = None
  <2>1. CASE inst'[i].name = inst[i].name
    BY <1>3, <2>1 DEF AdoptInv
  <2>2. CASE Born /\ Spawn(i)
    <3>1. pc = "post" /\ cur \in Machines /\ inst'[i].name = InstanceName[cur]
      BY <1>1, <2>2 DEF Born, Spawn
    <3> QED
      BY <1>3, <3>1 DEF AdoptInv, NamesDiffer
  <2> QED
    BY <1>1, <2>1, <2>2, FateKeeps
<1> QED
  BY <1>2, <1>3 DEF AdoptInv

LEMMA OneInstanceStep ==
    ASSUME NamesDiffer
    PROVE  /\ BaseInv /\ FinalizerInv /\ QueueInv /\ UniqueInv /\ OneInstanceInv
           /\ ~LosesPost /\ ~Vanishes /\ [Next]_vars
           => OneInstanceInv'
<1> SUFFICES ASSUME BaseInv, FinalizerInv, QueueInv, UniqueInv, OneInstanceInv,
                    ~LosesPost, ~Vanishes, [Next]_vars
             PROVE  OneInstanceInv'
  OBVIOUS
<1> USE DEF BaseInv
<1>1. Fate /\ Search /\ inst \in [Instances -> [st : Statuses, name : Names \union {None}]]
  BY Fates, Searches DEF TypeInv, TypeOK
<1>2. \A m \in Machines : InstanceName[m] # None
  BY ConstantsAssumption
<1>3. AdoptInv'
  BY AdoptStep DEF OneInstanceInv
<1>4. ASSUME NEW m \in Machines, Quitting(m) PROVE Quitting(m)'
  BY <1>4, QuittingStays
<1>5. CASE Born
  <2>1. PICK k \in Instances : Spawn(k)
    BY <1>5 DEF Born
  <2>2. /\ cur \in Machines /\ pc = "post" /\ inst[k].name = None
        /\ inst'[k].name = InstanceName[cur] /\ inst'[k].st = "BUILD"
        /\ \A i \in Instances \ {k} : inst'[i] = inst[i]
    BY <1>1, <1>5, <2>1 DEF Born, Spawn, OwnInv
  <2>3. \A i \in Instances : ~Own(cur, i)
    BY <2>2, NoneAtPost
  <2>4. ASSUME NEW m \in Machines, NEW i \in Instances
        PROVE  /\ Own(m, i)' => (m = cur /\ i = k) \/ (m # cur /\ i # k /\ Own(m, i))
               /\ i # k => Doomed(i)' = Doomed(i)
               /\ inst'[i].name = InstanceName[m] =>
                    m = cur \/ inst[i].name = InstanceName[m]
    <3>1. Adopt[m] # k
      BY <2>1, ConstantsAssumption DEF Spawn, ExistingInv
    <3>2. CASE i = k
      BY <2>2, <3>1, <3>2 DEF Own, NamesDiffer
    <3>3. CASE i # k
      BY <2>2, <2>3, <3>3 DEF Own, Doomed
    <3> QED
      BY <3>2, <3>3
  <2>5. ~Doomed(k)'
    BY <2>2 DEF Doomed
  <2>7. ASSUME NEW m \in Machines, NEW i \in Instances, NEW j \in Instances,
               Own(m, i)', Own(m, j)'
        PROVE  i = j
    BY <2>4, <2>7 DEF OneInstanceInv
  <2>8. ASSUME NEW m \in Machines, NEW i \in Instances, Own(m, i)', Doomed(i)'
        PROVE  Quitting(m)'
    BY <1>4, <2>4, <2>5, <2>8 DEF OneInstanceInv
  <2> QED
    BY <1>3, <2>7, <2>8 DEF OneInstanceInv
<1>6. CASE ~Born
  <2>1. \A i \in Instances : inst'[i].name = inst[i].name
    BY <1>1, <1>6, FateKeeps
  <2>2. \A m \in Machines, i \in Instances : Own(m, i)' = Own(m, i)
    BY <2>1 DEF Own
  <2>3. ASSUME NEW m \in Machines, NEW i \in Instances, Own(m, i), Doomed(i)'
        PROVE  Quitting(m)'
    <3>1. CASE Doomed(i)
      BY <1>4, <2>3, <3>1 DEF OneInstanceInv
    <3>2. CASE ~Doomed(i)
      <4>1. ~Moved
        BY <1>1, <2>3, <3>2 DEF Moved, Ended, Doomed
      <4>2. Ending
        BY <1>1, <1>6, <2>3, <3>2, <4>1 DEF Fate, Doomed
      <4>3. i = mem.inst /\ cur \in Machines /\ pc = "delete"
        BY <1>1, <2>3, <3>2, <4>2 DEF Ending, Terminate, Doomed
      <4>4. Own(cur, i)
        BY <4>3, ConstantsAssumption DEF OwnInv
      <4>5. m = cur
        BY <2>3, <4>3, <4>4, SoleOwner
      <4>6. base.del /\ cache[cur].del
        BY <4>3 DEF FinalizerInv, ReconcileInv, DeletePCs
      <4> QED
        BY <1>4, <4>5, <4>6 DEF Quitting
    <3> QED
      BY <3>1, <3>2
  <2>4. ASSUME NEW m \in Machines, NEW i \in Instances, NEW j \in Instances,
               Own(m, i)', Own(m, j)'
        PROVE  i = j
    BY <2>2, <2>4 DEF OneInstanceInv
  <2>5. ASSUME NEW m \in Machines, NEW i \in Instances, Own(m, i)', Doomed(i)'
        PROVE  Quitting(m)'
    BY <2>2, <2>3, <2>5
  <2> QED
    BY <1>3, <2>4, <2>5 DEF OneInstanceInv
<1> QED
  BY <1>5, <1>6

SeenGone(m) == \A i \in seen[m] : Doomed(i)

\* What was once recorded stays recorded, and the finalizer is taken off only when
\* all of it is on its way out.
RunningInv ==
    /\ seen[cur] # {} => base.inst # None
    /\ base.inst # None => mem.inst # None /\ obj[cur].inst # None
    /\ mem.inst # None => obj[cur].fin \/ obj[cur].del
    /\ base.keep => obj[cur].keep
    /\ pc = "verify" => Doomed(mem.inst)
    /\ pc = "patch" /\ base.fin /\ ~mem.fin =>
         base.keep \/ \A i \in seen[cur] : Doomed(i)

RecordInv ==
    /\ \A m \in Machines :
         /\ \A i \in seen[m] : Own(m, i)
         /\ seen[m] # {} => cache[m].inst # None
         /\ cache[m].inst # None => obj[m].inst # None
         /\ obj[m].inst # None => obj[m].fin \/ obj[m].del
    /\ pc # "idle" => RunningInv

LEMMA RecordInit == Init => RecordInv
BY DEF Init, RecordInv, NewCR

\* All that the proofs below need of the earlier ones.
FullInv ==
    BaseInv /\ FinalizerInv /\ QueueInv /\ UniqueInv /\ OneInstanceInv /\ RecordInv

\* The instances that were seen stay the machine's own, and what is on its way
\* out stays so.
LEMMA SeenStays ==
    ASSUME FullInv, [Next]_vars, NEW m \in Machines, NEW i \in seen[m]
    PROVE  Own(m, i)' /\ (Doomed(i) => Doomed(i)')
<1>1. i \in Instances /\ TypeInv /\ OwnInv
  BY DEF FullInv, BaseInv, TypeInv, TypeOK
<1>2. InstanceStep /\ Fate
  BY InstanceSteps, Fates DEF FullInv, BaseInv
<1>3. Own(m, i)
  BY DEF FullInv, RecordInv
<1> QED
  BY <1>1, <1>2, <1>3, OwnStays, FateKeeps

LEMMA RecordBegin ==
    ASSUME FullInv, [Next]_vars, NEW m \in Machines, NEW copy, Begin(m, copy),
           pc' \notin {"idle", "verify"}, copy.inst = cache[m].inst,
           cache[m].fin /\ ~copy.fin => cache[m].keep
    PROVE  RecordInv'
<1> USE DEF FullInv, BaseInv
<1>1. /\ UNCHANGED <<obj, cache, inst>> /\ cur' = m /\ base' = cache[m] /\ mem' = copy
      /\ seen \in [Machines -> SUBSET Instances]
      /\ seen' = [seen EXCEPT ![m] = @ \union ({cache[m].inst} \ {None})]
  BY DEF Begin, cloudVars, TypeInv, TypeOK
<1>2. /\ seen'[m] = seen[m] \union ({cache[m].inst} \ {None})
      /\ \A n \in Machines \ {m} : seen'[n] = seen[n]
  BY <1>1
<1>3. \A n \in Machines : \A i : Own(n, i)' = Own(n, i)
  BY <1>1 DEF Own
<1>4. ASSUME NEW n \in Machines
      PROVE  /\ \A i \in seen'[n] : Own(n, i)'
             /\ seen'[n] # {} => cache'[n].inst # None
             /\ cache'[n].inst # None => obj'[n].inst # None
             /\ obj'[n].inst # None => obj'[n].fin \/ obj'[n].del
  BY <1>1, <1>2, <1>3 DEF RecordInv, OwnInv
<1>5. RunningInv'
  <2>1. /\ seen'[cur'] # {} => base'.inst # None
        /\ base'.inst # None => mem'.inst # None /\ obj'[cur'].inst # None
        /\ mem'.inst # None => obj'[cur'].fin \/ obj'[cur'].del
    BY <1>1, <1>2 DEF RecordInv
  <2>2. base'.keep => obj'[cur'].keep
    BY <1>1 DEF QueueInv, ObjectsInv
  <2> QED
    BY <1>1, <2>1, <2>2 DEF RunningInv
<1> QED
  BY <1>4, <1>5 DEF RecordInv

LEMMA RecordStart ==
    ASSUME FullInv, [Next]_vars, NEW m \in Machines, Start(m) \/ ReadFails(m)
    PROVE  RecordInv'
<1>1. cache[m] \in CR
  BY DEF FullInv, BaseInv, TypeInv, TypeOK
<1>2. CASE ReconcileNotFound(m)
  <2>1. UNCHANGED <<obj, cache, inst, seen, pc>> /\ pc = "idle"
    BY <1>2 DEF ReconcileNotFound, workerVars, cloudVars, histVars
  <2> QED
    BY <2>1 DEF FullInv, RecordInv, Own
<1>3. /\ [cache[m] EXCEPT !.ready = FALSE].inst = cache[m].inst
      /\ [cache[m] EXCEPT !.ready = FALSE].fin = cache[m].fin
      /\ [cache[m] EXCEPT !.fin = TRUE, !.ready = FALSE].inst = cache[m].inst
      /\ [cache[m] EXCEPT !.fin = TRUE, !.ready = FALSE].fin = TRUE
      /\ [cache[m] EXCEPT !.fin = FALSE].inst = cache[m].inst
  BY <1>1 DEF CR
<1>4. CASE WaitOwner(m)
  BY <1>4, RecordBegin DEF WaitOwner, Return
<1>5. CASE ReadFails(m)
  BY <1>5, RecordBegin DEF ReadFails, Return
<1>6. CASE ReconcileNormalPaused(m)
  BY <1>3, <1>6, RecordBegin DEF ReconcileNormalPaused, Return
<1>7. CASE AddFinalizer(m)
  BY <1>3, <1>7, RecordBegin DEF AddFinalizer, Return
<1>8. CASE WaitInfraOrBootstrap(m)
  BY <1>8, RecordBegin DEF WaitInfraOrBootstrap, Return
<1>9. CASE Locate(m)
  BY <1>9, RecordBegin DEF Locate, AdoptOrFind
<1>10. CASE ReconcileDeleteKeep(m)
  BY <1>3, <1>10, RecordBegin DEF ReconcileDeleteKeep, Return
<1>11. CASE ReconcileDelete(m)
  BY <1>11, RecordBegin DEF ReconcileDelete
<1> QED
  BY <1>2, <1>4, <1>5, <1>6, <1>7, <1>8, <1>9, <1>10, <1>11 DEF Start

\* A step of a running reconcile that takes no finalizer off.
LEMMA RecordRun ==
    ASSUME FullInv, [Next]_vars, pc \notin {"idle", "patch", "patchStatus"}, inReconcile,
           pc' # "idle", mem'.inst = mem.inst \/ (pc \in NormalPCs /\ mem'.inst # None),
           pc' = "verify" => Doomed(mem.inst)',
           pc' = "patch" =>
               \/ mem'.fin = mem.fin
               \/ \A i \in seen[cur] : Doomed(i)'
    PROVE  RecordInv'
<1> USE DEF FullInv, BaseInv
<1>1. UNCHANGED <<obj, cache, seen, cur, base>> /\ cur \in Machines
  BY DEF inReconcile, histVars, TypeInv, TypeOK
<1>2. ASSUME NEW m \in Machines
      PROVE  /\ \A i \in seen'[m] : Own(m, i)'
             /\ seen'[m] # {} => cache'[m].inst # None
             /\ cache'[m].inst # None => obj'[m].inst # None
             /\ obj'[m].inst # None => obj'[m].fin \/ obj'[m].del
  BY <1>1, SeenStays DEF RecordInv
<1>3. ReconcileInv /\ RunningInv /\ RunInv
  BY DEF FinalizerInv, RecordInv, QueueInv
<1>4. base.fin => mem.fin
  <2>1. pc \in NormalPCs \union {"member", "register"} \union DeletePCs
    BY DEF TypeInv, TypeOK, PCs, NormalPCs, DeletePCs
  <2> QED
    BY <1>3, <2>1 DEF ReconcileInv, RunInv
<1>5. mem'.inst # None => obj[cur].fin \/ obj[cur].del
  BY <1>3 DEF ReconcileInv, RunningInv
<1>6. base.inst # None => mem'.inst # None
  BY <1>3 DEF RunningInv
<1>7. RunningInv'
  BY <1>1, <1>3, <1>4, <1>5, <1>6 DEF RunningInv
<1> QED
  BY <1>2, <1>7 DEF RecordInv

LEMMA RecordFound ==
    ASSUME FullInv, [Next]_vars, pc \in NormalPCs, NEW i \in Instances,
           HandleExistingInstance(i)
    PROVE  RecordInv'
<1>1. mem \in CR
  BY DEF FullInv, BaseInv, TypeInv, TypeOK
<1>2. mem'.fin = mem.fin /\ mem'.inst = i /\ pc' \in {"member", "patch"}
  BY <1>1, HandleExistingInstanceKeeps
<1>3. inReconcile
  BY DEF HandleExistingInstance
<1> QED
  BY <1>2, <1>3, RecordRun, ConstantsAssumption DEF NormalPCs

LEMMA RecordProceed ==
    ASSUME FullInv, [Next]_vars, Proceed, ~PatchObject, ~PatchStatus
    PROVE  RecordInv'
<1> USE DEF FullInv, BaseInv, NormalPCs
<1>1. mem \in CR
  BY DEF TypeInv, TypeOK
<1>2. ASSUME NEW i PROVE /\ [mem EXCEPT !.inst = i].fin = mem.fin
                         /\ [mem EXCEPT !.inst = i].inst = i
                         /\ [mem EXCEPT !.lb = i].fin = mem.fin
                         /\ [mem EXCEPT !.lb = i].inst = mem.inst
                         /\ [mem EXCEPT !.reg = i].fin = mem.fin
                         /\ [mem EXCEPT !.reg = i].inst = mem.inst
                         /\ [mem EXCEPT !.fin = FALSE].inst = mem.inst
  BY <1>1 DEF CR
\* the recorded instance is there: it ends only after a reconcile of the deletion
<1>3. CASE GetKnownInstance
  <2>1. pc = "get" /\ mem.inst \in Instances /\ cur \in Machines
    BY <1>3 DEF GetKnownInstance, TypeInv, TypeOK, KnowsInstance
  <2>2. Own(cur, mem.inst) /\ ~base.del
    BY <2>1, ConstantsAssumption DEF OwnInv, QueueInv, RunInv
  <2>3. ~Doomed(mem.inst)
    BY <2>1, <2>2 DEF OneInstanceInv, Quitting
  <2>4. inst[mem.inst].st # "none"
    BY <2>1, <2>2, OwnExists
  <2>5. HandleExistingInstance(mem.inst)
    BY <1>3, <2>3, <2>4 DEF GetKnownInstance, Present, Doomed
  <2> QED
    BY <2>1, <2>5, RecordFound
<1>4. CASE AdoptInstance
  <2>1. pc = "adopt" /\ Adopt[cur] \in Instances
    BY <1>4 DEF AdoptInstance, TypeInv, KnowsInstance
  <2>2. CASE HandleExistingInstance(Adopt[cur])
    BY <2>1, <2>2, RecordFound
  <2>3. CASE ~HandleExistingInstance(Adopt[cur])
    BY <1>4, <2>1, <2>3, RecordRun DEF AdoptInstance, Return
  <2> QED
    BY <2>2, <2>3
<1>5. CASE FindInstanceByName
  <2>1. pc = "find"
    BY <1>5 DEF FindInstanceByName
  <2>2. CASE \E i \in Named(InstanceName[cur]) : HandleExistingInstance(i)
    BY <2>1, <2>2, RecordFound DEF Named
  <2>3. CASE ~\E i \in Named(InstanceName[cur]) : HandleExistingInstance(i)
    BY <1>5, <2>1, <2>3, RecordRun DEF FindInstanceByName
  <2> QED
    BY <2>2, <2>3
<1>6. CASE ResolveCreateOptions
  BY <1>6, RecordRun DEF ResolveCreateOptions
<1>7. CASE CreateInstance
  BY <1>2, <1>7, RecordRun, ConstantsAssumption DEF CreateInstance, Return
<1>8. CASE CallFails
  BY <1>8, RecordRun DEF CallFails, Return
<1>9. CASE CreateInstanceRetried
  BY <1>9, RecordRun DEF CreateInstanceRetried, RetryPost, Return
<1>10. CASE EnsureLBPoolMember
  BY <1>2, <1>10, RecordRun DEF EnsureLBPoolMember
<1>11. CASE MemberSkipped
  BY <1>11, RecordRun DEF MemberSkipped
<1>12. CASE EnsureRKE2RegisterPoolMember
  BY <1>2, <1>12, RecordRun DEF EnsureRKE2RegisterPoolMember
<1>13. CASE RegisterSkipped
  BY <1>13, RecordRun DEF RegisterSkipped
<1>14. CASE RemoveLBPoolMember
  BY <1>2, <1>14, RecordRun DEF RemoveLBPoolMember
<1>15. CASE NothingToDelete
  <2>1. seen[cur] = {}
    BY <1>15 DEF NothingToDelete, RecordInv, RunningInv
  <2> QED
    BY <1>2, <1>15, <2>1, RecordRun DEF NothingToDelete, RemoveFinalizer, Return
<1>16. CASE DeleteInstance
  <2>1. mem' = mem /\ pc = "delete" /\ mem.inst \in Instances /\ Terminate(mem.inst)
    BY <1>16 DEF DeleteInstance, TypeInv, TypeOK, CR, Ids
  <2>2. Doomed(mem.inst)'
    BY <2>1 DEF Terminate, Doomed, TypeInv, TypeOK
  <2> QED
    BY <1>16, <2>1, <2>2, RecordRun DEF DeleteInstance
<1>17. CASE DeleteInstanceFails
  BY <1>17, RecordRun DEF DeleteInstanceFails, Return
<1>18. CASE StillTerminating
  BY <1>18, RecordRun DEF StillTerminating, Return
\* by now the one instance that was ever seen is on its way out
<1>19. CASE VerifyGone
  <2>1. pc = "verify" /\ cur \in Machines /\ mem.inst \in Instances /\ Doomed(mem.inst)
    BY <1>19 DEF VerifyGone, TypeInv, TypeOK, KnowsInstance, RecordInv, RunningInv
  <2>2. Own(cur, mem.inst)
    BY <2>1, ConstantsAssumption DEF OwnInv
  <2>3. ASSUME NEW i \in seen[cur] PROVE Doomed(i)'
    <3>1. i \in Instances /\ Own(cur, i)
      BY <2>1 DEF TypeInv, TypeOK, RecordInv
    <3>2. i = mem.inst
      BY <2>1, <2>2, <3>1 DEF OneInstanceInv
    <3> QED
      BY <2>1, <3>2, SeenStays
  <2> QED
    BY <1>2, <1>19, <2>1, <2>3, RecordRun DEF VerifyGone, RemoveFinalizer, Return
<1> QED
  BY <1>3, <1>4, <1>5, <1>6, <1>7, <1>8, <1>9, <1>10, <1>11, <1>12, <1>13, <1>14,
     <1>15, <1>16, <1>17, <1>18, <1>19 DEF Proceed

\* What the metadata patch makes of the object.
LEMMA FinalizerWritten ==
    ASSUME TypeInv, FinalizerInv, QueueInv, PatchObject
    PROVE  /\ \A n \in Machines \ {cur} : obj'[n] = obj[n]
           /\ obj'[cur].inst = obj[cur].inst /\ obj'[cur].lb = obj[cur].lb
           /\ obj'[cur].keep = obj[cur].keep /\ obj'[cur].del = obj[cur].del
           /\ mem.fin = base.fin =>
                obj'[cur].fin = obj[cur].fin /\ obj'[cur].ex = obj[cur].ex
           /\ obj[cur].fin /\ ~obj'[cur].fin => obj[cur].del
           /\ obj[cur].ex /\ ~obj'[cur].ex => base.fin /\ ~mem.fin
<1>1. /\ cur \in Machines /\ obj \in [Machines -> CR] /\ obj[cur] \in CR
      /\ ReconcileInv /\ CacheBehind(cur) /\ base.fin \in BOOLEAN /\ mem.fin \in BOOLEAN
      /\ obj[cur].ex /\ obj[cur].del => obj[cur].fin
  BY DEF TypeInv, TypeOK, CR, PatchObject, FinalizerInv, QueueInv, ObjectsInv
<1>2. CASE obj' = obj
  BY <1>2
<1>3. CASE obj' # obj
  <2>1. /\ obj[cur].ex
        /\ obj' = [obj EXCEPT ![cur].fin = Merged("fin"), ![cur].prov = Merged("prov"),
                              ![cur].ex = ~obj[cur].del \/ Merged("fin")]
    BY <1>3 DEF PatchObject
  <2>2. /\ obj'[cur].fin = Merged("fin") /\ obj'[cur].del = obj[cur].del
        /\ obj'[cur].keep = obj[cur].keep /\ obj'[cur].inst = obj[cur].inst
        /\ obj'[cur].lb = obj[cur].lb /\ obj[cur].ex
        /\ obj'[cur].ex = (~obj[cur].del \/ Merged("fin"))
        /\ \A n \in Machines \ {cur} : obj'[n] = obj[n]
    BY <1>1, <2>1 DEF CR
  <2>3. CASE mem.fin = base.fin
    BY <1>1, <2>2, <2>3 DEF Merged
  <2>4. CASE mem.fin # base.fin
    <3>1. Merged("fin") = mem.fin
      BY <2>4 DEF Merged
    <3>2. ~mem.fin => base.fin /\ obj[cur].del
      BY <1>1, <2>4 DEF ReconcileInv, CacheBehind
    <3> QED
      BY <2>2, <2>4, <3>1, <3>2
  <2> QED
    BY <2>3, <2>4
<1> QED
  BY <1>2, <1>3

LEMMA RecordPatchObject ==
    ASSUME FullInv, [Next]_vars, PatchObject
    PROVE  RecordInv'
<1> USE DEF FullInv, BaseInv
<1>1. /\ UNCHANGED <<cache, seen, cur, base, mem>> /\ cur \in Machines
      /\ pc # "idle" /\ pc' = "patchStatus"
  BY DEF PatchObject, inPatch, histVars, TypeInv, TypeOK
<1>2. ASSUME NEW m \in Machines
      PROVE  /\ \A i \in seen'[m] : Own(m, i)'
             /\ seen'[m] # {} => cache'[m].inst # None
             /\ cache'[m].inst # None => obj'[m].inst # None
             /\ obj'[m].inst # None => obj'[m].fin \/ obj'[m].del
  BY <1>1, SeenStays, FinalizerWritten DEF RecordInv
<1>3. RunningInv'
  BY <1>1, FinalizerWritten DEF RecordInv, RunningInv
<1> QED
  BY <1>2, <1>3 DEF RecordInv

LEMMA RecordPatchStatus ==
    ASSUME FullInv, [Next]_vars, PatchStatus
    PROVE  RecordInv'
<1> USE DEF FullInv, BaseInv
<1>1. /\ UNCHANGED <<cache, seen>> /\ cur \in Machines /\ pc # "idle" /\ pc' = "idle"
      /\ obj \in [Machines -> CR] /\ obj[cur] \in CR /\ RunningInv
  BY DEF PatchStatus, Done, inPatch, histVars, TypeInv, TypeOK, RecordInv
<1>2. /\ \A n \in Machines \ {cur} : obj'[n] = obj[n]
      /\ obj'[cur].fin = obj[cur].fin /\ obj'[cur].del = obj[cur].del
      /\ obj'[cur].inst \in {obj[cur].inst, Merged("inst")}
  <2>1. CASE obj' = obj
    BY <2>1
  <2>2. CASE obj' # obj
    <3>1. obj' = [obj EXCEPT ![cur].inst = Merged("inst"), ![cur].ready = Merged("ready"),
                             ![cur].failed = Merged("failed"), ![cur].lb = Merged("lb"),
                             ![cur].reg = Merged("reg")]
      BY <2>2 DEF PatchStatus
    <3> QED
      BY <1>1, <3>1 DEF CR
  <2> QED
    BY <2>1, <2>2
<1>3. /\ obj[cur].inst # None => Merged("inst") # None
      /\ Merged("inst") # None => obj[cur].fin \/ obj[cur].del
  BY <1>1 DEF Merged, RunningInv, RecordInv
<1>4. ASSUME NEW m \in Machines
      PROVE  /\ \A i \in seen'[m] : Own(m, i)'
             /\ seen'[m] # {} => cache'[m].inst # None
             /\ cache'[m].inst # None => obj'[m].inst # None
             /\ obj'[m].inst # None => obj'[m].fin \/ obj'[m].del
  BY <1>1, <1>2, <1>3, SeenStays DEF RecordInv
<1> QED
  BY <1>1, <1>4 DEF RecordInv

LEMMA RecordKube ==
    ASSUME FullInv, [Next]_vars, NEW m \in Machines,
           CacheSync(m) \/ UserDelete(m) \/ UserKeep(m)
    PROVE  RecordInv'
<1> USE DEF FullInv, BaseInv
<1>1. /\ obj \in [Machines -> CR] /\ cache \in [Machines -> CR] /\ obj[m] \in CR
      /\ UNCHANGED <<seen, pc, cur, base, mem, inst>> /\ (pc # "idle" => cur \in Machines)
  BY DEF TypeInv, TypeOK, CacheSync, UserDelete, UserKeep, kubeEnv, workerVars, cloudVars,
         histVars
<1>2. /\ \A n \in Machines : /\ obj'[n].inst = obj[n].inst /\ obj'[n].fin = obj[n].fin
                             /\ obj[n].del => obj'[n].del
                             /\ obj[n].keep => obj'[n].keep
      /\ \A n \in Machines : cache'[n].inst \in {cache[n].inst, obj[n].inst}
  <2>1. CASE CacheSync(m)
    BY <1>1, <2>1 DEF CacheSync
  <2>2. CASE UserDelete(m)
    BY <1>1, <2>2 DEF UserDelete, kubeEnv, CR
  <2>3. CASE UserKeep(m)
    BY <1>1, <2>3 DEF UserKeep, kubeEnv, CR
  <2> QED
    BY <2>1, <2>2, <2>3
<1>3. ASSUME NEW n \in Machines
      PROVE  /\ \A i \in seen'[n] : Own(n, i)'
             /\ seen'[n] # {} => cache'[n].inst # None
             /\ cache'[n].inst # None => obj'[n].inst # None
             /\ obj'[n].inst # None => obj'[n].fin \/ obj'[n].del
  BY <1>1, <1>2, SeenStays DEF RecordInv
<1>4. ASSUME pc # "idle" PROVE RunningInv'
  <2>1. RunningInv /\ cur \in Machines
    BY <1>1, <1>4 DEF RecordInv
  <2> QED
    BY <1>1, <1>2, <2>1 DEF RunningInv, Doomed
<1> QED
  BY <1>1, <1>3, <1>4 DEF RecordInv

LEMMA RecordElse ==
    ASSUME FullInv, [Next]_vars, UNCHANGED <<obj, cache, pc, cur, base, mem, seen>>
    PROVE  RecordInv'
<1> USE DEF FullInv, BaseInv
<1>1. ASSUME NEW n \in Machines
      PROVE  /\ \A i \in seen'[n] : Own(n, i)'
             /\ seen'[n] # {} => cache'[n].inst # None
             /\ cache'[n].inst # None => obj'[n].inst # None
             /\ obj'[n].inst # None => obj'[n].fin \/ obj'[n].del
  BY SeenStays DEF RecordInv
<1>2. ASSUME pc # "idle" PROVE RunningInv'
  <2>1. RunningInv /\ cur \in Machines /\ (pc = "verify" => mem.inst \in Instances)
    BY <1>2 DEF RecordInv, TypeInv, TypeOK, KnowsInstance
  <2>2. pc = "verify" => Doomed(mem.inst)'
    BY <2>1, Fates, FateKeeps DEF RunningInv
  <2>3. \A i \in seen[cur] : Doomed(i) => Doomed(i)'
    BY <2>1, SeenStays
  <2> QED
    BY <2>1, <2>2, <2>3 DEF RunningInv
<1> QED
  BY <1>1, <1>2 DEF RecordInv

LEMMA RecordStep == FullInv /\ [Next]_vars => RecordInv'
<1> SUFFICES ASSUME FullInv, [Next]_vars PROVE RecordInv'
  OBVIOUS
<1>1. CASE UNCHANGED vars
  BY <1>1, RecordElse DEF vars, workerVars, histVars
<1>2. ASSUME NEW m \in Machines,
             \/ Start(m) \/ ReadFails(m) \/ CacheSync(m)
             \/ UserDelete(m) \/ UserKeep(m) \/ StageProgress(m)
      PROVE  RecordInv'
  <2>1. CASE StageProgress(m)
    BY <2>1, RecordElse DEF StageProgress, kubeEnv, workerVars
  <2> QED
    BY <1>2, <2>1, RecordStart, RecordKube
<1>3. CASE Proceed
  BY <1>3, RecordProceed, RecordPatchObject, RecordPatchStatus
<1>4. CASE \E i \in Instances : CloudProgress(i) \/ CloudFault(i)
  <2>1. UNCHANGED <<obj, cache, pc, cur, base, mem, seen>>
    BY <1>4 DEF CloudProgress, CloudFault, InstanceChange, cloudEnv, workerVars
  <2> QED
    BY <2>1, RecordElse
<1>5. CASE Crash
  <2>1. UNCHANGED <<obj, inst, seen>> /\ cache' = obj /\ pc' = "idle"
    BY <1>5 DEF Crash, cloudVars, histVars
  <2> QED
    BY <2>1 DEF FullInv, RecordInv, Own
<1>6. CASE Resync \/ InfraBecomesReady \/ Pause \/ Unpause \/ PoolChange
  <2>1. UNCHANGED <<obj, cache, pc, cur, base, mem, seen>>
    BY <1>6 DEF Resync, InfraBecomesReady, Pause, Unpause, PoolChange, kubeEnv,
                workerVars, histVars
  <2> QED
    BY <2>1, RecordElse
<1> QED
  BY <1>1, <1>2, <1>3, <1>4, <1>5, <1>6 DEF Next

LEMMA FullInit ==
    ASSUME NamesDiffer
    PROVE  Init => FullInv
BY BaseInit, FinalizerInit, QueueInit, UniqueInit, OneInstanceInit, RecordInit DEF FullInv

LEMMA FullStep ==
    ASSUME NamesDiffer, {"lostPost", "vanish"} \intersect FaultKinds = {}
    PROVE  FullInv /\ [Next]_vars => FullInv'
<1> SUFFICES ASSUME FullInv, [Next]_vars PROVE FullInv'
  OBVIOUS
<1>1. ~LosesPost /\ ~Vanishes /\ TypeInv
  BY DEF FullInv, BaseInv, LosesPost, Vanishes
<1> QED
  BY <1>1, BaseStep, FinalizerStep, QueueStep, UniqueStep, OneInstanceStep, RecordStep
     DEF FullInv

-----------------------------------------------------------------------------
(* Another way to the same end, for caches that are not stale: a reconcile   *)
(* then begins with the id that the API server has recorded, and takes it    *)
(* back only after a 404.  Nothing is asked of names or of other people.     *)

FreshRun ==
    /\ obj[cur].inst = base.inst
    /\ mem.inst # base.inst => base.inst = None \/ Doomed(base.inst)
    /\ pc \in {"adopt", "find", "resolve", "post"} => mem.inst = None
    /\ pc \in DeletePCs => mem.inst = base.inst
    /\ mem.inst # None => obj[cur].fin \/ obj[cur].del
    /\ base.keep => obj[cur].keep
    /\ pc = "verify" => Doomed(mem.inst)
    /\ pc = "patch" /\ base.fin /\ ~mem.fin => base.keep \/ SeenGone(cur)

FreshInv ==
    /\ \A m \in Machines : \A i \in seen[m] : Doomed(i) \/ obj[m].inst = i
    /\ \A m \in Machines :
         obj[m].inst # None \/ cache[m].inst # None \/ seen[m] # {} =>
             obj[m].fin \/ obj[m].del
    /\ pc # "idle" => FreshRun

FreshFull == BaseInv /\ FinalizerInv /\ QueueInv /\ FreshInv

LEMMA FreshFullInit == Init => FreshFull
BY BaseInit, FinalizerInit, QueueInit DEF Init, FreshFull, FreshInv, NewCR

\* What is on its way out stays so.
LEMMA GoingStays ==
    ASSUME BaseInv, [Next]_vars, NEW i \in Instances, Doomed(i)
    PROVE  Doomed(i)'
BY Fates, FateKeeps DEF BaseInv

LEMMA FreshBegin ==
    ASSUME "stale" \notin FaultKinds, FreshFull, NEW m \in Machines, NEW copy,
           Begin(m, copy), pc' \notin {"idle", "verify"}, copy.inst = cache[m].inst,
           pc' \in {"adopt", "find", "resolve", "post"} => copy.inst = None,
           cache[m].fin /\ ~copy.fin => cache[m].keep
    PROVE  FreshInv'
<1> USE DEF FreshFull, BaseInv
<1>1. /\ UNCHANGED <<obj, cache, inst>> /\ cur' = m /\ base' = cache[m] /\ mem' = copy
      /\ seen \in [Machines -> SUBSET Instances] /\ cache[m] = obj[m]
      /\ seen' = [seen EXCEPT ![m] = @ \union ({cache[m].inst} \ {None})]
  BY DEF Begin, cloudVars, TypeInv, TypeOK
<1>2. /\ seen'[m] = seen[m] \union ({cache[m].inst} \ {None})
      /\ \A n \in Machines \ {m} : seen'[n] = seen[n]
  BY <1>1
<1>3. \A i : Doomed(i)' = Doomed(i)
  BY <1>1 DEF Doomed
<1>4. ASSUME NEW n \in Machines
      PROVE  /\ \A i \in seen'[n] : Doomed(i)' \/ obj'[n].inst = i
             /\ obj'[n].inst # None \/ cache'[n].inst # None \/ seen'[n] # {} =>
                  obj'[n].fin \/ obj'[n].del
  BY <1>1, <1>2, <1>3 DEF FreshInv
<1>5. FreshRun'
  BY <1>1, <1>4 DEF FreshRun
<1> QED
  BY <1>4, <1>5 DEF FreshInv

LEMMA FreshStart ==
    ASSUME "stale" \notin FaultKinds, FreshFull, NEW m \in Machines,
           Start(m) \/ ReadFails(m)
    PROVE  FreshInv'
<1>1. cache[m] \in CR
  BY DEF FreshFull, BaseInv, TypeInv, TypeOK
<1>2. CASE ReconcileNotFound(m)
  <2>1. UNCHANGED <<obj, cache, inst, seen, pc>> /\ pc = "idle"
    BY <1>2 DEF ReconcileNotFound, workerVars, cloudVars, histVars
  <2> QED
    BY <2>1 DEF FreshFull, FreshInv, Doomed
<1>3. /\ [cache[m] EXCEPT !.ready = FALSE].inst = cache[m].inst
      /\ [cache[m] EXCEPT !.ready = FALSE].fin = cache[m].fin
      /\ [cache[m] EXCEPT !.fin = TRUE, !.ready = FALSE].inst = cache[m].inst
      /\ [cache[m] EXCEPT !.fin = TRUE, !.ready = FALSE].fin = TRUE
      /\ [cache[m] EXCEPT !.fin = FALSE].inst = cache[m].inst
  BY <1>1 DEF CR
<1>4. CASE WaitOwner(m)
  BY <1>4, FreshBegin DEF WaitOwner, Return
<1>5. CASE ReadFails(m)
  BY <1>5, FreshBegin DEF ReadFails, Return
<1>6. CASE ReconcileNormalPaused(m)
  BY <1>3, <1>6, FreshBegin DEF ReconcileNormalPaused, Return
<1>7. CASE AddFinalizer(m)
  BY <1>3, <1>7, FreshBegin DEF AddFinalizer, Return
<1>8. CASE WaitInfraOrBootstrap(m)
  BY <1>8, FreshBegin DEF WaitInfraOrBootstrap, Return
<1>9. CASE Locate(m)
  BY <1>9, FreshBegin DEF Locate, AdoptOrFind
<1>10. CASE ReconcileDeleteKeep(m)
  BY <1>3, <1>10, FreshBegin DEF ReconcileDeleteKeep, Return
<1>11. CASE ReconcileDelete(m)
  BY <1>11, FreshBegin DEF ReconcileDelete
<1> QED
  BY <1>2, <1>4, <1>5, <1>6, <1>7, <1>8, <1>9, <1>10, <1>11 DEF Start

\* A step of a running reconcile up to the patch.
LEMMA FreshRuns ==
    ASSUME FreshFull, [Next]_vars, pc \notin {"idle", "patch", "patchStatus"}, inReconcile,
           pc' # "idle",
           \/ mem'.inst = mem.inst
           \/ /\ pc \in NormalPCs
              /\ pc # "get" \/ Doomed(mem.inst),
           pc' \in DeletePCs => mem'.inst = mem.inst /\ pc \in DeletePCs,
           pc' \in {"adopt", "find", "resolve", "post"} =>
               mem'.inst = None \/ (pc \in {"find", "resolve", "post"} /\ mem'.inst = mem.inst),
           pc' = "verify" => Doomed(mem.inst)',
           pc' = "patch" => mem'.fin = mem.fin \/ SeenGone(cur)'
    PROVE  FreshInv'
<1> USE DEF FreshFull, BaseInv
<1>1. UNCHANGED <<obj, cache, seen, cur, base>> /\ cur \in Machines /\ base \in CR
  BY DEF inReconcile, histVars, TypeInv, TypeOK
<1>2. ASSUME NEW m \in Machines
      PROVE  /\ \A i \in seen'[m] : Doomed(i)' \/ obj'[m].inst = i
             /\ obj'[m].inst # None \/ cache'[m].inst # None \/ seen'[m] # {} =>
                  obj'[m].fin \/ obj'[m].del
  <2>1. \A i \in seen[m] : i \in Instances
    BY DEF TypeInv, TypeOK
  <2> QED
    BY <1>1, <2>1, GoingStays DEF FreshInv
<1>3. ReconcileInv /\ FreshRun /\ RunInv
  BY DEF FinalizerInv, FreshInv, QueueInv
<1>4. base.fin => mem.fin
  <2>1. pc \in NormalPCs \union {"member", "register"} \union DeletePCs
    BY DEF TypeInv, TypeOK, PCs, NormalPCs, DeletePCs
  <2> QED
    BY <1>3, <2>1 DEF ReconcileInv, RunInv
<1>5. mem'.inst # None => obj[cur].fin \/ obj[cur].del
  BY <1>3 DEF ReconcileInv, FreshRun
<1>6. mem'.inst # base.inst => base.inst = None \/ Doomed(base.inst)'
  <2>1. base.inst = None \/ base.inst \in Instances
    BY <1>1 DEF CR, Ids
  <2>2. CASE mem.inst # base.inst
    BY <1>1, <1>3, <2>1, <2>2, GoingStays DEF FreshRun
  <2>3. CASE mem.inst = base.inst
    BY <1>1, <1>3, <2>1, <2>3, GoingStays DEF FreshRun, NormalPCs
  <2> QED
    BY <2>2, <2>3
<1>7. /\ pc' \in DeletePCs => mem'.inst = base.inst
      /\ pc' \in {"adopt", "find", "resolve", "post"} => mem'.inst = None
  BY <1>3 DEF FreshRun, DeletePCs
<1>8. FreshRun'
  BY <1>1, <1>3, <1>4, <1>5, <1>6, <1>7 DEF FreshRun
<1> QED
  BY <1>2, <1>8 DEF FreshInv

LEMMA FreshFound ==
    ASSUME FreshFull, [Next]_vars, pc \in NormalPCs, NEW i \in Instances,
           HandleExistingInstance(i), pc # "get" \/ i = mem.inst
    PROVE  FreshInv'
<1>1. mem \in CR
  BY DEF FreshFull, BaseInv, TypeInv, TypeOK
<1>2. mem'.fin = mem.fin /\ mem'.inst = i /\ pc' \in {"member", "patch"}
  BY <1>1, HandleExistingInstanceKeeps
<1>3. inReconcile
  BY DEF HandleExistingInstance
<1> QED
  BY <1>2, <1>3, FreshRuns DEF NormalPCs, DeletePCs

LEMMA FreshProceed ==
    ASSUME FreshFull, [Next]_vars, Proceed, ~PatchObject, ~PatchStatus
    PROVE  FreshInv'
<1> USE DEF FreshFull, BaseInv, NormalPCs, DeletePCs
<1>1. mem \in CR
  BY DEF TypeInv, TypeOK
<1>2. ASSUME NEW i PROVE /\ [mem EXCEPT !.inst = i].fin = mem.fin
                         /\ [mem EXCEPT !.inst = i].inst = i
                         /\ [mem EXCEPT !.lb = i].fin = mem.fin
                         /\ [mem EXCEPT !.lb = i].inst = mem.inst
                         /\ [mem EXCEPT !.reg = i].fin = mem.fin
                         /\ [mem EXCEPT !.reg = i].inst = mem.inst
                         /\ [mem EXCEPT !.fin = FALSE].inst = mem.inst
  BY <1>1 DEF CR
\* a 404 is the one reason to forget what is recorded
<1>3. CASE GetKnownInstance
  <2>1. pc = "get" /\ mem.inst \in Instances /\ cur \in Machines
    BY <1>3 DEF GetKnownInstance, TypeInv, TypeOK, KnowsInstance
  <2>2. CASE HandleExistingInstance(mem.inst)
    BY <2>1, <2>2, FreshFound
  <2>3. CASE ~HandleExistingInstance(mem.inst)
    <3>1. /\ ~Present(mem.inst) /\ mem' = [mem EXCEPT !.inst = None]
          /\ pc' = AdoptOrFind(cur) /\ inReconcile
      BY <1>3, <2>3 DEF GetKnownInstance
    <3>2. Own(cur, mem.inst)
      BY <2>1, ConstantsAssumption DEF OwnInv
    <3>3. Doomed(mem.inst)
      BY <2>1, <3>1, <3>2, OwnExists DEF Present, Doomed
    <3>4. pc' \in {"adopt", "find"} /\ mem'.inst = None
      BY <1>2, <3>1 DEF AdoptOrFind
    <3> QED
      BY <2>1, <3>1, <3>3, <3>4, FreshRuns
  <2> QED
    BY <2>2, <2>3
<1>4. CASE AdoptInstance
  <2>1. pc = "adopt" /\ Adopt[cur] \in Instances
    BY <1>4 DEF AdoptInstance, TypeInv, KnowsInstance
  <2>2. CASE HandleExistingInstance(Adopt[cur])
    BY <2>1, <2>2, FreshFound
  <2>3. CASE ~HandleExistingInstance(Adopt[cur])
    BY <1>4, <2>1, <2>3, FreshRuns DEF AdoptInstance, Return
  <2> QED
    BY <2>2, <2>3
<1>5. CASE FindInstanceByName
  <2>1. pc = "find"
    BY <1>5 DEF FindInstanceByName
  <2>2. CASE \E i \in Named(InstanceName[cur]) : HandleExistingInstance(i)
    BY <2>1, <2>2, FreshFound DEF Named
  <2>3. CASE ~\E i \in Named(InstanceName[cur]) : HandleExistingInstance(i)
    BY <1>5, <2>1, <2>3, FreshRuns DEF FindInstanceByName
  <2> QED
    BY <2>2, <2>3
<1>6. CASE ResolveCreateOptions
  BY <1>6, FreshRuns DEF ResolveCreateOptions
<1>7. CASE CreateInstance
  BY <1>2, <1>7, FreshRuns DEF CreateInstance, Return
<1>8. CASE CallFails
  BY <1>8, FreshRuns DEF CallFails, Return
<1>9. CASE CreateInstanceRetried
  BY <1>9, FreshRuns DEF CreateInstanceRetried, RetryPost, Return
<1>10. CASE EnsureLBPoolMember
  BY <1>2, <1>10, FreshRuns DEF EnsureLBPoolMember
<1>11. CASE MemberSkipped
  BY <1>11, FreshRuns DEF MemberSkipped
<1>12. CASE EnsureRKE2RegisterPoolMember
  BY <1>2, <1>12, FreshRuns DEF EnsureRKE2RegisterPoolMember
<1>13. CASE RegisterSkipped
  BY <1>13, FreshRuns DEF RegisterSkipped
<1>14. CASE RemoveLBPoolMember
  BY <1>2, <1>14, FreshRuns DEF RemoveLBPoolMember
\* no id is recorded now, so that all that was ever read is gone
<1>15. CASE NothingToDelete
  <2>1. pc = "delete" /\ mem.inst = None /\ cur \in Machines /\ FreshRun
    BY <1>15 DEF NothingToDelete, FreshInv, TypeInv, TypeOK
  <2>2. \A i \in seen[cur] : i \in Instances /\ i # None
    BY <2>1, ConstantsAssumption DEF TypeInv, TypeOK
  <2>3. seen' = seen /\ cur' = cur
    BY <1>15 DEF NothingToDelete, inReconcile, histVars
  <2>4. SeenGone(cur)'
    BY <2>1, <2>2, <2>3, GoingStays DEF FreshRun, FreshInv, SeenGone
  <2> QED
    BY <1>2, <1>15, <2>4, FreshRuns DEF NothingToDelete, RemoveFinalizer, Return
<1>16. CASE DeleteInstance
  <2>1. mem' = mem /\ pc = "delete" /\ mem.inst \in Instances /\ Terminate(mem.inst)
    BY <1>16 DEF DeleteInstance, TypeInv, TypeOK, CR, Ids
  <2>2. Doomed(mem.inst)'
    BY <2>1 DEF Terminate, Doomed, TypeInv, TypeOK
  <2> QED
    BY <1>16, <2>1, <2>2, FreshRuns DEF DeleteInstance
<1>17. CASE DeleteInstanceFails
  BY <1>17, FreshRuns DEF DeleteInstanceFails, Return
<1>18. CASE StillTerminating
  BY <1>18, FreshRuns DEF StillTerminating, Return
<1>19. CASE VerifyGone
  <2>1. pc = "verify" /\ cur \in Machines /\ mem.inst \in Instances /\ FreshRun
    BY <1>19 DEF VerifyGone, TypeInv, TypeOK, KnowsInstance, FreshInv
  <2>2. \A i \in seen[cur] : i \in Instances
    BY <2>1 DEF TypeInv, TypeOK
  <2>3. seen' = seen /\ cur' = cur
    BY <1>19 DEF VerifyGone, inReconcile, histVars
  <2>4. SeenGone(cur)'
    BY <2>1, <2>2, <2>3, GoingStays DEF FreshRun, FreshInv, SeenGone
  <2> QED
    BY <1>2, <1>19, <2>1, <2>4, FreshRuns DEF VerifyGone, RemoveFinalizer, Return
<1> QED
  BY <1>3, <1>4, <1>5, <1>6, <1>7, <1>8, <1>9, <1>10, <1>11, <1>12, <1>13, <1>14,
     <1>15, <1>16, <1>17, <1>18, <1>19 DEF Proceed

LEMMA FreshPatchObject ==
    ASSUME FreshFull, PatchObject
    PROVE  FreshInv'
<1> USE DEF FreshFull, BaseInv
<1>1. /\ UNCHANGED <<cache, seen, cur, base, mem, inst>> /\ cur \in Machines
      /\ pc # "idle" /\ pc' = "patchStatus"
  BY DEF PatchObject, inPatch, cloudVars, histVars, TypeInv, TypeOK
<1>2. \A i : Doomed(i)' = Doomed(i)
  BY <1>1 DEF Doomed
<1>3. ASSUME NEW m \in Machines
      PROVE  /\ \A i \in seen'[m] : Doomed(i)' \/ obj'[m].inst = i
             /\ obj'[m].inst # None \/ cache'[m].inst # None \/ seen'[m] # {} =>
                  obj'[m].fin \/ obj'[m].del
  BY <1>1, <1>2, FinalizerWritten DEF FreshInv
<1>4. FreshRun'
  BY <1>1, <1>2, FinalizerWritten DEF FreshInv, FreshRun, DeletePCs
<1> QED
  BY <1>3, <1>4 DEF FreshInv

LEMMA FreshPatchStatus ==
    ASSUME FreshFull, PatchStatus
    PROVE  FreshInv'
<1> USE DEF FreshFull, BaseInv
<1>1. /\ UNCHANGED <<cache, seen, inst>> /\ cur \in Machines /\ pc # "idle" /\ pc' = "idle"
      /\ obj \in [Machines -> CR] /\ obj[cur] \in CR /\ FreshRun
  BY DEF PatchStatus, Done, inPatch, cloudVars, histVars, TypeInv, TypeOK, FreshInv
<1>2. /\ \A n \in Machines \ {cur} : obj'[n] = obj[n]
      /\ obj'[cur].fin = obj[cur].fin /\ obj'[cur].del = obj[cur].del
      /\ obj'[cur].inst \in {obj[cur].inst, Merged("inst")}
  <2>1. CASE obj' = obj
    BY <2>1
  <2>2. CASE obj' # obj
    <3>1. obj' = [obj EXCEPT ![cur].inst = Merged("inst"), ![cur].ready = Merged("ready"),
                             ![cur].failed = Merged("failed"), ![cur].lb = Merged("lb"),
                             ![cur].reg = Merged("reg")]
      BY <2>2 DEF PatchStatus
    <3> QED
      BY <1>1, <3>1 DEF CR
  <2> QED
    BY <2>1, <2>2
<1>3. /\ obj'[cur].inst # obj[cur].inst => obj[cur].inst = None \/ Doomed(obj[cur].inst)
      /\ obj'[cur].inst # None => obj[cur].fin \/ obj[cur].del
  BY <1>1, <1>2 DEF Merged, FreshRun, FreshInv
<1>4. \A i : Doomed(i)' = Doomed(i)
  BY <1>1 DEF Doomed
<1>5. ASSUME NEW m \in Machines
      PROVE  /\ \A i \in seen'[m] : Doomed(i)' \/ obj'[m].inst = i
             /\ obj'[m].inst # None \/ cache'[m].inst # None \/ seen'[m] # {} =>
                  obj'[m].fin \/ obj'[m].del
  <2>1. \A i \in seen[m] : i \in Instances /\ i # None
    BY ConstantsAssumption DEF TypeInv, TypeOK
  <2> QED
    BY <1>1, <1>2, <1>3, <1>4, <2>1 DEF FreshInv
<1> QED
  BY <1>1, <1>5 DEF FreshInv

LEMMA FreshKube ==
    ASSUME FreshFull, NEW m \in Machines, CacheSync(m) \/ UserDelete(m) \/ UserKeep(m)
    PROVE  FreshInv'
<1> USE DEF FreshFull, BaseInv
<1>1. /\ obj \in [Machines -> CR] /\ cache \in [Machines -> CR] /\ obj[m] \in CR
      /\ UNCHANGED <<seen, pc, cur, base, mem, inst>> /\ (pc # "idle" => cur \in Machines)
  BY DEF TypeInv, TypeOK, CacheSync, UserDelete, UserKeep, kubeEnv, workerVars, cloudVars,
         histVars
<1>2. /\ \A n \in Machines : /\ obj'[n].inst = obj[n].inst /\ obj'[n].fin = obj[n].fin
                             /\ obj[n].del => obj'[n].del
                             /\ obj[n].keep => obj'[n].keep
      /\ \A n \in Machines : cache'[n].inst \in {cache[n].inst, obj[n].inst}
  <2>1. CASE CacheSync(m)
    BY <1>1, <2>1 DEF CacheSync
  <2>2. CASE UserDelete(m)
    BY <1>1, <2>2 DEF UserDelete, kubeEnv, CR
  <2>3. CASE UserKeep(m)
    BY <1>1, <2>3 DEF UserKeep, kubeEnv, CR
  <2> QED
    BY <2>1, <2>2, <2>3
<1>3. \A i : Doomed(i)' = Doomed(i)
  BY <1>1 DEF Doomed
<1>4. ASSUME NEW n \in Machines
      PROVE  /\ \A i \in seen'[n] : Doomed(i)' \/ obj'[n].inst = i
             /\ obj'[n].inst # None \/ cache'[n].inst # None \/ seen'[n] # {} =>
                  obj'[n].fin \/ obj'[n].del
  BY <1>1, <1>2, <1>3 DEF FreshInv
<1>5. ASSUME pc # "idle" PROVE FreshRun'
  <2>1. FreshRun /\ cur \in Machines
    BY <1>1, <1>5 DEF FreshInv
  <2>2. SeenGone(cur)' = SeenGone(cur)
    BY <1>1, <1>3 DEF SeenGone
  <2> QED
    BY <1>1, <1>2, <1>3, <2>1, <2>2 DEF FreshRun
<1> QED
  BY <1>1, <1>4, <1>5 DEF FreshInv

LEMMA FreshElse ==
    ASSUME FreshFull, [Next]_vars, UNCHANGED <<obj, cache, pc, cur, base, mem, seen>>
    PROVE  FreshInv'
<1> USE DEF FreshFull, BaseInv
<1>1. \A m \in Machines : \A i \in seen[m] : i \in Instances
  BY DEF TypeInv, TypeOK
<1>2. ASSUME NEW n \in Machines
      PROVE  /\ \A i \in seen'[n] : Doomed(i)' \/ obj'[n].inst = i
             /\ obj'[n].inst # None \/ cache'[n].inst # None \/ seen'[n] # {} =>
                  obj'[n].fin \/ obj'[n].del
  BY <1>1, GoingStays DEF FreshInv
<1>3. ASSUME pc # "idle" PROVE FreshRun'
  <2>1. /\ FreshRun /\ cur \in Machines /\ (pc = "verify" => mem.inst \in Instances)
        /\ base.inst = None \/ base.inst \in Instances
    BY <1>3 DEF FreshInv, TypeInv, TypeOK, KnowsInstance, CR, Ids
  <2>2. pc = "verify" => Doomed(mem.inst)'
    BY <2>1, GoingStays DEF FreshRun
  <2>3. SeenGone(cur) => SeenGone(cur)'
    BY <1>1, <2>1, GoingStays DEF SeenGone
  <2>4. Doomed(base.inst) /\ base.inst # None => Doomed(base.inst)'
    BY <2>1, GoingStays
  <2> QED
    BY <2>1, <2>2, <2>3, <2>4 DEF FreshRun
<1> QED
  BY <1>2, <1>3 DEF FreshInv

LEMMA FreshStep ==
    ASSUME "stale" \notin FaultKinds
    PROVE  FreshFull /\ [Next]_vars => FreshInv'
<1> SUFFICES ASSUME FreshFull, [Next]_vars PROVE FreshInv'
  OBVIOUS
<1>1. CASE UNCHANGED vars
  BY <1>1, FreshElse DEF vars, workerVars, histVars
<1>2. ASSUME NEW m \in Machines,
             \/ Start(m) \/ ReadFails(m) \/ CacheSync(m)
             \/ UserDelete(m) \/ UserKeep(m) \/ StageProgress(m)
      PROVE  FreshInv'
  <2>1. CASE StageProgress(m)
    BY <2>1, FreshElse DEF StageProgress, kubeEnv, workerVars
  <2> QED
    BY <1>2, <2>1, FreshStart, FreshKube
<1>3. CASE Proceed
  BY <1>3, FreshProceed, FreshPatchObject, FreshPatchStatus
<1>4. CASE \E i \in Instances : CloudProgress(i) \/ CloudFault(i)
  <2>1. UNCHANGED <<obj, cache, pc, cur, base, mem, seen>>
    BY <1>4 DEF CloudProgress, CloudFault, InstanceChange, cloudEnv, workerVars
  <2> QED
    BY <2>1, FreshElse
<1>5. CASE Crash
  <2>1. UNCHANGED <<obj, inst, seen>> /\ cache' = obj /\ pc' = "idle"
    BY <1>5 DEF Crash, cloudVars, histVars
  <2> QED
    BY <2>1 DEF FreshFull, FreshInv, Doomed
<1>6. CASE Resync \/ InfraBecomesReady \/ Pause \/ Unpause \/ PoolChange
  <2>1. UNCHANGED <<obj, cache, pc, cur, base, mem, seen>>
    BY <1>6 DEF Resync, InfraBecomesReady, Pause, Unpause, PoolChange, kubeEnv,
                workerVars, histVars
  <2> QED
    BY <2>1, FreshElse
<1> QED
  BY <1>1, <1>2, <1>3, <1>4, <1>5, <1>6 DEF Next

LEMMA FreshFullStep ==
    ASSUME "stale" \notin FaultKinds
    PROVE  FreshFull /\ [Next]_vars => FreshFull'
BY BaseStep, FinalizerStep, QueueStep, FreshStep DEF FreshFull, BaseInv

-----------------------------------------------------------------------------
(* The end of an object.                                                    *)

\* What a reconcile has learnt of is an object's with a finalizer, which is taken
\* off only when all of that is on its way out.
LearntInv ==
    /\ \A m \in Machines : cache[m].inst # None \/ seen[m] # {} => obj[m].fin \/ obj[m].del
    /\ pc = "patch" /\ base.fin /\ ~mem.fin => obj[cur].keep \/ SeenGone(cur)

CleanInv == BaseInv /\ FinalizerInv /\ QueueInv /\ LearntInv

LEMMA FullIsClean == FullInv => CleanInv
BY DEF FullInv, CleanInv, RecordInv, RunningInv, LearntInv, SeenGone

LEMMA FreshIsClean == FreshFull => CleanInv
BY DEF FreshFull, CleanInv, FreshInv, FreshRun, LearntInv

\* Where an object can go.
LEMMA Departure ==
    ASSUME CleanInv, Next, NEW m \in Machines, obj[m].ex, ~obj'[m].ex
    PROVE  \/ UserDelete(m) /\ ~obj[m].fin
           \/ PatchObject /\ m = cur /\ base.fin /\ ~mem.fin
<1> USE DEF CleanInv, BaseInv
<1>1. obj \in [Machines -> CR] /\ obj[m] \in CR
  BY DEF TypeInv, TypeOK
<1>2. ASSUME obj' = obj PROVE FALSE
  BY <1>2
<1>3. ASSUME NEW n \in Machines, UserDelete(n)
      PROVE  UserDelete(m) /\ ~obj[m].fin
  BY <1>1, <1>3 DEF UserDelete, CR, TypeInv, TypeOK
<1>4. ASSUME NEW n \in Machines, UserKeep(n) PROVE FALSE
  BY <1>1, <1>4 DEF UserKeep, CR
<1>5. CASE PatchObject
  BY <1>5, FinalizerWritten DEF TypeInv, TypeOK
<1>6. CASE PatchStatus
  <2>1. cur \in Machines /\ obj[cur] \in CR
    BY <1>6 DEF PatchStatus, TypeInv, TypeOK
  <2>2. obj' = [obj EXCEPT ![cur].inst = Merged("inst"), ![cur].ready = Merged("ready"),
                           ![cur].failed = Merged("failed"), ![cur].lb = Merged("lb"),
                           ![cur].reg = Merged("reg")]
    BY <1>2, <1>6 DEF PatchStatus
  <2> QED
    BY <1>1, <2>1, <2>2 DEF CR
<1>7. ASSUME NEW n \in Machines,
             Start(n) \/ ReadFails(n) \/ CacheSync(n) \/ StageProgress(n)
      PROVE  obj' = obj
  BY <1>7 DEF Start, ReadFails, ReconcileNotFound, WaitOwner,
        ReconcileNormalPaused, AddFinalizer, WaitInfraOrBootstrap, Locate,
        ReconcileDeleteKeep, ReconcileDelete, Begin, CacheSync, StageProgress
<1>8. CASE Proceed /\ ~PatchObject /\ ~PatchStatus
  <2>1. inReconcile
    BY <1>8 DEF Proceed, GetKnownInstance, AdoptInstance, FindInstanceByName,
       HandleExistingInstance, ResolveCreateOptions, CreateInstance, CallFails,
       CreateInstanceRetried, RetryPost, EnsureLBPoolMember, MemberSkipped,
       EnsureRKE2RegisterPoolMember, RegisterSkipped, RemoveLBPoolMember,
       NothingToDelete, DeleteInstance, DeleteInstanceFails, StillTerminating, VerifyGone
  <2> QED
    BY <1>2, <2>1 DEF inReconcile
<1>9. CASE \E i \in Instances : CloudProgress(i) \/ CloudFault(i)
  BY <1>2, <1>9 DEF CloudProgress, CloudFault, InstanceChange, cloudEnv
<1>10. CASE Crash \/ Resync \/ InfraBecomesReady \/ Pause \/ Unpause \/ PoolChange
  BY <1>2, <1>10 DEF Crash, Resync, InfraBecomesReady, Pause, Unpause, PoolChange
<1>11. CASE \E n \in Machines :
             \/ Start(n) \/ ReadFails(n) \/ CacheSync(n)
             \/ UserDelete(n) \/ UserKeep(n) \/ StageProgress(n)
  <2>1. PICK n \in Machines :
             \/ Start(n) \/ ReadFails(n) \/ CacheSync(n)
             \/ UserDelete(n) \/ UserKeep(n) \/ StageProgress(n)
    BY <1>11
  <2>2. CASE Start(n) \/ ReadFails(n) \/ CacheSync(n) \/ StageProgress(n)
    BY <1>2, <1>7, <2>2
  <2> QED
    BY <1>3, <1>4, <2>1, <2>2
<1>12. CASE Proceed
  BY <1>5, <1>6, <1>8, <1>12
<1> QED
  BY <1>9, <1>10, <1>11, <1>12 DEF Next

LEMMA DepartureClean ==
    ASSUME CleanInv, Next, NEW m \in Machines, obj[m].ex, ~obj'[m].ex, ~obj[m].keep
    PROVE  SeenGone(m)
<1>1. CASE UserDelete(m) /\ ~obj[m].fin
  <2>1. seen[m] = {}
    BY <1>1 DEF UserDelete, CleanInv, LearntInv
  <2> QED
    BY <2>1 DEF SeenGone
<1>2. CASE PatchObject /\ m = cur /\ base.fin /\ ~mem.fin
  BY <1>2 DEF PatchObject, CleanInv, LearntInv
<1> QED
  BY <1>1, <1>2, Departure

\* The faults under which reconciles keep track of the instances they learn of:
\* none reads an old copy; or no answer to CreateInstance is lost, nobody else
\* deletes instances, and names differ.
Traceable ==
    \/ "stale" \notin FaultKinds
    \/ NamesDiffer /\ {"lostPost", "vanish"} \intersect FaultKinds = {}

LEMMA AlwaysClean ==
    ASSUME Traceable
    PROVE  Spec => []CleanInv
<1>1. CASE "stale" \notin FaultKinds
  <2>1. FreshFull /\ [Next]_vars => FreshFull'
    BY <1>1, FreshFullStep
  <2> QED
    BY <2>1, FreshFullInit, FreshIsClean, PTL DEF Spec
<1>2. CASE NamesDiffer /\ {"lostPost", "vanish"} \intersect FaultKinds = {}
  <2>1. Init => FullInv
    BY <1>2, FullInit
  <2>2. FullInv /\ [Next]_vars => FullInv'
    BY <1>2, FullStep
  <2> QED
    BY <2>1, <2>2, FullIsClean, PTL DEF Spec
<1> QED
  BY <1>1, <1>2 DEF Traceable

\* An object that is not kept disappears only when every instance that its status
\* ever named to a reconcile is deleted or terminating: through any crash, failed
\* call, failed patch, lost answer or deletion by others if no reconcile reads an
\* old copy, and however old the copies are if no answer to CreateInstance is lost
\* and nobody else deletes instances.
THEOREM NamedInstancesGoFirst ==
    ASSUME Traceable
    PROVE  Spec => SeenInstancesDeleted
<1>1. CleanInv /\ [Next]_vars =>
        [\A m \in Machines :
           obj[m].ex /\ ~obj'[m].ex /\ ~obj[m].keep => \A i \in seen[m] : Doomed(i)]_vars
  BY DepartureClean DEF SeenGone
<1> QED
  BY <1>1, AlwaysClean, PTL DEF Spec, SeenInstancesDeleted
=============================================================================
