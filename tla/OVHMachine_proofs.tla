------------------------- MODULE OVHMachine_proofs -------------------------
(***************************************************************************)
(* Proofs about the OVHMachine controller, for any number of machines,     *)
(* instances, retries and faults: type correctness, that instances are     *)
(* created only under the finalizer, that the controller terminates only   *)
(* what it was asked to, and that it never drops a machine with work left. *)
(***************************************************************************)
EXTENDS OVHMachine, TLAPS

-----------------------------------------------------------------------------
(* Type correctness.  TypeOK alone is not inductive: a pool member is added *)
(* with the id in memory, which must be an instance's by then.  The last    *)
(* part is for later: a machine that adopts does not search or create.      *)

KnowsInstance ==
    /\ pc \in {"get", "member", "register", "verify"} => mem.inst \in Instances
    /\ pc = "adopt" => Adopt[cur] \in Instances
    /\ pc \in {"find", "resolve", "post"} => Adopt[cur] = None

TypeInv == TypeOK /\ KnowsInstance

\* A fault stays within the bound.
LEMMA FaultType ==
    ASSUME NEW k, faults \in 0 .. MaxFaults, Fault(k)
    PROVE  faults' \in 0 .. MaxFaults
BY ConstantsAssumption DEF Fault

\* The objects a reconcile works on are made of the cached one.
LEMMA CopyType ==
    ASSUME NEW r \in CR, NEW b \in BOOLEAN, NEW i \in Ids
    PROVE  /\ [r EXCEPT !.fin = b] \in CR
           /\ [r EXCEPT !.ready = b] \in CR
           /\ [r EXCEPT !.fin = b, !.ready = FALSE] \in CR
           /\ [r EXCEPT !.inst = i] \in CR
           /\ [r EXCEPT !.lb = i] \in CR
           /\ [r EXCEPT !.reg = i] \in CR
           /\ [r EXCEPT !.inst = i, !.prov = i, !.ready = TRUE] \in CR
           /\ [r EXCEPT !.inst = i, !.ready = FALSE, !.failed = TRUE] \in CR
           /\ [r EXCEPT !.inst = i, !.ready = FALSE] \in CR
BY DEF CR

LEMMA NewType == NewCR \in CR /\ NoCR \in CR
BY DEF CR, NewCR, NoCR, Ids

LEMMA TypeInit == Init => TypeInv
<1> SUFFICES ASSUME Init PROVE TypeInv
  OBVIOUS
<1>1. obj \in [Machines -> CR] /\ cache \in [Machines -> CR]
  BY NewType DEF Init
<1>2. inst \in [Instances -> [st : Statuses, name : Names \union {None}]]
  BY DEF Init, Statuses
<1>3. stage \in [Machines -> Stages] /\ seen \in [Machines -> SUBSET Instances]
  BY DEF Init, Stages
<1>4. att \in 0 .. MaxRetries /\ faults \in 0 .. MaxFaults
  BY ConstantsAssumption DEF Init
<1> QED
  BY <1>1, <1>2, <1>3, <1>4, NewType, ConstantsAssumption
     DEF Init, TypeInv, TypeOK, KnowsInstance, PCs, Pools

\* A reconcile begins.
LEMMA BeginType ==
    ASSUME TypeInv, NEW m \in Machines, NEW copy \in CR, Begin(m, copy),
           pc' \in {"patch", "get", "adopt", "find", "deregister"},
           again' \in BOOLEAN, faults' \in 0 .. MaxFaults,
           pc' = "get" => copy.inst \in Instances,
           pc' = "adopt" => Adopt[m] \in Instances,
           pc' = "find" => Adopt[m] = None
    PROVE  TypeInv'
<1>1. cache[m] \in CR
  BY DEF TypeInv, TypeOK
<1>2. cache[m].inst \in Ids
  BY <1>1 DEF CR
<1>3. seen' \in [Machines -> SUBSET Instances]
  BY <1>2 DEF TypeInv, TypeOK, Begin, Ids
<1>4. att' \in 0 .. MaxRetries
  BY ConstantsAssumption DEF Begin
<1> QED
  BY <1>1, <1>3, <1>4
     DEF TypeInv, TypeOK, KnowsInstance, Begin, PCs, cloudVars, envVars

LEMMA StartType ==
    ASSUME TypeInv, NEW m \in Machines, Start(m) \/ ReadFails(m)
    PROVE  TypeInv'
<1>1. cache[m] \in CR /\ faults \in 0 .. MaxFaults
  BY DEF TypeInv, TypeOK
<1>2. CASE ReconcileNotFound(m)
  BY <1>2 DEF TypeInv, TypeOK, KnowsInstance, ReconcileNotFound, workerVars,
              cloudVars, envVars, histVars
<1>3. CASE WaitOwner(m)
  BY <1>1, <1>3, BeginType DEF WaitOwner, Return
<1>4. CASE ReadFails(m)
  BY <1>1, <1>4, BeginType, FaultType DEF ReadFails, Return
<1>5. CASE ReconcileNormalPaused(m)
  <2>1. [cache[m] EXCEPT !.ready = FALSE] \in CR
    BY <1>1 DEF CR
  <2> QED
    BY <1>1, <1>5, <2>1, BeginType DEF ReconcileNormalPaused, Return
<1>6. CASE AddFinalizer(m)
  <2>1. [cache[m] EXCEPT !.fin = TRUE, !.ready = FALSE] \in CR
    BY <1>1 DEF CR
  <2> QED
    BY <1>1, <1>6, <2>1, BeginType DEF AddFinalizer, Return
<1>7. CASE WaitInfraOrBootstrap(m)
  BY <1>1, <1>7, BeginType DEF WaitInfraOrBootstrap, Return
<1>8. CASE Locate(m)
  <2>1. Adopt[m] \in Instances \union {None} /\ cache[m].inst \in Instances \union {None}
    BY <1>1, ConstantsAssumption DEF CR, Ids
  <2>2. pc' \in {"get", "adopt", "find"}
    BY <1>8 DEF Locate, AdoptOrFind
  <2>3. pc' = "get" => cache[m].inst \in Instances
    BY <1>8, <2>1 DEF Locate, AdoptOrFind
  <2>4. /\ pc' = "adopt" => Adopt[m] \in Instances
        /\ pc' = "find" => Adopt[m] = None
    BY <1>8, <2>1 DEF Locate, AdoptOrFind
  <2> QED
    BY <1>1, <1>8, <2>2, <2>3, <2>4, BeginType DEF Locate
<1>9. CASE ReconcileDeleteKeep(m)
  <2>1. [cache[m] EXCEPT !.fin = FALSE] \in CR
    BY <1>1 DEF CR
  <2> QED
    BY <1>1, <1>9, <2>1, BeginType DEF ReconcileDeleteKeep, Return
<1>10. CASE ReconcileDelete(m)
  BY <1>1, <1>10, BeginType DEF ReconcileDelete
<1> QED
  BY <1>2, <1>3, <1>4, <1>5, <1>6, <1>7, <1>8, <1>9, <1>10 DEF Start

\* A step of a running reconcile.
LEMMA StepType ==
    ASSUME TypeInv, pc # "idle", inReconcile,
           pc' \in PCs \ {"idle"}, mem' \in CR, again' \in BOOLEAN,
           att' \in 0 .. MaxRetries, faults' \in 0 .. MaxFaults,
           inst' \in [Instances -> [st : Statuses, name : Names \union {None}]],
           apiPool' \subseteq Instances, regPool' \subseteq Instances,
           KnowsInstance'
    PROVE  TypeInv'
BY DEF TypeInv, TypeOK, inReconcile, envVars, histVars

LEMMA HandleExistingInstanceType ==
    ASSUME TypeInv, pc # "idle", NEW i \in Instances, HandleExistingInstance(i)
    PROVE  TypeInv'
<1>1. mem \in CR /\ i \in Ids
  BY DEF TypeInv, TypeOK, Ids
<1>2. mem' \in CR /\ pc' \in {"member", "patch"} /\ again' \in BOOLEAN
  <2>1. CASE inst[i].st = "ACTIVE"
    BY <1>1, <2>1, CopyType DEF HandleExistingInstance
  <2>2. CASE inst[i].st = "ERROR"
    BY <1>1, <2>2, CopyType DEF HandleExistingInstance, Return
  <2>3. CASE inst[i].st \notin {"ACTIVE", "ERROR"}
    BY <1>1, <2>3, CopyType DEF HandleExistingInstance, Return
  <2> QED
    BY <2>1, <2>2, <2>3
<1>3. pc' = "member" => mem'.inst = i
  <2>1. CASE inst[i].st = "ACTIVE"
    BY <1>1, <2>1 DEF HandleExistingInstance, CR
  <2>2. CASE inst[i].st = "ERROR"
    BY <2>2 DEF HandleExistingInstance, Return
  <2>3. CASE inst[i].st \notin {"ACTIVE", "ERROR"}
    BY <2>3 DEF HandleExistingInstance, Return
  <2> QED
    BY <2>1, <2>2, <2>3
<1>4. KnowsInstance'
  BY <1>2, <1>3 DEF KnowsInstance
<1>5. inReconcile /\ UNCHANGED <<att, inst, apiPool, regPool, faults>>
  BY DEF HandleExistingInstance, cloudVars
<1> QED
  BY <1>2, <1>4, <1>5, StepType DEF TypeInv, TypeOK, PCs

LEMMA AdoptOrFindType ==
    ASSUME NEW m \in Machines, AdoptOrFind(m) = "adopt"
    PROVE  Adopt[m] \in Instances
BY ConstantsAssumption DEF AdoptOrFind

\* OVH accepts a POST.
LEMMA SpawnType ==
    ASSUME TypeInv, cur \in Machines, NEW i \in Instances, Spawn(i)
    PROVE  inst' \in [Instances -> [st : Statuses, name : Names \union {None}]]
BY ConstantsAssumption DEF TypeInv, TypeOK, Spawn, Statuses

LEMMA TerminateType ==
    ASSUME TypeInv, NEW i, Terminate(i)
    PROVE  inst' \in [Instances -> [st : Statuses, name : Names \union {None}]]
BY DEF TypeInv, TypeOK, Terminate, Statuses

\* The OVH calls of ReconcileNormal.
LEMMA NormalType ==
    ASSUME TypeInv,
           \/ GetKnownInstance \/ AdoptInstance \/ FindInstanceByName
           \/ ResolveCreateOptions \/ CreateInstance \/ CallFails
           \/ CreateInstanceRetried
    PROVE  TypeInv'
<1> USE DEF PCs
<1>1. /\ mem \in CR /\ again \in BOOLEAN /\ att \in 0 .. MaxRetries
      /\ faults \in 0 .. MaxFaults
      /\ inst \in [Instances -> [st : Statuses, name : Names \union {None}]]
      /\ apiPool \subseteq Instances /\ regPool \subseteq Instances
      /\ pc # "idle" => cur \in Machines
      /\ pc \in {"find", "resolve", "post"} => Adopt[cur] = None
  BY DEF TypeInv, TypeOK, KnowsInstance
<1>2. ASSUME NEW i \in Ids PROVE [mem EXCEPT !.inst = i] \in CR
  BY <1>1 DEF CR
<1>3. CASE GetKnownInstance
  <2>1. pc = "get" /\ mem.inst \in Instances
    BY <1>3 DEF GetKnownInstance, TypeInv, KnowsInstance
  <2>2. CASE HandleExistingInstance(mem.inst)
    BY <2>1, <2>2, HandleExistingInstanceType
  <2>3. CASE ~HandleExistingInstance(mem.inst)
    <3>1. /\ mem' = [mem EXCEPT !.inst = None] /\ pc' = AdoptOrFind(cur)
          /\ inReconcile /\ UNCHANGED <<again, att, inst, apiPool, regPool, faults>>
      BY <1>3, <2>3 DEF GetKnownInstance, cloudVars
    <3>2. /\ pc' \in {"adopt", "find"} /\ (pc' = "adopt" => Adopt[cur] \in Instances)
          /\ pc' = "find" => Adopt[cur] = None
      BY <1>1, <2>1, <3>1, AdoptOrFindType DEF AdoptOrFind
    <3>3. KnowsInstance'
      BY <3>1, <3>2 DEF KnowsInstance, inReconcile
    <3> QED
      BY <1>1, <1>2, <2>1, <3>1, <3>2, <3>3, StepType DEF Ids
  <2> QED
    BY <2>2, <2>3
<1>4. CASE AdoptInstance
  <2>1. pc = "adopt" /\ Adopt[cur] \in Instances
    BY <1>4 DEF AdoptInstance, TypeInv, KnowsInstance
  <2>2. CASE HandleExistingInstance(Adopt[cur])
    BY <2>1, <2>2, HandleExistingInstanceType
  <2>3. CASE ~HandleExistingInstance(Adopt[cur])
    BY <1>1, <1>4, <2>1, <2>3, StepType
       DEF AdoptInstance, KnowsInstance, Return, cloudVars
  <2> QED
    BY <2>2, <2>3
<1>5. CASE FindInstanceByName
  <2>1. pc = "find"
    BY <1>5 DEF FindInstanceByName
  <2>2. CASE \E i \in Named(InstanceName[cur]) : HandleExistingInstance(i)
    BY <2>1, <2>2, HandleExistingInstanceType DEF Named
  <2>3. CASE ~\E i \in Named(InstanceName[cur]) : HandleExistingInstance(i)
    BY <1>1, <1>5, <2>1, <2>3, StepType
       DEF FindInstanceByName, KnowsInstance, inReconcile, cloudVars
  <2> QED
    BY <2>2, <2>3
<1>6. CASE ResolveCreateOptions
  BY <1>1, <1>6, StepType
     DEF ResolveCreateOptions, KnowsInstance, inReconcile, cloudVars
<1>7. CASE CreateInstance
  <2>1. PICK i \in Instances : Spawn(i) /\ mem' = [mem EXCEPT !.inst = i]
    BY <1>7 DEF CreateInstance
  <2>2. inst' \in [Instances -> [st : Statuses, name : Names \union {None}]]
    BY <1>1, <1>7, <2>1, SpawnType DEF CreateInstance
  <2>3. mem' \in CR
    BY <1>2, <2>1 DEF Ids
  <2> QED
    BY <1>1, <1>7, <2>2, <2>3, StepType DEF CreateInstance, Return, KnowsInstance
<1>8. CASE CallFails
  <2>1. faults' \in 0 .. MaxFaults
    BY <1>1, <1>8, FaultType DEF CallFails
  <2> QED
    BY <1>1, <1>8, <2>1, StepType DEF CallFails, Return, KnowsInstance, cloudVars
<1>9. CASE CreateInstanceRetried
  <2>1. faults' \in 0 .. MaxFaults
    BY <1>1, <1>9, FaultType DEF CreateInstanceRetried
  <2>2. inst' \in [Instances -> [st : Statuses, name : Names \union {None}]]
    BY <1>1, <1>9, SpawnType DEF CreateInstanceRetried
  <2>3. att' \in 0 .. MaxRetries
    <3>1. att' = att \/ (att < MaxRetries /\ att' = att + 1)
      BY <1>9 DEF CreateInstanceRetried, RetryPost
    <3> QED
      BY <1>1, <3>1, ConstantsAssumption
  <2>4. again' \in BOOLEAN /\ pc' \in {"post", "patch"}
    BY <1>1, <1>9 DEF CreateInstanceRetried, RetryPost, Return
  <2> QED
    BY <1>1, <1>9, <2>1, <2>2, <2>3, <2>4, StepType
       DEF CreateInstanceRetried, RetryPost, KnowsInstance, inReconcile
<1> QED
  BY <1>3, <1>4, <1>5, <1>6, <1>7, <1>8, <1>9

\* Pool members, and ReconcileDelete.
LEMMA MemberType ==
    ASSUME TypeInv,
           \/ EnsureLBPoolMember \/ MemberSkipped
           \/ EnsureRKE2RegisterPoolMember \/ RegisterSkipped
           \/ RemoveLBPoolMember
    PROVE  TypeInv'
<1> USE DEF PCs
<1>1. /\ mem \in CR /\ again \in BOOLEAN /\ att \in 0 .. MaxRetries
      /\ faults \in 0 .. MaxFaults
      /\ inst \in [Instances -> [st : Statuses, name : Names \union {None}]]
      /\ apiPool \subseteq Instances /\ regPool \subseteq Instances
  BY DEF TypeInv, TypeOK
<1>2. ASSUME NEW i \in Ids
      PROVE  /\ [mem EXCEPT !.lb = i] \in CR /\ [mem EXCEPT !.lb = i].inst = mem.inst
             /\ [mem EXCEPT !.reg = i] \in CR
  BY <1>1 DEF CR
<1>3. pc \in {"member", "register"} => mem.inst \in Instances /\ mem.inst \in Ids
  BY DEF TypeInv, KnowsInstance, Ids
<1>4. CASE EnsureLBPoolMember
  BY <1>1, <1>2, <1>3, <1>4, StepType DEF EnsureLBPoolMember, KnowsInstance
<1>5. CASE MemberSkipped
  <2>1. faults' \in 0 .. MaxFaults /\ apiPool' \subseteq Instances
    BY <1>1, <1>3, <1>5, FaultType DEF MemberSkipped
  <2> QED
    BY <1>1, <1>5, <2>1, StepType DEF MemberSkipped, KnowsInstance
<1>6. CASE EnsureRKE2RegisterPoolMember
  BY <1>1, <1>2, <1>3, <1>6, StepType DEF EnsureRKE2RegisterPoolMember, KnowsInstance
<1>7. CASE RegisterSkipped
  <2>1. faults' \in 0 .. MaxFaults /\ regPool' \subseteq Instances
    BY <1>1, <1>3, <1>7, FaultType DEF RegisterSkipped
  <2> QED
    BY <1>1, <1>7, <2>1, StepType DEF RegisterSkipped, KnowsInstance
<1>8. CASE RemoveLBPoolMember
  <2>1. faults' \in 0 .. MaxFaults /\ apiPool' \subseteq Instances
    BY <1>1, <1>8, FaultType DEF RemoveLBPoolMember
  <2>2. mem' \in CR
    BY <1>1, <1>2, <1>8 DEF RemoveLBPoolMember, Ids
  <2> QED
    BY <1>1, <1>8, <2>1, <2>2, StepType DEF RemoveLBPoolMember, KnowsInstance
<1> QED
  BY <1>4, <1>5, <1>6, <1>7, <1>8

LEMMA DeleteType ==
    ASSUME TypeInv,
           \/ NothingToDelete \/ DeleteInstance \/ DeleteInstanceFails
           \/ StillTerminating \/ VerifyGone
    PROVE  TypeInv'
<1> USE DEF PCs
<1>1. /\ mem \in CR /\ again \in BOOLEAN /\ att \in 0 .. MaxRetries
      /\ faults \in 0 .. MaxFaults
      /\ inst \in [Instances -> [st : Statuses, name : Names \union {None}]]
      /\ apiPool \subseteq Instances /\ regPool \subseteq Instances
  BY DEF TypeInv, TypeOK
<1>2. [mem EXCEPT !.fin = FALSE] \in CR /\ mem.inst \in Instances \union {None}
  BY <1>1 DEF CR, Ids
<1>3. CASE NothingToDelete
  BY <1>1, <1>2, <1>3, StepType
     DEF NothingToDelete, RemoveFinalizer, Return, KnowsInstance, cloudVars
<1>4. CASE DeleteInstance
  <2>1. inst' \in [Instances -> [st : Statuses, name : Names \union {None}]]
    BY <1>4, TerminateType DEF DeleteInstance
  <2> QED
    BY <1>1, <1>2, <1>4, <2>1, StepType DEF DeleteInstance, KnowsInstance
<1>5. CASE DeleteInstanceFails
  <2>1. inst' \in [Instances -> [st : Statuses, name : Names \union {None}]]
    BY <1>1, <1>5, TerminateType DEF DeleteInstanceFails
  <2>2. faults' \in 0 .. MaxFaults
    BY <1>1, <1>5, FaultType DEF DeleteInstanceFails
  <2> QED
    BY <1>1, <1>5, <2>1, <2>2, StepType DEF DeleteInstanceFails, Return, KnowsInstance
<1>6. CASE StillTerminating
  BY <1>1, <1>6, StepType DEF StillTerminating, Return, KnowsInstance, cloudVars
<1>7. CASE VerifyGone
  <2>1. faults' \in 0 .. MaxFaults
    BY <1>1, <1>7, FaultType DEF VerifyGone
  <2> QED
    BY <1>1, <1>2, <1>7, <2>1, StepType
       DEF VerifyGone, RemoveFinalizer, Return, KnowsInstance, cloudVars
<1> QED
  BY <1>3, <1>4, <1>5, <1>6, <1>7

\* The deferred patch.
LEMMA PatchType ==
    ASSUME TypeInv, PatchObject \/ PatchStatus
    PROVE  TypeInv'
<1> USE DEF PCs
<1>1. /\ mem \in CR /\ base \in CR /\ faults \in 0 .. MaxFaults /\ again \in BOOLEAN
      /\ obj \in [Machines -> CR] /\ (pc # "idle" => cur \in Machines)
      /\ queue \subseteq Machines
  BY DEF TypeInv, TypeOK
<1>2. pc \in {"patch", "patchStatus"} => cur \in Machines /\ obj[cur] \in CR
  BY <1>1
<1>3. CASE PatchObject
  <2>1. faults' \in 0 .. MaxFaults /\ again' \in BOOLEAN
    BY <1>1, <1>3, FaultType DEF PatchObject
  <2>2. obj' \in [Machines -> CR]
    <3>1. cur \in Machines /\ obj[cur] \in CR
      BY <1>2, <1>3 DEF PatchObject
    <3>2. Merged("fin") \in BOOLEAN /\ Merged("prov") \in Ids
      BY <1>1, <3>1 DEF Merged, CR
    <3>3. [obj EXCEPT ![cur].fin = Merged("fin"), ![cur].prov = Merged("prov"),
                      ![cur].ex = ~obj[cur].del \/ Merged("fin")]
            \in [Machines -> CR]
      BY <1>1, <3>1, <3>2 DEF CR
    <3> QED
      BY <1>1, <1>3, <3>3 DEF PatchObject
  <2> QED
    BY <1>3, <2>1, <2>2
       DEF TypeInv, TypeOK, KnowsInstance, PatchObject, inPatch, cloudVars, envVars,
           histVars
<1>4. CASE PatchStatus
  <2>1. faults' \in 0 .. MaxFaults
    BY <1>1, <1>4, FaultType DEF PatchStatus
  <2>2. obj' \in [Machines -> CR]
    <3>1. cur \in Machines /\ obj[cur] \in CR
      BY <1>2, <1>4 DEF PatchStatus
    <3>2. /\ Merged("inst") \in Ids /\ Merged("ready") \in BOOLEAN
          /\ Merged("failed") \in BOOLEAN /\ Merged("lb") \in Ids
          /\ Merged("reg") \in Ids
      BY <1>1, <3>1 DEF Merged, CR
    <3>3. [obj EXCEPT ![cur].inst = Merged("inst"), ![cur].ready = Merged("ready"),
                      ![cur].failed = Merged("failed"), ![cur].lb = Merged("lb"),
                      ![cur].reg = Merged("reg")] \in [Machines -> CR]
      BY <1>1, <3>1, <3>2 DEF CR
    <3> QED
      BY <1>1, <1>4, <3>3 DEF PatchStatus
  <2>3. \E b : Done(b)
    BY <1>4 DEF PatchStatus
  <2>4. /\ pc' = "idle" /\ cur' = None /\ base' = NoCR /\ mem' = NoCR
        /\ again' = FALSE /\ att' = 0 /\ queue' \subseteq queue \union {cur}
    BY <2>3 DEF Done
  <2>5. queue' \subseteq Machines
    BY <1>1, <1>2, <1>4, <2>4 DEF PatchStatus
  <2>6. att' \in 0 .. MaxRetries
    BY <2>4, ConstantsAssumption
  <2>7. base' \in CR /\ mem' \in CR
    BY <2>4, NewType
  <2> QED
    BY <1>4, <2>1, <2>2, <2>4, <2>5, <2>6, <2>7
       DEF TypeInv, TypeOK, KnowsInstance, PatchStatus, inPatch, cloudVars, envVars,
           histVars
<1> QED
  BY <1>3, <1>4

\* The API server, the cache, the user and CAPI.
LEMMA KubeType ==
    ASSUME TypeInv, NEW m \in Machines,
           \/ CacheSync(m) \/ UserDelete(m) \/ UserKeep(m) \/ StageProgress(m)
    PROVE  TypeInv'
<1>1. obj \in [Machines -> CR] /\ obj[m] \in CR
  BY DEF TypeInv, TypeOK
<1>2. CASE CacheSync(m)
  BY <1>2 DEF CacheSync, TypeInv, TypeOK, KnowsInstance, workerVars, cloudVars,
              envVars, histVars
<1>3. CASE UserDelete(m)
  <2>1. [obj EXCEPT ![m].del = TRUE, ![m].ex = obj[m].fin] \in [Machines -> CR]
    BY <1>1 DEF CR
  <2> QED
    BY <1>3, <2>1 DEF UserDelete, TypeInv, TypeOK, KnowsInstance, kubeEnv,
                      workerVars, cloudVars, envVars
<1>4. CASE UserKeep(m)
  <2>1. [obj EXCEPT ![m].keep = TRUE] \in [Machines -> CR]
    BY <1>1 DEF CR
  <2> QED
    BY <1>4, <2>1 DEF UserKeep, TypeInv, TypeOK, KnowsInstance, kubeEnv,
                      workerVars, cloudVars, envVars
<1>5. CASE StageProgress(m)
  BY <1>5 DEF StageProgress, Stages, TypeInv, TypeOK, KnowsInstance, kubeEnv,
              workerVars, cloudVars
<1> QED
  BY <1>2, <1>3, <1>4, <1>5

LEMMA KubeEnvType ==
    ASSUME TypeInv, Crash \/ Resync \/ InfraBecomesReady \/ Pause \/ Unpause
    PROVE  TypeInv'
<1>1. CASE Crash
  <2>1. faults' \in 0 .. MaxFaults /\ att' \in 0 .. MaxRetries
    BY <1>1, FaultType, ConstantsAssumption DEF Crash, TypeInv, TypeOK
  <2>2. base' \in CR /\ mem' \in CR
    BY <1>1, NewType DEF Crash
  <2>3. queue' \subseteq Machines
    BY <1>1 DEF Crash
  <2> QED
    BY <1>1, <2>1, <2>2, <2>3
       DEF Crash, PCs, TypeInv, TypeOK, KnowsInstance, cloudVars, envVars, histVars
<1> USE DEF TypeInv, TypeOK, KnowsInstance, workerVars, cloudVars, envVars, histVars,
            kubeEnv
<1>2. CASE Resync
  BY <1>2 DEF Resync
<1>3. CASE InfraBecomesReady
  BY <1>3 DEF InfraBecomesReady
<1>4. CASE Pause
  BY <1>4, FaultType DEF Pause
<1>5. CASE Unpause
  BY <1>5 DEF Unpause
<1> QED
  BY <1>1, <1>2, <1>3, <1>4, <1>5

\* OVH and the OVHCluster controller.
LEMMA CloudType ==
    ASSUME TypeInv,
           \/ PoolChange
           \/ \E i \in Instances : CloudProgress(i) \/ CloudFault(i)
    PROVE  TypeInv'
<1>1. CASE PoolChange
  <2>1. faults' \in 0 .. MaxFaults /\ pools' \subseteq Pools
    BY <1>1, FaultType DEF PoolChange, TypeInv, TypeOK
  <2> QED
    BY <1>1, <2>1
       DEF PoolChange, TypeInv, TypeOK, KnowsInstance, workerVars, histVars
<1>2. ASSUME NEW i \in Instances, CloudProgress(i) \/ CloudFault(i)
      PROVE  TypeInv'
  <2>1. faults' \in 0 .. MaxFaults
    BY <1>2, FaultType DEF CloudProgress, CloudFault, TypeInv, TypeOK
  <2>2. \E from \in SUBSET Statuses, to \in Statuses : InstanceChange(i, from, to)
    BY <1>2 DEF CloudProgress, CloudFault, Statuses
  <2>3. PICK to \in Statuses : /\ inst' = [inst EXCEPT ![i].st = to]
                               /\ cloudEnv
    BY <2>2 DEF InstanceChange
  <2> QED
    BY <2>1, <2>3
       DEF TypeInv, TypeOK, KnowsInstance, cloudEnv, workerVars, envVars
<1> QED
  BY <1>1, <1>2

LEMMA TypeStep == TypeInv /\ [Next]_vars => TypeInv'
<1> SUFFICES ASSUME TypeInv, [Next]_vars PROVE TypeInv'
  OBVIOUS
<1>1. CASE UNCHANGED vars
  BY <1>1 DEF TypeInv, TypeOK, KnowsInstance, vars, workerVars, cloudVars, envVars,
              histVars
<1>2. CASE Next
  <2>1. ASSUME NEW m \in Machines,
               \/ Start(m) \/ ReadFails(m) \/ CacheSync(m)
               \/ UserDelete(m) \/ UserKeep(m) \/ StageProgress(m)
        PROVE  TypeInv'
    BY <2>1, StartType, KubeType
  <2>2. CASE Proceed
    BY <2>2, NormalType, MemberType, DeleteType, PatchType DEF Proceed
  <2>3. CASE PoolChange \/ \E i \in Instances : CloudProgress(i) \/ CloudFault(i)
    BY <2>3, CloudType
  <2>4. CASE Crash \/ Resync \/ InfraBecomesReady \/ Pause \/ Unpause
    BY <2>4, KubeEnvType
  <2> QED
    BY <1>2, <2>1, <2>2, <2>3, <2>4 DEF Next
<1> QED
  BY <1>1, <1>2

\* Every variable keeps its type, whatever the faults and their number, and a
\* CreateInstance call is sent at most maxRetries + 1 times (retryWithBackoff).
THEOREM TypeCorrect == Spec => []TypeOK
<1>1. TypeInv => TypeOK
  BY DEF TypeInv
<1> QED
  BY <1>1, TypeInit, TypeStep, PTL DEF Spec

-----------------------------------------------------------------------------
(* The finalizer and the termination of instances.  The worker acts on what *)
(* the cache said when the reconcile began; the invariant says what is left *)
(* of that: a deletion never goes away, and a finalizer that was read with  *)
(* no deletion is still there.                                              *)

NormalPCs == {"get", "adopt", "find", "resolve", "post"}
DeletePCs == {"deregister", "delete", "verify"}

CacheBehind(m) ==
    /\ ~obj[m].del => obj[m].ex
    /\ cache[m].del => obj[m].del
    /\ cache[m].fin /\ ~cache[m].del => obj[m].ex /\ obj[m].fin
    /\ m \in kept => obj[m].keep
    /\ m \in kept /\ cache[m].del => cache[m].keep

ReconcileInv ==
    /\ base.del => cache[cur].del
    /\ base.fin /\ ~mem.fin => base.del
    /\ cur \in kept /\ base.del => base.keep
    /\ pc \in NormalPCs => obj[cur].ex /\ obj[cur].fin
    /\ pc \in DeletePCs => base.del /\ ~base.keep

FinalizerInv ==
    /\ \A m \in Machines : CacheBehind(m)
    /\ pc # "idle" => ReconcileInv

\* An instance that machine m may record: it has m's name or m adopts it.
Own(m, i) == inst[i].name = InstanceName[m] \/ Adopt[m] = i

OwnInv ==
    /\ \A i \in Instances : inst[i].st = "none" => inst[i].name = None
    /\ \A m \in Machines :
         /\ obj[m].inst # None => Own(m, obj[m].inst)
         /\ cache[m].inst # None => Own(m, cache[m].inst)
    /\ pc # "idle" =>
         /\ base.inst # None => Own(cur, base.inst)
         /\ mem.inst # None => Own(cur, mem.inst)

LEMMA FinalizerInit == Init => FinalizerInv
BY DEF Init, FinalizerInv, CacheBehind, NewCR

\* A reconcile begins: what it read is in the cache.
LEMMA FinalizerBegin ==
    ASSUME FinalizerInv, NEW m \in Machines, NEW copy, Begin(m, copy),
           cache[m].fin /\ ~copy.fin => cache[m].del,
           pc' \in NormalPCs => cache[m].fin /\ ~cache[m].del,
           pc' \in DeletePCs => cache[m].del /\ ~cache[m].keep
    PROVE  FinalizerInv'
<1>1. UNCHANGED <<obj, cache, kept>> /\ cur' = m /\ base' = cache[m] /\ mem' = copy
  BY DEF Begin
<1>2. \A n \in Machines : CacheBehind(n)'
  BY <1>1 DEF FinalizerInv, CacheBehind
<1>3. ReconcileInv'
  BY <1>1 DEF FinalizerInv, CacheBehind, ReconcileInv
<1> QED
  BY <1>2, <1>3 DEF FinalizerInv

LEMMA FinalizerStart ==
    ASSUME TypeInv, FinalizerInv, NEW m \in Machines, Start(m) \/ ReadFails(m)
    PROVE  FinalizerInv'
<1> USE DEF NormalPCs, DeletePCs
<1>1. cache[m] \in CR
  BY DEF TypeInv, TypeOK
<1>2. CASE ReconcileNotFound(m)
  BY <1>2 DEF FinalizerInv, CacheBehind, ReconcileInv, ReconcileNotFound, workerVars,
              histVars
<1>3. CASE WaitOwner(m)
  BY <1>3, FinalizerBegin DEF WaitOwner, Return
<1>4. CASE ReadFails(m)
  BY <1>4, FinalizerBegin DEF ReadFails, Return
<1>5. CASE ReconcileNormalPaused(m)
  <2>1. [cache[m] EXCEPT !.ready = FALSE].fin = cache[m].fin
    BY <1>1 DEF CR
  <2> QED
    BY <1>5, <2>1, FinalizerBegin DEF ReconcileNormalPaused, Return
<1>6. CASE AddFinalizer(m)
  BY <1>6, FinalizerBegin DEF AddFinalizer, Return
<1>7. CASE WaitInfraOrBootstrap(m)
  BY <1>7, FinalizerBegin DEF WaitInfraOrBootstrap, Return
<1>8. CASE Locate(m)
  <2>1. pc' \in NormalPCs
    BY <1>8 DEF Locate, AdoptOrFind
  <2> QED
    BY <1>8, <2>1, FinalizerBegin DEF Locate
<1>9. CASE ReconcileDeleteKeep(m)
  BY <1>9, FinalizerBegin DEF ReconcileDeleteKeep, Return
<1>10. CASE ReconcileDelete(m)
  BY <1>10, FinalizerBegin DEF ReconcileDelete
<1> QED
  BY <1>2, <1>3, <1>4, <1>5, <1>6, <1>7, <1>8, <1>9, <1>10 DEF Start

\* A step of a running reconcile, which removes the finalizer only on deletion.
LEMMA FinalizerKept ==
    ASSUME FinalizerInv, pc # "idle", inReconcile,
           mem'.fin = mem.fin \/ pc \in DeletePCs,
           pc' \in NormalPCs => pc \in NormalPCs,
           pc' \in DeletePCs => pc \in DeletePCs
    PROVE  FinalizerInv'
<1>1. UNCHANGED <<obj, cache, kept, cur, base>>
  BY DEF inReconcile, histVars
<1>2. \A n \in Machines : CacheBehind(n)'
  BY <1>1 DEF FinalizerInv, CacheBehind
<1>3. ReconcileInv'
  BY <1>1 DEF FinalizerInv, ReconcileInv
<1> QED
  BY <1>2, <1>3 DEF FinalizerInv

LEMMA HandleExistingInstanceKeeps ==
    ASSUME mem \in CR, NEW i \in Instances, HandleExistingInstance(i)
    PROVE  mem'.fin = mem.fin /\ mem'.inst = i /\ pc' \in {"member", "patch"}
<1>1. CASE inst[i].st = "ACTIVE"
  BY <1>1 DEF HandleExistingInstance, CR
<1>2. CASE inst[i].st = "ERROR"
  BY <1>2 DEF HandleExistingInstance, Return, CR
<1>3. CASE inst[i].st \notin {"ACTIVE", "ERROR"}
  BY <1>3 DEF HandleExistingInstance, Return, CR
<1> QED
  BY <1>1, <1>2, <1>3

LEMMA FinalizerProceed ==
    ASSUME TypeInv, FinalizerInv, Proceed, ~PatchObject, ~PatchStatus
    PROVE  FinalizerInv'
<1> USE DEF NormalPCs, DeletePCs
<1>1. mem \in CR
  BY DEF TypeInv, TypeOK
<1>2. ASSUME NEW i PROVE /\ [mem EXCEPT !.inst = i].fin = mem.fin
                         /\ [mem EXCEPT !.lb = i].fin = mem.fin
                         /\ [mem EXCEPT !.reg = i].fin = mem.fin
  BY <1>1 DEF CR
<1>3. CASE \/ GetKnownInstance \/ AdoptInstance \/ FindInstanceByName
  <2>1. pc \in NormalPCs
    BY <1>3 DEF GetKnownInstance, AdoptInstance, FindInstanceByName
  <2>2. CASE \E i \in Instances : HandleExistingInstance(i)
    <3>1. mem'.fin = mem.fin /\ pc' \in {"member", "patch"} /\ inReconcile
      BY <1>1, <2>2, HandleExistingInstanceKeeps DEF HandleExistingInstance
    <3> QED
      BY <2>1, <3>1, FinalizerKept
  <2>3. CASE ~\E i \in Instances : HandleExistingInstance(i)
    <3>1. CASE GetKnownInstance
      <4>1. mem.inst \in Instances
        BY <3>1 DEF GetKnownInstance, TypeInv, KnowsInstance
      <4>2. mem' = [mem EXCEPT !.inst = None] /\ inReconcile /\ pc' = AdoptOrFind(cur)
        BY <2>3, <3>1, <4>1 DEF GetKnownInstance
      <4> QED
        BY <1>2, <2>1, <4>2, FinalizerKept DEF AdoptOrFind
    <3>2. CASE AdoptInstance
      <4>1. Adopt[cur] \in Instances
        BY <3>2 DEF AdoptInstance, TypeInv, KnowsInstance
      <4> QED
        BY <2>1, <2>3, <3>2, <4>1, FinalizerKept DEF AdoptInstance, Return
    <3>3. CASE FindInstanceByName
      BY <2>1, <2>3, <3>3, FinalizerKept DEF FindInstanceByName, Named
    <3> QED
      BY <1>3, <3>1, <3>2, <3>3
  <2> QED
    BY <2>2, <2>3
<1>4. CASE ResolveCreateOptions
  BY <1>4, FinalizerKept DEF ResolveCreateOptions
<1>5. CASE CreateInstance
  BY <1>2, <1>5, FinalizerKept DEF CreateInstance, Return
<1>6. CASE CallFails
  BY <1>6, FinalizerKept DEF CallFails, Return
<1>7. CASE CreateInstanceRetried
  BY <1>7, FinalizerKept DEF CreateInstanceRetried, RetryPost, Return
<1>8. CASE EnsureLBPoolMember
  BY <1>2, <1>8, FinalizerKept DEF EnsureLBPoolMember
<1>9. CASE MemberSkipped
  BY <1>9, FinalizerKept DEF MemberSkipped
<1>10. CASE EnsureRKE2RegisterPoolMember
  BY <1>2, <1>10, FinalizerKept DEF EnsureRKE2RegisterPoolMember
<1>11. CASE RegisterSkipped
  BY <1>11, FinalizerKept DEF RegisterSkipped
<1>12. CASE RemoveLBPoolMember
  BY <1>12, FinalizerKept DEF RemoveLBPoolMember
<1>13. CASE NothingToDelete
  BY <1>13, FinalizerKept DEF NothingToDelete, RemoveFinalizer, Return
<1>14. CASE DeleteInstance
  BY <1>14, FinalizerKept DEF DeleteInstance
<1>15. CASE DeleteInstanceFails
  BY <1>15, FinalizerKept DEF DeleteInstanceFails, Return
<1>16. CASE StillTerminating
  BY <1>16, FinalizerKept DEF StillTerminating, Return
<1>17. CASE VerifyGone
  BY <1>17, FinalizerKept DEF VerifyGone, RemoveFinalizer, Return
<1> QED
  BY <1>3, <1>4, <1>5, <1>6, <1>7, <1>8, <1>9, <1>10, <1>11, <1>12, <1>13, <1>14,
     <1>15, <1>16, <1>17 DEF Proceed

\* The patch takes the finalizer off only an object whose deletion the cache
\* shows.
LEMMA FinalizerPatchObject ==
    ASSUME TypeInv, FinalizerInv, PatchObject
    PROVE  FinalizerInv'
<1>1. cur \in Machines /\ obj \in [Machines -> CR] /\ obj[cur] \in CR
  BY DEF TypeInv, TypeOK, PatchObject
<1>2. /\ pc # "idle" /\ pc' = "patchStatus" /\ UNCHANGED <<cache, kept, cur, base, mem>>
  BY DEF PatchObject, inPatch, histVars
<1>3. ReconcileInv /\ \A n \in Machines : CacheBehind(n)
  BY <1>2 DEF FinalizerInv
<1>4. ReconcileInv'
  BY <1>2, <1>3 DEF ReconcileInv, NormalPCs, DeletePCs
<1>5. CASE obj' = obj
  BY <1>2, <1>3, <1>4, <1>5 DEF FinalizerInv, CacheBehind
<1>6. CASE obj' # obj
  <2>1. obj' = [obj EXCEPT ![cur].fin = Merged("fin"), ![cur].prov = Merged("prov"),
                           ![cur].ex = ~obj[cur].del \/ Merged("fin")]
    BY <1>6 DEF PatchObject
  <2>2. /\ obj'[cur].fin = Merged("fin") /\ obj'[cur].del = obj[cur].del
        /\ obj'[cur].keep = obj[cur].keep
        /\ obj'[cur].ex = (~obj[cur].del \/ Merged("fin"))
    BY <1>1, <2>1 DEF CR
  <2>3. \A n \in Machines \ {cur} : obj'[n] = obj[n]
    BY <1>1, <2>1
  <2>4. CacheBehind(cur)'
    <3>1. CASE mem.fin = base.fin
      <4>1. Merged("fin") = obj[cur].fin
        BY <3>1 DEF Merged
      <4> QED
        BY <1>1, <1>2, <1>3, <2>2, <4>1 DEF CacheBehind
    <3>2. CASE mem.fin # base.fin
      <4>1. Merged("fin") = mem.fin
        BY <3>2 DEF Merged
      <4>2. mem.fin \/ cache[cur].del
        <5>1. mem.fin \in BOOLEAN /\ base.fin \in BOOLEAN
          BY DEF TypeInv, TypeOK, CR
        <5> QED
          BY <1>3, <3>2, <5>1 DEF ReconcileInv
      <4>3. CASE mem.fin
        BY <1>1, <1>2, <1>3, <2>2, <4>1, <4>3 DEF CacheBehind
      <4>4. CASE cache[cur].del
        BY <1>1, <1>2, <1>3, <2>2, <4>1, <4>4 DEF CacheBehind
      <4> QED
        BY <4>2, <4>3, <4>4
    <3> QED
      BY <3>1, <3>2
  <2>5. ASSUME NEW n \in Machines, n # cur PROVE CacheBehind(n)'
    BY <1>2, <1>3, <2>3, <2>5 DEF CacheBehind
  <2> QED
    BY <1>2, <1>4, <2>4, <2>5 DEF FinalizerInv
<1> QED
  BY <1>5, <1>6

LEMMA FinalizerPatchStatus ==
    ASSUME TypeInv, FinalizerInv, PatchStatus
    PROVE  FinalizerInv'
<1>1. cur \in Machines /\ obj \in [Machines -> CR] /\ obj[cur] \in CR
  BY DEF TypeInv, TypeOK, PatchStatus
<1>2. pc' = "idle" /\ UNCHANGED <<cache, kept>>
  BY DEF PatchStatus, Done, inPatch, histVars
<1>3. \A n \in Machines : /\ obj'[n].ex = obj[n].ex /\ obj'[n].del = obj[n].del
                           /\ obj'[n].fin = obj[n].fin /\ obj'[n].keep = obj[n].keep
  <2>1. CASE obj' = obj
    BY <2>1
  <2>2. CASE obj' # obj
    <3>1. obj' = [obj EXCEPT ![cur].inst = Merged("inst"), ![cur].ready = Merged("ready"),
                             ![cur].failed = Merged("failed"), ![cur].lb = Merged("lb"),
                             ![cur].reg = Merged("reg")]
      BY <2>2 DEF PatchStatus
    <3> QED
      BY <1>1, <3>1 DEF CR
  <2> QED
    BY <2>1, <2>2
<1> QED
  BY <1>2, <1>3 DEF FinalizerInv, CacheBehind

LEMMA FinalizerKube ==
    ASSUME TypeInv, FinalizerInv, NEW m \in Machines,
           CacheSync(m) \/ UserDelete(m) \/ UserKeep(m)
    PROVE  FinalizerInv'
<1>1. /\ obj \in [Machines -> CR] /\ cache \in [Machines -> CR] /\ obj[m] \in CR
      /\ pc # "idle" => cur \in Machines
  BY DEF TypeInv, TypeOK
<1>2. (\A n \in Machines : CacheBehind(n)) /\ (pc # "idle" => ReconcileInv)
  BY DEF FinalizerInv
<1>3. CASE CacheSync(m)
  <2>1. /\ UNCHANGED <<obj, kept, pc, cur, base, mem>> /\ cache'[m] = obj[m]
        /\ \A n \in Machines \ {m} : cache'[n] = cache[n]
    BY <1>1, <1>3 DEF CacheSync, workerVars, histVars
  <2>2. ASSUME NEW n \in Machines PROVE CacheBehind(n)'
    BY <1>2, <2>1 DEF CacheBehind
  <2>3. ASSUME pc # "idle" PROVE ReconcileInv'
    <3>1. cache[cur].del => cache'[cur].del
      BY <1>1, <1>2, <2>1, <2>3 DEF CacheBehind
    <3> QED
      BY <1>2, <2>1, <2>3, <3>1 DEF ReconcileInv
  <2> QED
    BY <2>1, <2>2, <2>3 DEF FinalizerInv
<1>4. CASE UserDelete(m)
  <2>1. /\ UNCHANGED <<cache, pc, cur, base, mem>> /\ ~obj[m].del
        /\ \A n \in Machines \ {m} : obj'[n] = obj[n] /\ (n \in kept' => n \in kept)
        /\ obj'[m].del /\ obj'[m].ex = obj[m].fin /\ obj'[m].fin = obj[m].fin
        /\ obj'[m].keep = obj[m].keep /\ (m \in kept' => m \in kept \/ obj[m].keep)
    BY <1>1, <1>4 DEF UserDelete, kubeEnv, workerVars, CR
  <2>2. ASSUME NEW n \in Machines PROVE CacheBehind(n)'
    BY <1>2, <2>1 DEF CacheBehind
  <2>3. ASSUME pc # "idle" PROVE ReconcileInv'
    <3>1. cur \in Machines /\ CacheBehind(cur) /\ ReconcileInv
      BY <1>1, <1>2, <2>3
    <3> QED
      BY <2>1, <3>1 DEF ReconcileInv, CacheBehind
  <2> QED
    BY <2>1, <2>2, <2>3 DEF FinalizerInv
<1>5. CASE UserKeep(m)
  <2>1. /\ UNCHANGED <<cache, kept, pc, cur, base, mem>>
        /\ \A n \in Machines \ {m} : obj'[n] = obj[n]
        /\ obj'[m].del = obj[m].del /\ obj'[m].ex = obj[m].ex
        /\ obj'[m].fin = obj[m].fin /\ obj'[m].keep
    BY <1>1, <1>5 DEF UserKeep, kubeEnv, workerVars, CR
  <2>2. ASSUME NEW n \in Machines PROVE CacheBehind(n)'
    BY <1>2, <2>1 DEF CacheBehind
  <2>3. ASSUME pc # "idle" PROVE ReconcileInv'
    BY <1>1, <1>2, <2>1, <2>3 DEF ReconcileInv
  <2> QED
    BY <2>1, <2>2, <2>3 DEF FinalizerInv
<1> QED
  BY <1>3, <1>4, <1>5

LEMMA FinalizerCrash ==
    ASSUME FinalizerInv, Crash
    PROVE  FinalizerInv'
<1>1. pc' = "idle" /\ UNCHANGED <<obj, kept>> /\ cache' = obj
  BY DEF Crash, histVars
<1> QED
  BY <1>1 DEF FinalizerInv, CacheBehind

\* Everything else leaves the objects, the cache and the worker alone.
LEMMA FinalizerElse ==
    ASSUME FinalizerInv, UNCHANGED <<obj, cache, kept, pc, cur, base, mem>>
    PROVE  FinalizerInv'
BY DEF FinalizerInv, CacheBehind, ReconcileInv

LEMMA FinalizerStep == TypeInv /\ FinalizerInv /\ [Next]_vars => FinalizerInv'
<1> SUFFICES ASSUME TypeInv, FinalizerInv, [Next]_vars PROVE FinalizerInv'
  OBVIOUS
<1>1. CASE UNCHANGED vars
  BY <1>1, FinalizerElse DEF vars, workerVars, histVars
<1>2. ASSUME NEW m \in Machines,
             \/ Start(m) \/ ReadFails(m) \/ CacheSync(m)
             \/ UserDelete(m) \/ UserKeep(m) \/ StageProgress(m)
      PROVE  FinalizerInv'
  <2>1. CASE StageProgress(m)
    BY <2>1, FinalizerElse DEF StageProgress, kubeEnv, workerVars
  <2> QED
    BY <1>2, <2>1, FinalizerStart, FinalizerKube
<1>3. CASE Proceed
  BY <1>3, FinalizerProceed, FinalizerPatchObject, FinalizerPatchStatus
<1>4. CASE \E i \in Instances : CloudProgress(i) \/ CloudFault(i)
  <2>1. UNCHANGED <<obj, cache, kept, pc, cur, base, mem>>
    BY <1>4 DEF CloudProgress, CloudFault, InstanceChange, cloudEnv, workerVars
  <2> QED
    BY <2>1, FinalizerElse
<1>5. CASE Crash
  BY <1>5, FinalizerCrash
<1>6. CASE Resync \/ InfraBecomesReady \/ Pause \/ Unpause \/ PoolChange
  <2>1. UNCHANGED <<obj, cache, kept, pc, cur, base, mem>>
    BY <1>6 DEF Resync, InfraBecomesReady, Pause, Unpause, PoolChange, kubeEnv,
                workerVars, histVars
  <2> QED
    BY <2>1, FinalizerElse
<1> QED
  BY <1>1, <1>2, <1>3, <1>4, <1>5, <1>6 DEF Next

\* A CreateInstance request is sent only while the API server holds the object
\* with its finalizer, however stale the copy the reconcile works on.
THEOREM CreatesUnderFinalizer == Spec => []CreateUnderFinalizer
<1>1. FinalizerInv => CreateUnderFinalizer
  BY DEF FinalizerInv, ReconcileInv, CreateUnderFinalizer, NormalPCs
<1> QED
  BY <1>1, TypeInit, TypeStep, FinalizerInit, FinalizerStep, PTL DEF Spec

-----------------------------------------------------------------------------
(* Which instances are recorded.  A name is given once, when the instance   *)
(* is created, so an instance that is a machine's own stays its own.        *)

\* What a step may do to the instances: nothing, create one under the name of
\* the current machine, or move one along.
InstanceStep ==
    \/ inst' = inst
    \/ cur \in Machines /\ \E i \in Instances : Spawn(i)
    \/ \E i \in Instances, to \in Statuses \ {"none"} : inst' = [inst EXCEPT ![i].st = to]

LEMMA TerminateStep ==
    ASSUME NEW i \in Instances, Terminate(i)
    PROVE  InstanceStep
BY DEF Terminate, InstanceStep, Statuses

LEMMA InstanceSteps == TypeInv /\ [Next]_vars => InstanceStep
<1> SUFFICES ASSUME TypeInv, [Next]_vars PROVE InstanceStep
  OBVIOUS
<1> USE DEF cloudVars
<1>1. CASE UNCHANGED vars
  BY <1>1 DEF vars, InstanceStep
<1>2. ASSUME NEW m \in Machines,
             \/ Start(m) \/ ReadFails(m) \/ CacheSync(m)
             \/ UserDelete(m) \/ UserKeep(m) \/ StageProgress(m)
      PROVE  InstanceStep
  <2>1. CASE Start(m) \/ ReadFails(m)
    BY <2>1 DEF InstanceStep, Start, ReadFails, ReconcileNotFound, WaitOwner,
                ReconcileNormalPaused, AddFinalizer, WaitInfraOrBootstrap, Locate,
                ReconcileDeleteKeep, ReconcileDelete, Begin
  <2>2. CASE CacheSync(m) \/ UserDelete(m) \/ UserKeep(m) \/ StageProgress(m)
    BY <2>2 DEF InstanceStep, CacheSync, UserDelete, UserKeep, StageProgress, kubeEnv
  <2> QED
    BY <1>2, <2>1, <2>2
<1>3. CASE Proceed
  <2>1. CASE CreateInstance \/ CreateInstanceRetried
    <3>1. cur \in Machines
      BY <2>1 DEF CreateInstance, CreateInstanceRetried, TypeInv, TypeOK
    <3> QED
      BY <2>1, <3>1 DEF CreateInstance, CreateInstanceRetried, InstanceStep
  <2>2. CASE DeleteInstance \/ DeleteInstanceFails
    <3>1. mem.inst \in Instances
      BY <2>2 DEF DeleteInstance, DeleteInstanceFails, TypeInv, TypeOK, CR, Ids
    <3>2. CASE UNCHANGED inst
      BY <3>2 DEF InstanceStep
    <3> QED
      BY <2>2, <3>1, <3>2, TerminateStep DEF DeleteInstance, DeleteInstanceFails
  <2>3. CASE PatchObject \/ PatchStatus
    BY <2>3 DEF InstanceStep, PatchObject, PatchStatus, inPatch
  <2>4. CASE \/ GetKnownInstance \/ AdoptInstance \/ FindInstanceByName
             \/ ResolveCreateOptions \/ CallFails
    BY <2>4 DEF InstanceStep, GetKnownInstance, AdoptInstance, FindInstanceByName,
                ResolveCreateOptions, CallFails, HandleExistingInstance
  <2>5. CASE \/ EnsureLBPoolMember \/ MemberSkipped \/ EnsureRKE2RegisterPoolMember
             \/ RegisterSkipped \/ RemoveLBPoolMember \/ NothingToDelete
             \/ StillTerminating \/ VerifyGone
    BY <2>5 DEF InstanceStep, EnsureLBPoolMember, MemberSkipped,
                EnsureRKE2RegisterPoolMember, RegisterSkipped, RemoveLBPoolMember,
                NothingToDelete, StillTerminating, VerifyGone
  <2> QED
    BY <1>3, <2>1, <2>2, <2>3, <2>4, <2>5 DEF Proceed
<1>4. CASE \E i \in Instances : CloudProgress(i) \/ CloudFault(i)
  BY <1>4 DEF CloudProgress, CloudFault, InstanceChange, InstanceStep, Statuses
<1>5. CASE Crash \/ Resync \/ InfraBecomesReady \/ Pause \/ Unpause \/ PoolChange
  BY <1>5 DEF InstanceStep, Crash, Resync, InfraBecomesReady, Pause, Unpause,
              PoolChange, kubeEnv
<1> QED
  BY <1>1, <1>2, <1>3, <1>4, <1>5 DEF Next

\* Names stick, and an instance that does not exist has none.
LEMMA NamesStick ==
    ASSUME TypeInv, OwnInv, InstanceStep, NEW i \in Instances
    PROVE  /\ inst'[i].name = inst[i].name \/ inst[i].name = None
           /\ inst'[i].st = "none" => inst'[i].name = None
<1>1. /\ inst \in [Instances -> [st : Statuses, name : Names \union {None}]]
      /\ inst[i].st = "none" => inst[i].name = None
  BY DEF TypeInv, TypeOK, OwnInv
<1>2. CASE inst' = inst
  BY <1>1, <1>2
<1>3. ASSUME NEW k \in Instances, Spawn(k)
      PROVE  /\ inst'[i].name = inst[i].name \/ inst[i].name = None
             /\ inst'[i].st = "none" => inst'[i].name = None
  BY <1>1, <1>3 DEF Spawn
<1>4. ASSUME NEW k \in Instances, NEW to \in Statuses \ {"none"},
             inst' = [inst EXCEPT ![k].st = to]
      PROVE  /\ inst'[i].name = inst[i].name \/ inst[i].name = None
             /\ inst'[i].st = "none" => inst'[i].name = None
  BY <1>1, <1>4
<1> QED
  BY <1>2, <1>3, <1>4 DEF InstanceStep

LEMMA OwnStays ==
    ASSUME TypeInv, OwnInv, InstanceStep, NEW m \in Machines, NEW i \in Instances,
           Own(m, i)
    PROVE  Own(m, i)'
<1>1. InstanceName[m] # None
  BY ConstantsAssumption
<1> QED
  BY <1>1, NamesStick DEF Own

\* Where the recorded ids of the next state come from.
RecordsMove ==
    /\ \A m \in Machines :
         \/ obj'[m].inst = obj[m].inst
         \/ pc # "idle" /\ m = cur /\ obj'[m].inst = mem.inst
    /\ \A m \in Machines : cache'[m].inst \in {cache[m].inst, obj[m].inst}
    /\ pc' # "idle" =>
         \/ /\ cur' \in Machines /\ base'.inst = cache[cur'].inst
            /\ mem'.inst = cache[cur'].inst
         \/ /\ pc # "idle" /\ UNCHANGED <<cur, base>>
            /\ \/ mem'.inst \in {mem.inst, None}
               \/ /\ mem'.inst \in Instances /\ Own(cur, mem.inst)'
                  /\ Adopt[cur] \in {None, mem'.inst}

LEMMA MovesStart ==
    ASSUME TypeInv, NEW m \in Machines, Start(m) \/ ReadFails(m)
    PROVE  RecordsMove
<1>1. CASE ReconcileNotFound(m)
  BY <1>1 DEF RecordsMove, ReconcileNotFound, workerVars
<1>2. CASE ~ReconcileNotFound(m)
  <2>1. cache[m] \in CR
    BY DEF TypeInv, TypeOK
  <2>2. \E c \in {cache[m], [cache[m] EXCEPT !.ready = FALSE],
                  [cache[m] EXCEPT !.fin = TRUE, !.ready = FALSE],
                  [cache[m] EXCEPT !.fin = FALSE]} : Begin(m, c)
    BY <1>2 DEF Start, ReadFails, WaitOwner, ReconcileNormalPaused, AddFinalizer,
                WaitInfraOrBootstrap, Locate, ReconcileDeleteKeep, ReconcileDelete
  <2>3. PICK c \in {cache[m], [cache[m] EXCEPT !.ready = FALSE],
                    [cache[m] EXCEPT !.fin = TRUE, !.ready = FALSE],
                    [cache[m] EXCEPT !.fin = FALSE]} : Begin(m, c)
    BY <2>2
  <2>4. c.inst = cache[m].inst
    BY <2>1, <2>3 DEF CR
  <2> QED
    BY <2>3, <2>4 DEF RecordsMove, Begin
<1> QED
  BY <1>1, <1>2

\* A step of a running reconcile writes nothing but its own copy.
LEMMA MovesInReconcile ==
    ASSUME pc # "idle", inReconcile,
           \/ mem'.inst \in {mem.inst, None}
           \/ /\ mem'.inst \in Instances /\ Own(cur, mem.inst)'
              /\ Adopt[cur] \in {None, mem'.inst}
    PROVE  RecordsMove
BY DEF RecordsMove, inReconcile

LEMMA MovesFound ==
    ASSUME TypeInv, pc # "idle", NEW i \in Instances, HandleExistingInstance(i),
           i = mem.inst \/ (Own(cur, i) /\ Adopt[cur] \in {None, i})
    PROVE  RecordsMove
<1>1. mem'.inst = i
  BY HandleExistingInstanceKeeps DEF TypeInv, TypeOK
<1>2. inReconcile /\ UNCHANGED <<inst, cur>>
  BY DEF HandleExistingInstance, inReconcile, cloudVars
<1> QED
  BY <1>1, <1>2, MovesInReconcile DEF Own

LEMMA MovesProceed ==
    ASSUME TypeInv, Proceed, ~PatchObject, ~PatchStatus
    PROVE  RecordsMove
<1>1. mem \in CR
  BY DEF TypeInv, TypeOK
<1>2. ASSUME NEW i PROVE /\ [mem EXCEPT !.inst = i].inst = i
                         /\ [mem EXCEPT !.lb = i].inst = mem.inst
                         /\ [mem EXCEPT !.reg = i].inst = mem.inst
                         /\ [mem EXCEPT !.fin = FALSE].inst = mem.inst
  BY <1>1 DEF CR
<1>3. CASE GetKnownInstance
  <2>1. mem.inst \in Instances /\ pc = "get"
    BY <1>3 DEF GetKnownInstance, TypeInv, KnowsInstance
  <2>2. CASE HandleExistingInstance(mem.inst)
    BY <2>1, <2>2, MovesFound
  <2>3. CASE ~HandleExistingInstance(mem.inst)
    BY <1>2, <1>3, <2>1, <2>3, MovesInReconcile DEF GetKnownInstance
  <2> QED
    BY <2>2, <2>3
<1>4. CASE AdoptInstance
  <2>1. Adopt[cur] \in Instances /\ pc = "adopt"
    BY <1>4 DEF AdoptInstance, TypeInv, KnowsInstance
  <2>2. CASE HandleExistingInstance(Adopt[cur])
    BY <2>1, <2>2, MovesFound DEF Own
  <2>3. CASE ~HandleExistingInstance(Adopt[cur])
    BY <1>4, <2>1, <2>3, MovesInReconcile DEF AdoptInstance
  <2> QED
    BY <2>2, <2>3
<1>5. CASE FindInstanceByName
  <2>1. CASE \E i \in Named(InstanceName[cur]) : HandleExistingInstance(i)
    BY <1>5, <2>1, MovesFound DEF FindInstanceByName, Named, Own, TypeInv, KnowsInstance
  <2>2. CASE ~\E i \in Named(InstanceName[cur]) : HandleExistingInstance(i)
    BY <1>5, <2>2, MovesInReconcile DEF FindInstanceByName
  <2> QED
    BY <2>1, <2>2
<1>6. CASE CreateInstance
  <2>1. PICK i \in Instances : Spawn(i) /\ mem' = [mem EXCEPT !.inst = i]
    BY <1>6 DEF CreateInstance
  <2>2. inst \in [Instances -> [st : Statuses, name : Names \union {None}]]
    BY DEF TypeInv, TypeOK
  <2>3. cur' = cur /\ inst'[i].name = InstanceName[cur] /\ mem'.inst = i
    BY <1>2, <1>6, <2>1, <2>2 DEF CreateInstance, inReconcile, Spawn
  <2> QED
    BY <1>6, <2>1, <2>3, MovesInReconcile DEF CreateInstance, Own, TypeInv, KnowsInstance
<1>7. CASE \/ ResolveCreateOptions \/ CallFails \/ CreateInstanceRetried
           \/ MemberSkipped \/ RegisterSkipped
           \/ DeleteInstance \/ DeleteInstanceFails \/ StillTerminating
  <2>1. pc # "idle" /\ inReconcile /\ mem' = mem
    BY <1>7 DEF ResolveCreateOptions, CallFails, CreateInstanceRetried, RetryPost,
                MemberSkipped, RegisterSkipped, DeleteInstance, DeleteInstanceFails,
                StillTerminating
  <2> QED
    BY <2>1, MovesInReconcile
<1>8. CASE EnsureLBPoolMember \/ EnsureRKE2RegisterPoolMember
  BY <1>2, <1>8, MovesInReconcile
     DEF EnsureLBPoolMember, EnsureRKE2RegisterPoolMember
<1>9. CASE RemoveLBPoolMember
  BY <1>2, <1>9, MovesInReconcile DEF RemoveLBPoolMember
<1>10. CASE NothingToDelete \/ VerifyGone
  BY <1>2, <1>10, MovesInReconcile DEF NothingToDelete, VerifyGone, RemoveFinalizer
<1> QED
  BY <1>3, <1>4, <1>5, <1>6, <1>7, <1>8, <1>9, <1>10 DEF Proceed

LEMMA MovesPatch ==
    ASSUME TypeInv, PatchObject \/ PatchStatus
    PROVE  RecordsMove
<1>1. /\ pc # "idle" /\ cur \in Machines /\ obj \in [Machines -> CR]
      /\ obj[cur] \in CR /\ cache' = cache
  BY DEF TypeInv, TypeOK, PatchObject, PatchStatus, inPatch
<1>2. CASE PatchObject
  <2>1. \A n \in Machines : obj'[n].inst = obj[n].inst
    <3>1. CASE obj' = obj
      BY <3>1
    <3>2. CASE obj' # obj
      <4>1. obj' = [obj EXCEPT ![cur].fin = Merged("fin"), ![cur].prov = Merged("prov"),
                               ![cur].ex = ~obj[cur].del \/ Merged("fin")]
        BY <1>2, <3>2 DEF PatchObject
      <4> QED
        BY <1>1, <4>1 DEF CR
    <3> QED
      BY <3>1, <3>2
  <2> QED
    BY <1>1, <1>2, <2>1 DEF RecordsMove, PatchObject
<1>3. CASE PatchStatus
  <2>1. pc' = "idle"
    BY <1>3 DEF PatchStatus, Done
  <2>2. ASSUME NEW n \in Machines
        PROVE  obj'[n].inst = obj[n].inst \/ (n = cur /\ obj'[n].inst = mem.inst)
    <3>1. CASE obj' = obj
      BY <3>1
    <3>2. CASE obj' # obj
      <4>1. obj' = [obj EXCEPT ![cur].inst = Merged("inst"),
                               ![cur].ready = Merged("ready"),
                               ![cur].failed = Merged("failed"),
                               ![cur].lb = Merged("lb"), ![cur].reg = Merged("reg")]
        BY <1>3, <3>2 DEF PatchStatus
      <4>2. obj'[cur].inst = Merged("inst") /\ (n # cur => obj'[n] = obj[n])
        BY <1>1, <4>1 DEF CR
      <4> QED
        BY <4>2 DEF Merged
    <3> QED
      BY <3>1, <3>2
  <2> QED
    BY <1>1, <2>1, <2>2 DEF RecordsMove
<1> QED
  BY <1>2, <1>3

LEMMA MovesKube ==
    ASSUME TypeInv, NEW m \in Machines,
           CacheSync(m) \/ UserDelete(m) \/ UserKeep(m)
    PROVE  RecordsMove
<1>1. obj \in [Machines -> CR] /\ cache \in [Machines -> CR] /\ obj[m] \in CR
  BY DEF TypeInv, TypeOK
<1>2. UNCHANGED <<pc, cur, base, mem>>
  BY DEF CacheSync, UserDelete, UserKeep, kubeEnv, workerVars
<1>3. \A n \in Machines : obj'[n].inst = obj[n].inst
  BY <1>1 DEF CacheSync, UserDelete, UserKeep, CR
<1>4. \A n \in Machines : cache'[n].inst \in {cache[n].inst, obj[n].inst}
  BY <1>1 DEF CacheSync, UserDelete, UserKeep, kubeEnv
<1> QED
  BY <1>2, <1>3, <1>4 DEF RecordsMove

LEMMA RecordsMoves == TypeInv /\ [Next]_vars => RecordsMove
<1> SUFFICES ASSUME TypeInv, [Next]_vars PROVE RecordsMove
  OBVIOUS
<1>1. ASSUME UNCHANGED <<obj, cache, pc, cur, base, mem>> PROVE RecordsMove
  BY <1>1 DEF RecordsMove
<1>2. CASE UNCHANGED vars
  BY <1>1, <1>2 DEF vars, workerVars
<1>3. ASSUME NEW m \in Machines,
             \/ Start(m) \/ ReadFails(m) \/ CacheSync(m)
             \/ UserDelete(m) \/ UserKeep(m) \/ StageProgress(m)
      PROVE  RecordsMove
  <2>1. CASE StageProgress(m)
    BY <1>1, <2>1 DEF StageProgress, kubeEnv, workerVars
  <2> QED
    BY <1>3, <2>1, MovesStart, MovesKube
<1>4. CASE Proceed
  BY <1>4, MovesProceed, MovesPatch
<1>5. CASE \E i \in Instances : CloudProgress(i) \/ CloudFault(i)
  <2>1. UNCHANGED <<obj, cache, pc, cur, base, mem>>
    BY <1>5 DEF CloudProgress, CloudFault, InstanceChange, cloudEnv, workerVars
  <2> QED
    BY <1>1, <2>1
<1>6. CASE Crash
  BY <1>6 DEF Crash, RecordsMove
<1>7. CASE Resync \/ InfraBecomesReady \/ Pause \/ Unpause \/ PoolChange
  <2>1. UNCHANGED <<obj, cache, pc, cur, base, mem>>
    BY <1>7 DEF Resync, InfraBecomesReady, Pause, Unpause, PoolChange, kubeEnv,
                workerVars
  <2> QED
    BY <1>1, <2>1
<1> QED
  BY <1>2, <1>3, <1>4, <1>5, <1>6, <1>7 DEF Next

LEMMA OwnInit == Init => OwnInv
BY DEF Init, OwnInv, NewCR

LEMMA OwnStep == TypeInv /\ OwnInv /\ [Next]_vars => OwnInv'
<1> SUFFICES ASSUME TypeInv, OwnInv, [Next]_vars PROVE OwnInv'
  OBVIOUS
<1>1. InstanceStep /\ RecordsMove
  BY InstanceSteps, RecordsMoves
<1>2. /\ \A m \in Machines : obj[m].inst \in Ids /\ cache[m].inst \in Ids
      /\ base.inst \in Ids /\ mem.inst \in Ids
      /\ pc # "idle" => cur \in Machines
  BY DEF TypeInv, TypeOK, CR
<1>3. \A i \in Instances : inst'[i].st = "none" => inst'[i].name = None
  BY <1>1, NamesStick
<1>4. \A m \in Machines, i \in Ids :
        i # None /\ Own(m, i) => inst'[i].name = InstanceName[m] \/ Adopt[m] = i
  <2> TAKE m \in Machines, i \in Ids
  <2> HAVE i # None /\ Own(m, i)
  <2>1. i \in Instances
    BY DEF Ids
  <2>2. Own(m, i)'
    BY <1>1, <2>1, OwnStays
  <2> QED
    BY <2>2 DEF Own
<1>5. ASSUME NEW m \in Machines
      PROVE  /\ obj'[m].inst # None => Own(m, obj[m].inst)'
             /\ cache'[m].inst # None => Own(m, cache[m].inst)'
  <2>1. /\ obj[m].inst # None => Own(m, obj[m].inst)
        /\ cache[m].inst # None => Own(m, cache[m].inst)
        /\ pc # "idle" => (mem.inst # None => Own(cur, mem.inst))
    BY DEF OwnInv
  <2>2. obj'[m].inst # None => Own(m, obj[m].inst)'
    <3>1. CASE obj'[m].inst = obj[m].inst
      BY <1>2, <1>4, <2>1, <3>1 DEF Own
    <3>2. CASE pc # "idle" /\ m = cur /\ obj'[m].inst = mem.inst
      BY <1>2, <1>4, <2>1, <3>2 DEF Own
    <3> QED
      BY <1>1, <3>1, <3>2 DEF RecordsMove
  <2>3. cache'[m].inst # None => Own(m, cache[m].inst)'
    <3>1. CASE cache'[m].inst = cache[m].inst
      BY <1>2, <1>4, <2>1, <3>1 DEF Own
    <3>2. CASE cache'[m].inst = obj[m].inst
      BY <1>2, <1>4, <2>1, <3>2 DEF Own
    <3> QED
      BY <1>1, <3>1, <3>2 DEF RecordsMove
  <2> QED
    BY <2>2, <2>3
<1>6. ASSUME pc' # "idle"
      PROVE  /\ base'.inst # None => Own(cur, base.inst)'
             /\ mem'.inst # None => Own(cur, mem.inst)'
  <2>1. CASE /\ cur' \in Machines /\ base'.inst = cache[cur'].inst
             /\ mem'.inst = cache[cur'].inst
    <3>1. cache[cur'].inst # None => Own(cur', cache[cur'].inst)
      BY <2>1 DEF OwnInv
    <3> QED
      BY <1>2, <1>4, <2>1, <3>1 DEF Own
  <2>2. CASE /\ pc # "idle" /\ UNCHANGED <<cur, base>>
             /\ \/ mem'.inst \in {mem.inst, None}
                \/ mem'.inst \in Instances /\ Own(cur, mem.inst)'
    <3>1. /\ base.inst # None => Own(cur, base.inst)
          /\ mem.inst # None => Own(cur, mem.inst)
      BY <2>2 DEF OwnInv
    <3>2. base'.inst # None => Own(cur, base.inst)'
      BY <1>2, <1>4, <2>2, <3>1 DEF Own
    <3>3. mem'.inst # None => Own(cur, mem.inst)'
      BY <1>2, <1>4, <2>2, <3>1 DEF Own
    <3> QED
      BY <3>2, <3>3
  <2> QED
    BY <1>1, <1>6, <2>1, <2>2 DEF RecordsMove
<1> QED
  BY <1>3, <1>5, <1>6 DEF OwnInv

\* Only the two delete steps of ReconcileDelete begin to terminate an instance.
LEMMA TerminationStep ==
    TypeInv /\ FinalizerInv /\ OwnInv /\ [Next]_vars => [TerminatesOwn]_vars
<1> SUFFICES ASSUME TypeInv, FinalizerInv, OwnInv, [Next]_vars
             PROVE  TerminatesOwn \/ UNCHANGED vars
  OBVIOUS
<1> SUFFICES ASSUME Next PROVE TerminatesOwn
  OBVIOUS
<1>1. inst \in [Instances -> [st : Statuses, name : Names \union {None}]]
  BY DEF TypeInv, TypeOK
<1>2. ASSUME inst' = inst PROVE TerminatesOwn
  BY <1>2 DEF TerminatesOwn, Doomed
<1>3. ASSUME NEW k \in Instances, NEW to \in Statuses \ {"DELETING"},
             \/ inst' = [inst EXCEPT ![k].st = to]
             \/ \E n : inst' = [inst EXCEPT ![k] = [st |-> to, name |-> n]]
      PROVE  TerminatesOwn
  BY <1>1, <1>3 DEF TerminatesOwn, Doomed
<1>4. CASE Proceed
  <2>1. CASE DeleteInstance \/ DeleteInstanceFails
    <3>1. pc = "delete" /\ mem.inst \in Instances /\ mem.inst # None
      BY <2>1 DEF DeleteInstance, DeleteInstanceFails, TypeInv, TypeOK, CR, Ids
    <3>2. cur \in Machines /\ ReconcileInv /\ CacheBehind(cur)
      BY <3>1 DEF TypeInv, TypeOK, FinalizerInv
    <3>3. obj[cur].del /\ cur \notin kept
      BY <3>1, <3>2 DEF ReconcileInv, CacheBehind, DeletePCs
    <3>4. Own(cur, mem.inst)
      BY <3>1 DEF OwnInv
    <3>5. CASE Terminate(mem.inst)
      <4>1. inst[mem.inst].name = InstanceName[cur] \/ Adopt[cur] = mem.inst
        BY <3>4 DEF Own
      <4>2. ASSUME NEW i \in Instances, ~Doomed(i), inst'[i].st = "DELETING"
            PROVE  i = mem.inst
        BY <1>1, <3>1, <3>5, <4>2 DEF Terminate, Doomed
      <4> QED
        BY <3>3, <4>1, <4>2 DEF TerminatesOwn
    <3> QED
      BY <1>2, <2>1, <3>5 DEF DeleteInstance, DeleteInstanceFails
  <2>2. CASE CreateInstance \/ CreateInstanceRetried
    <3>1. CASE inst' = inst
      BY <1>2, <3>1
    <3>2. CASE \E i \in Instances : Spawn(i)
      <4>1. PICK k \in Instances :
                inst' = [inst EXCEPT ![k] = [st |-> "BUILD", name |-> InstanceName[cur]]]
        BY <3>2 DEF Spawn
      <4>2. "BUILD" \in Statuses \ {"DELETING"}
        BY DEF Statuses
      <4>3. \E n : inst' = [inst EXCEPT ![k] = [st |-> "BUILD", name |-> n]]
        BY <4>1
      <4> QED
        BY <1>3, <4>2, <4>3
    <3> QED
      BY <2>2, <3>1, <3>2 DEF CreateInstance, CreateInstanceRetried
  <2>3. CASE \/ GetKnownInstance \/ AdoptInstance \/ FindInstanceByName
             \/ ResolveCreateOptions \/ CallFails
    BY <1>2, <2>3 DEF GetKnownInstance, AdoptInstance, FindInstanceByName,
                ResolveCreateOptions, CallFails, HandleExistingInstance, cloudVars
  <2>4. CASE \/ EnsureLBPoolMember \/ MemberSkipped \/ EnsureRKE2RegisterPoolMember
             \/ RegisterSkipped \/ RemoveLBPoolMember \/ NothingToDelete
             \/ StillTerminating \/ VerifyGone \/ PatchObject \/ PatchStatus
    BY <1>2, <2>4 DEF EnsureLBPoolMember, MemberSkipped,
                EnsureRKE2RegisterPoolMember, RegisterSkipped, RemoveLBPoolMember,
                NothingToDelete, StillTerminating, VerifyGone, PatchObject,
                PatchStatus, inPatch, cloudVars
  <2> QED
    BY <1>4, <2>1, <2>2, <2>3, <2>4 DEF Proceed
<1>5. CASE \E i \in Instances : CloudProgress(i) \/ CloudFault(i)
  BY <1>3, <1>5 DEF CloudProgress, CloudFault, InstanceChange, Statuses
<1>6. ASSUME NEW m \in Machines,
             \/ Start(m) \/ ReadFails(m) \/ CacheSync(m)
             \/ UserDelete(m) \/ UserKeep(m) \/ StageProgress(m)
      PROVE  TerminatesOwn
  BY <1>2, <1>6 DEF Start, ReadFails, ReconcileNotFound, WaitOwner,
        ReconcileNormalPaused, AddFinalizer, WaitInfraOrBootstrap, Locate,
        ReconcileDeleteKeep, ReconcileDelete, Begin, CacheSync, UserDelete, UserKeep,
        StageProgress, kubeEnv, cloudVars
<1>7. CASE Crash \/ Resync \/ InfraBecomesReady \/ Pause \/ Unpause \/ PoolChange
  BY <1>2, <1>7 DEF Crash, Resync, InfraBecomesReady, Pause, Unpause, PoolChange,
        kubeEnv, cloudVars
<1> QED
  BY <1>4, <1>5, <1>6, <1>7 DEF Next

\* The controller terminates an instance only for an object whose deletion was
\* asked for without the keep annotation on it, and only that machine's own
\* instance, whatever was stale, lost or interrupted on the way.
THEOREM TerminatesOnlyOwn == Spec => TerminationJustified
BY TypeInit, TypeStep, FinalizerInit, FinalizerStep, OwnInit, OwnStep,
   TerminationStep, PTL DEF Spec, TerminationJustified

-----------------------------------------------------------------------------
(* Nothing is dropped: each return without a requeue has written something,  *)
(* which brings an event, or has found the machine finished.                 *)

Finished(m) == ~obj[m].del /\ (paused \/ obj[m].ready \/ obj[m].failed)

\* A machine that the worker is not at, and that nobody will bring up again.
Quiet(m) ==
    /\ pc = "idle" \/ m # cur
    /\ m \notin queue /\ cache[m] = obj[m] /\ obj[m].ex

ObjectsInv ==
    \A m \in Machines :
        /\ cache[m].keep => obj[m].keep
        /\ obj[m].ex /\ obj[m].del => obj[m].fin
        /\ cache[m].ex /\ cache[m].del => cache[m].fin

\* What an unqueued return leaves to do: nothing, or a patch that brings an event.
Settled ==
    \/ ~base.del /\ (paused \/ mem.ready \/ mem.failed)
    \/ mem.fin # base.fin

\* The running reconcile: an event that arrives in the meantime queues its
\* machine, so what it read is what the cache holds as long as it is not queued.
RunInv ==
    /\ base.ex /\ (base.del => base.fin)
    /\ cur \notin queue => cache[cur] = base
    /\ pc \in NormalPCs \union {"member", "register"} => ~base.del
    /\ pc \in {"member", "register"} => mem.ready
    /\ pc \in DeletePCs => base.del /\ mem.fin
    /\ pc \in {"patch", "patchStatus"} /\ ~again /\ cur \notin queue => Settled
    /\ pc = "patchStatus" /\ ~again /\ mem.fin # base.fin => obj[cur].fin = mem.fin

QueueInv ==
    /\ ObjectsInv
    /\ \A m \in Machines : Quiet(m) => Finished(m)
    /\ pc # "idle" => RunInv

LEMMA QueueInit == Init => QueueInv
BY DEF Init, QueueInv, ObjectsInv, Quiet, NewCR

-----------------------------------------------------------------------------
(* A reconcile begins.                                                      *)

LEMMA QueueBegin ==
    ASSUME TypeInv, QueueInv, NEW m \in Machines, NEW copy, Begin(m, copy),
           pc' # "idle", pc' \notin {"member", "register", "patchStatus"},
           pc' \in NormalPCs => ~cache[m].del,
           pc' \in DeletePCs => cache[m].del /\ copy.fin,
           pc' = "patch" /\ ~again' =>
               \/ ~cache[m].del /\ (paused \/ copy.ready \/ copy.failed)
               \/ copy.fin # cache[m].fin
    PROVE  QueueInv'
<1>1. /\ UNCHANGED <<obj, cache, paused>> /\ cur' = m /\ base' = cache[m] /\ mem' = copy
      /\ queue' = queue \ {m} /\ pc = "idle" /\ cache[m].ex
  BY DEF Begin, envVars
<1>2. ObjectsInv'
  BY <1>1 DEF QueueInv, ObjectsInv
<1>3. ASSUME NEW n \in Machines, Quiet(n)' PROVE Finished(n)'
  BY <1>1, <1>3 DEF QueueInv, Quiet, Finished
<1>4. RunInv'
  BY <1>1 DEF QueueInv, ObjectsInv, RunInv, Settled
<1> QED
  BY <1>2, <1>3, <1>4 DEF QueueInv

LEMMA QueueStart ==
    ASSUME TypeInv, QueueInv, NEW m \in Machines, Start(m) \/ ReadFails(m)
    PROVE  QueueInv'
<1> USE DEF NormalPCs, DeletePCs
<1>1. cache[m] \in CR
  BY DEF TypeInv, TypeOK
<1>2. CASE ReconcileNotFound(m)
  <2>1. UNCHANGED <<obj, cache, pc, cur, base, mem, again, paused>>
    BY <1>2 DEF ReconcileNotFound, workerVars, envVars
  <2>2. pc = "idle" /\ queue' = queue \ {m} /\ ~cache[m].ex
    BY <1>2 DEF ReconcileNotFound
  <2> QED
    BY <2>1, <2>2 DEF QueueInv, ObjectsInv, Quiet, Finished
<1>3. CASE WaitOwner(m)
  BY <1>3, QueueBegin DEF WaitOwner, Return
<1>4. CASE ReadFails(m)
  BY <1>4, QueueBegin DEF ReadFails, Return
<1>5. CASE ReconcileNormalPaused(m)
  BY <1>5, QueueBegin DEF ReconcileNormalPaused, Return
<1>6. CASE AddFinalizer(m)
  <2>1. [cache[m] EXCEPT !.fin = TRUE, !.ready = FALSE].fin = TRUE
    BY <1>1 DEF CR
  <2>2. [cache[m] EXCEPT !.fin = TRUE, !.ready = FALSE].fin # cache[m].fin
    BY <1>6, <2>1 DEF AddFinalizer
  <2> QED
    BY <1>6, <2>2, QueueBegin DEF AddFinalizer, Return
<1>7. CASE WaitInfraOrBootstrap(m)
  BY <1>7, QueueBegin DEF WaitInfraOrBootstrap, Return
<1>8. CASE Locate(m)
  <2>1. pc' \in {"get", "adopt", "find"}
    BY <1>8 DEF Locate, AdoptOrFind
  <2> QED
    BY <1>8, <2>1, QueueBegin DEF Locate
<1>9. CASE ReconcileDeleteKeep(m)
  <2>1. [cache[m] EXCEPT !.fin = FALSE].fin = FALSE
    BY <1>1 DEF CR
  <2>2. cache[m].fin
    BY <1>9 DEF ReconcileDeleteKeep, Begin, QueueInv, ObjectsInv
  <2>3. [cache[m] EXCEPT !.fin = FALSE].fin # cache[m].fin
    BY <2>1, <2>2
  <2> QED
    BY <1>9, <2>3, QueueBegin DEF ReconcileDeleteKeep, Return
<1>10. CASE ReconcileDelete(m)
  <2>1. cache[m].del /\ cache[m].fin
    BY <1>10 DEF ReconcileDelete, Begin, QueueInv, ObjectsInv
  <2> QED
    BY <1>10, <2>1, QueueBegin DEF ReconcileDelete
<1> QED
  BY <1>2, <1>3, <1>4, <1>5, <1>6, <1>7, <1>8, <1>9, <1>10 DEF Start

-----------------------------------------------------------------------------
(* The steps of a running reconcile.                                        *)

LEMMA QueueRun ==
    ASSUME QueueInv, pc # "idle", inReconcile, pc' \notin {"idle", "patchStatus"},
           pc' \in NormalPCs \union {"member", "register"} => ~base.del,
           pc' \in {"member", "register"} => mem'.ready,
           pc' \in DeletePCs => base.del /\ mem'.fin,
           pc' = "patch" /\ ~again' =>
               \/ ~base.del /\ (mem'.ready \/ mem'.failed)
               \/ mem'.fin # base.fin
    PROVE  QueueInv'
<1>1. UNCHANGED <<obj, cache, queue, cur, base, paused>>
  BY DEF inReconcile, envVars
<1>2. ObjectsInv'
  BY <1>1 DEF QueueInv, ObjectsInv
<1>3. ASSUME NEW n \in Machines, Quiet(n)' PROVE Finished(n)'
  BY <1>1, <1>3 DEF QueueInv, Quiet, Finished
<1>4. RunInv'
  BY <1>1 DEF QueueInv, RunInv, Settled
<1> QED
  BY <1>2, <1>3, <1>4 DEF QueueInv

LEMMA QueueFound ==
    ASSUME TypeInv, QueueInv, pc \in NormalPCs, NEW i \in Instances,
           HandleExistingInstance(i)
    PROVE  QueueInv'
<1> USE DEF NormalPCs, DeletePCs
<1>1. mem \in CR /\ inReconcile /\ ~base.del
  BY DEF TypeInv, TypeOK, HandleExistingInstance, QueueInv, RunInv
<1>2. CASE inst[i].st = "ACTIVE"
  <2>1. mem'.ready /\ pc' \in {"member", "patch"}
    BY <1>1, <1>2 DEF HandleExistingInstance, CR
  <2> QED
    BY <1>1, <2>1, QueueRun
<1>3. CASE inst[i].st = "ERROR"
  <2>1. mem'.failed /\ pc' = "patch"
    BY <1>1, <1>3 DEF HandleExistingInstance, Return, CR
  <2> QED
    BY <1>1, <2>1, QueueRun
<1>4. CASE inst[i].st \notin {"ACTIVE", "ERROR"}
  <2>1. again' = TRUE /\ pc' = "patch"
    BY <1>4 DEF HandleExistingInstance, Return
  <2> QED
    BY <1>1, <2>1, QueueRun
<1> QED
  BY <1>2, <1>3, <1>4

LEMMA QueueProceed ==
    ASSUME TypeInv, QueueInv, Proceed, ~PatchObject, ~PatchStatus
    PROVE  QueueInv'
<1> USE DEF NormalPCs, DeletePCs
<1>1. mem \in CR /\ (pc # "idle" => RunInv)
  BY DEF TypeInv, TypeOK, QueueInv
<1>2. ASSUME NEW i PROVE /\ [mem EXCEPT !.lb = i].fin = mem.fin
                         /\ [mem EXCEPT !.lb = i].ready = mem.ready
                         /\ [mem EXCEPT !.reg = i].ready = mem.ready
  BY <1>1 DEF CR
<1>3. CASE GetKnownInstance
  <2>1. pc = "get" /\ mem.inst \in Instances
    BY <1>3 DEF GetKnownInstance, TypeInv, KnowsInstance
  <2>2. CASE HandleExistingInstance(mem.inst)
    BY <2>1, <2>2, QueueFound
  <2>3. CASE ~HandleExistingInstance(mem.inst)
    <3>1. pc' \in {"adopt", "find"} /\ inReconcile
      BY <1>3, <2>3 DEF GetKnownInstance, AdoptOrFind
    <3> QED
      BY <1>1, <2>1, <3>1, QueueRun DEF RunInv
  <2> QED
    BY <2>2, <2>3
<1>4. CASE AdoptInstance
  <2>1. pc = "adopt" /\ Adopt[cur] \in Instances
    BY <1>4 DEF AdoptInstance, TypeInv, KnowsInstance
  <2>2. CASE HandleExistingInstance(Adopt[cur])
    BY <2>1, <2>2, QueueFound
  <2>3. CASE ~HandleExistingInstance(Adopt[cur])
    BY <1>4, <2>1, <2>3, QueueRun DEF AdoptInstance, Return
  <2> QED
    BY <2>2, <2>3
<1>5. CASE FindInstanceByName
  <2>1. pc = "find"
    BY <1>5 DEF FindInstanceByName
  <2>2. CASE \E i \in Named(InstanceName[cur]) : HandleExistingInstance(i)
    BY <2>1, <2>2, QueueFound DEF Named
  <2>3. CASE ~\E i \in Named(InstanceName[cur]) : HandleExistingInstance(i)
    BY <1>1, <1>5, <2>1, <2>3, QueueRun DEF FindInstanceByName, RunInv
  <2> QED
    BY <2>2, <2>3
<1>6. CASE ResolveCreateOptions
  BY <1>1, <1>6, QueueRun DEF ResolveCreateOptions, RunInv
<1>7. CASE CreateInstance
  BY <1>7, QueueRun DEF CreateInstance, Return
<1>8. CASE CallFails
  BY <1>8, QueueRun DEF CallFails, Return
<1>9. CASE CreateInstanceRetried
  BY <1>1, <1>9, QueueRun DEF CreateInstanceRetried, RetryPost, Return, RunInv
<1>10. CASE EnsureLBPoolMember
  BY <1>1, <1>2, <1>10, QueueRun DEF EnsureLBPoolMember, RunInv
<1>11. CASE MemberSkipped
  BY <1>1, <1>11, QueueRun DEF MemberSkipped, RunInv
<1>12. CASE EnsureRKE2RegisterPoolMember
  BY <1>1, <1>2, <1>12, QueueRun DEF EnsureRKE2RegisterPoolMember, RunInv
<1>13. CASE RegisterSkipped
  BY <1>1, <1>13, QueueRun DEF RegisterSkipped, RunInv
<1>14. CASE RemoveLBPoolMember
  BY <1>1, <1>2, <1>14, QueueRun DEF RemoveLBPoolMember, RunInv
<1>15. ASSUME pc \in DeletePCs, RemoveFinalizer PROVE mem'.fin # base.fin
  <2>1. mem'.fin = FALSE
    BY <1>1, <1>15 DEF RemoveFinalizer, CR
  <2>2. base.fin
    BY <1>1, <1>15 DEF RunInv
  <2> QED
    BY <2>1, <2>2
<1>16. CASE NothingToDelete
  BY <1>15, <1>16, QueueRun DEF NothingToDelete, RemoveFinalizer, Return
<1>17. CASE DeleteInstance
  BY <1>1, <1>17, QueueRun DEF DeleteInstance, RunInv
<1>18. CASE DeleteInstanceFails
  BY <1>18, QueueRun DEF DeleteInstanceFails, Return
<1>19. CASE StillTerminating
  BY <1>19, QueueRun DEF StillTerminating, Return
<1>20. CASE VerifyGone
  BY <1>15, <1>20, QueueRun DEF VerifyGone, RemoveFinalizer, Return
<1> QED
  BY <1>3, <1>4, <1>5, <1>6, <1>7, <1>8, <1>9, <1>10, <1>11, <1>12, <1>13, <1>14,
     <1>16, <1>17, <1>18, <1>19, <1>20 DEF Proceed

-----------------------------------------------------------------------------
(* The deferred patch: a finalizer that the reconcile changed is in the API *)
(* server afterwards, or the machine is queued.                             *)

LEMMA QueuePatchObject ==
    ASSUME TypeInv, QueueInv, PatchObject
    PROVE  QueueInv'
<1>1. /\ cur \in Machines /\ obj \in [Machines -> CR] /\ obj[cur] \in CR
      /\ pc = "patch" /\ pc' = "patchStatus" /\ RunInv
      /\ UNCHANGED <<cache, queue, cur, base, mem, paused>>
      /\ ~again' => ~again
  BY DEF TypeInv, TypeOK, PatchObject, QueueInv, inPatch, envVars
<1>2. /\ \A n \in Machines \ {cur} : obj'[n] = obj[n]
      /\ obj'[cur].keep = obj[cur].keep
      /\ obj'[cur].ex /\ obj'[cur].del => obj'[cur].fin
      /\ ~again' /\ mem.fin # base.fin => obj'[cur].fin = mem.fin
  <2>1. CASE obj' = obj
    BY <1>1, <2>1 DEF PatchObject, QueueInv, ObjectsInv, ObjectDirty, Merged, CR
  <2>2. CASE obj' # obj
    <3>1. obj' = [obj EXCEPT ![cur].fin = Merged("fin"), ![cur].prov = Merged("prov"),
                             ![cur].ex = ~obj[cur].del \/ Merged("fin")]
      BY <2>2 DEF PatchObject
    <3>2. /\ obj'[cur].fin = Merged("fin") /\ obj'[cur].del = obj[cur].del
          /\ obj'[cur].keep = obj[cur].keep
          /\ obj'[cur].ex = (~obj[cur].del \/ Merged("fin"))
          /\ \A n \in Machines \ {cur} : obj'[n] = obj[n]
      BY <1>1, <3>1 DEF CR
    <3> QED
      BY <3>2 DEF Merged
  <2> QED
    BY <2>1, <2>2
<1>3. ObjectsInv'
  BY <1>1, <1>2 DEF QueueInv, ObjectsInv
<1>4. ASSUME NEW n \in Machines, Quiet(n)' PROVE Finished(n)'
  BY <1>1, <1>2, <1>4 DEF QueueInv, Quiet, Finished
<1>5. RunInv'
  BY <1>1, <1>2 DEF RunInv, Settled, NormalPCs, DeletePCs
<1> QED
  BY <1>3, <1>4, <1>5 DEF QueueInv

LEMMA QueuePatchStatus ==
    ASSUME TypeInv, QueueInv, PatchStatus
    PROVE  QueueInv'
<1>1. /\ cur \in Machines /\ obj \in [Machines -> CR] /\ obj[cur] \in CR
      /\ pc = "patchStatus" /\ pc' = "idle" /\ RunInv
      /\ UNCHANGED <<cache, paused>>
  BY DEF TypeInv, TypeOK, PatchStatus, Done, QueueInv, inPatch, envVars
<1>2. /\ \A n \in Machines \ {cur} : obj'[n] = obj[n]
      /\ obj'[cur].keep = obj[cur].keep /\ obj'[cur].ex = obj[cur].ex
      /\ obj'[cur].del = obj[cur].del /\ obj'[cur].fin = obj[cur].fin
  <2>1. CASE obj' = obj
    BY <2>1
  <2>2. CASE obj' # obj
    <3>1. obj' = [obj EXCEPT ![cur].inst = Merged("inst"), ![cur].ready = Merged("ready"),
                             ![cur].failed = Merged("failed"), ![cur].lb = Merged("lb"),
                             ![cur].reg = Merged("reg")]
      BY <2>2 DEF PatchStatus
    <3> QED
      BY <1>1, <3>1 DEF CR
  <2> QED
    BY <2>1, <2>2
<1>3. queue \subseteq queue' /\ (cur \notin queue' /\ obj[cur].ex => ~again)
  BY DEF PatchStatus, Done
<1>4. ASSUME cur \notin queue', obj[cur].ex
      PROVE  /\ mem.ready # base.ready => obj'[cur].ready = mem.ready
             /\ mem.failed # base.failed => obj'[cur].failed = mem.failed
  <2>1. CASE ~StatusDirty
    BY <2>1 DEF StatusDirty
  <2>2. CASE StatusDirty
    <3>1. obj' = [obj EXCEPT ![cur].inst = Merged("inst"), ![cur].ready = Merged("ready"),
                             ![cur].failed = Merged("failed"), ![cur].lb = Merged("lb"),
                             ![cur].reg = Merged("reg")]
      BY <1>4, <2>2 DEF PatchStatus, Done
    <3>2. obj'[cur].ready = Merged("ready") /\ obj'[cur].failed = Merged("failed")
      BY <1>1, <3>1 DEF CR
    <3> QED
      BY <3>2 DEF Merged
  <2> QED
    BY <2>1, <2>2
<1>5. ObjectsInv'
  BY <1>1, <1>2 DEF QueueInv, ObjectsInv
<1>6. ASSUME cur \notin queue', cache[cur] = obj'[cur], obj'[cur].ex
      PROVE  ~obj'[cur].del /\ (paused \/ obj'[cur].ready \/ obj'[cur].failed)
  <2>1. obj'[cur] = base /\ ~again /\ obj[cur].ex /\ cur \notin queue
    BY <1>1, <1>2, <1>3, <1>6 DEF RunInv
  <2>2. mem.fin = base.fin
    BY <1>1, <1>2, <2>1 DEF RunInv
  <2>3. ~base.del /\ (paused \/ mem.ready \/ mem.failed)
    BY <1>1, <2>1, <2>2 DEF RunInv, Settled
  <2> QED
    BY <1>4, <1>6, <2>1, <2>3
<1>7. ASSUME NEW n \in Machines, Quiet(n)' PROVE Finished(n)'
  <2>1. CASE n = cur
    BY <1>1, <1>6, <1>7, <2>1 DEF Quiet, Finished
  <2>2. CASE n # cur
    BY <1>1, <1>2, <1>3, <1>7, <2>2 DEF QueueInv, Quiet, Finished
  <2> QED
    BY <2>1, <2>2
<1> QED
  BY <1>1, <1>5, <1>7 DEF QueueInv

-----------------------------------------------------------------------------
(* The environment: whoever changes an object brings an event.              *)

LEMMA QueueKube ==
    ASSUME TypeInv, FinalizerInv, QueueInv, NEW m \in Machines,
           CacheSync(m) \/ UserDelete(m) \/ UserKeep(m)
    PROVE  QueueInv'
<1>1. /\ obj \in [Machines -> CR] /\ cache \in [Machines -> CR] /\ obj[m] \in CR
      /\ cache[m] \in CR /\ (pc # "idle" => cur \in Machines)
  BY DEF TypeInv, TypeOK
<1>2. /\ (pc # "idle" => RunInv) /\ UNCHANGED <<pc, cur, base, mem, again, paused>>
      /\ \A n \in Machines : Quiet(n) => Finished(n)
  BY DEF QueueInv, CacheSync, UserDelete, UserKeep, kubeEnv, workerVars, envVars
<1>3. CASE CacheSync(m)
  <2>1. /\ obj' = obj /\ cache'[m] = obj[m] /\ queue' = queue \union {m}
        /\ \A n \in Machines \ {m} : cache'[n] = cache[n]
    BY <1>1, <1>3 DEF CacheSync
  <2>2. ObjectsInv'
    BY <2>1 DEF QueueInv, ObjectsInv
  <2>3. ASSUME NEW n \in Machines, Quiet(n)' PROVE Finished(n)'
    BY <1>2, <2>1, <2>3 DEF Quiet, Finished
  <2>4. ASSUME pc # "idle" PROVE RunInv'
    <3>1. cur \in Machines /\ (cur \notin queue' => cache'[cur] = base)
      BY <1>1, <1>2, <2>1, <2>4 DEF RunInv
    <3> QED
      BY <1>2, <2>1, <2>4, <3>1 DEF RunInv, Settled
  <2> QED
    BY <1>2, <2>2, <2>3, <2>4 DEF QueueInv
<1>4. CASE UserDelete(m) \/ UserKeep(m)
  <2>1. /\ UNCHANGED <<cache, queue>>
        /\ \A n \in Machines \ {m} : obj'[n] = obj[n]
        /\ obj'[m].fin = obj[m].fin /\ (obj[m].keep => obj'[m].keep)
        /\ obj'[m].ex /\ obj'[m].del => obj'[m].fin
    <3>1. CASE UserDelete(m)
      BY <1>1, <3>1 DEF UserDelete, kubeEnv, CR
    <3>2. CASE UserKeep(m)
      BY <1>1, <3>2 DEF UserKeep, kubeEnv, CR, QueueInv, ObjectsInv
    <3> QED
      BY <1>4, <3>1, <3>2
  <2>2. cache[m] # obj'[m]
    <3>1. CASE UserDelete(m)
      <4>1. ~cache[m].del /\ obj'[m].del
        BY <1>1, <3>1 DEF UserDelete, CR, FinalizerInv, CacheBehind
      <4> QED
        BY <4>1
    <3>2. CASE UserKeep(m)
      <4>1. ~cache[m].keep /\ obj'[m].keep
        BY <1>1, <3>2 DEF UserKeep, CR, QueueInv, ObjectsInv
      <4> QED
        BY <4>1
    <3> QED
      BY <1>4, <3>1, <3>2
  <2>3. ObjectsInv'
    BY <2>1 DEF QueueInv, ObjectsInv
  <2>4. ASSUME NEW n \in Machines, Quiet(n)' PROVE Finished(n)'
    BY <1>2, <2>1, <2>2, <2>4 DEF Quiet, Finished
  <2>5. ASSUME pc # "idle" PROVE RunInv'
    <3>1. obj'[cur].fin = obj[cur].fin
      BY <1>1, <2>1, <2>5
    <3> QED
      BY <1>2, <2>1, <2>5, <3>1 DEF RunInv, Settled
  <2> QED
    BY <1>2, <2>3, <2>4, <2>5 DEF QueueInv
<1> QED
  BY <1>3, <1>4

LEMMA QueueCrash ==
    ASSUME QueueInv, Crash
    PROVE  QueueInv'
<1>1. /\ obj' = obj /\ cache' = obj /\ pc' = "idle"
      /\ queue' = {m \in Machines : obj[m].ex}
  BY DEF Crash
<1> QED
  BY <1>1 DEF QueueInv, ObjectsInv, Quiet

\* Whatever else happens leaves the objects and the worker alone, and an unpause
\* brings every machine up again.
LEMMA QueueElse ==
    ASSUME TypeInv, QueueInv, UNCHANGED <<obj, cache, pc, cur, base, mem, again>>,
           queue \subseteq queue',
           paused => paused' \/ \A m \in Machines : cache[m].ex => m \in queue'
    PROVE  QueueInv'
<1>1. ObjectsInv'
  BY DEF QueueInv, ObjectsInv
<1>2. ASSUME NEW n \in Machines, Quiet(n)' PROVE Finished(n)'
  BY <1>2 DEF QueueInv, Quiet, Finished
<1>3. ASSUME pc # "idle" PROVE RunInv'
  <2>1. cur \in Machines /\ RunInv
    BY <1>3 DEF TypeInv, TypeOK, QueueInv
  <2> QED
    BY <2>1 DEF RunInv, Settled
<1> QED
  BY <1>1, <1>2, <1>3 DEF QueueInv

LEMMA QueueStep == TypeInv /\ FinalizerInv /\ QueueInv /\ [Next]_vars => QueueInv'
<1> SUFFICES ASSUME TypeInv, FinalizerInv, QueueInv, [Next]_vars PROVE QueueInv'
  OBVIOUS
<1>1. CASE UNCHANGED vars
  BY <1>1, QueueElse DEF vars, workerVars, envVars
<1>2. ASSUME NEW m \in Machines,
             \/ Start(m) \/ ReadFails(m) \/ CacheSync(m)
             \/ UserDelete(m) \/ UserKeep(m) \/ StageProgress(m)
      PROVE  QueueInv'
  <2>1. CASE StageProgress(m)
    BY <2>1, QueueElse DEF StageProgress, kubeEnv, workerVars
  <2> QED
    BY <1>2, <2>1, QueueStart, QueueKube
<1>3. CASE Proceed
  BY <1>3, QueueProceed, QueuePatchObject, QueuePatchStatus
<1>4. CASE \E i \in Instances : CloudProgress(i) \/ CloudFault(i)
  <2>1. UNCHANGED <<obj, cache, pc, cur, base, mem, again, queue, paused>>
    BY <1>4 DEF CloudProgress, CloudFault, InstanceChange, cloudEnv, workerVars, envVars
  <2> QED
    BY <2>1, QueueElse
<1>5. CASE Crash
  BY <1>5, QueueCrash
<1>6. CASE Resync \/ InfraBecomesReady \/ Pause \/ Unpause \/ PoolChange
  <2>1. /\ UNCHANGED <<obj, cache, pc, cur, base, mem, again>> /\ queue \subseteq queue'
        /\ paused => paused' \/ \A m \in Machines : cache[m].ex => m \in queue'
    BY <1>6 DEF Resync, InfraBecomesReady, Pause, Unpause, PoolChange, kubeEnv,
                workerVars, envVars, histVars
  <2> QED
    BY <2>1, QueueElse
<1> QED
  BY <1>1, <1>2, <1>3, <1>4, <1>5, <1>6 DEF Next

\* A machine that is not queued, with no event on its way and no reconcile
\* running, is finished: no return of the controller loses track of one, whatever
\* crashes, stale reads, failed calls and failed patches there were.
THEOREM NothingDropped == Spec => []UnfinishedIsQueued
<1>1. QueueInv => UnfinishedIsQueued
  BY DEF QueueInv, Quiet, Finished, UnfinishedIsQueued, Forgotten
<1> QED
  BY <1>1, TypeInit, TypeStep, FinalizerInit, FinalizerStep, QueueInit, QueueStep, PTL
     DEF Spec
=============================================================================
