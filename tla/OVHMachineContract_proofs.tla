---------------------- MODULE OVHMachineContract_proofs ----------------------
(***************************************************************************)
(* OVHMachine implements ManagedResources: every step of the controller,   *)
(* of the user or of the cloud is a step of the contract or changes        *)
(* nothing that the contract speaks of.  After that two properties of the  *)
(* end of a machine: its instance leaves the API server's pool before it   *)
(* is terminated, and nothing is left of it in OVH.                        *)
(***************************************************************************)
EXTENDS OVHMachineInstances_proofs

Life  == [m \in Machines |-> LifeOf(m)]
Res   == [i \in Instances |-> FateOf(i)]
Title == [i \in Instances |-> TitleOf(i)]

\* What the contract sees of a step: nothing, or one of its actions.
Step == [Contract!Next]_(Contract!vars)

LEMMA StutterStep ==
    ASSUME Life' = Life, Res' = Res, Title' = Title, seen' = seen
    PROVE  Step
BY DEF Step, Contract!vars, Life, Res, Title

LEMMA ContractStep ==
    ASSUME \/ \E m \in Machines : Contract!Live(m) \/ Contract!Release(m)
           \/ \E m \in Machines, i \in Instances :
                Contract!Learn(m, i) \/ Contract!Create(m, i) \/ Contract!Terminate(m, i)
           \/ \E i \in Instances : Contract!End(i)
    PROVE  Step
BY DEF Step, Contract!Next

\* LifeOf reads five facts about a machine.
LEMMA LifeSame ==
    ASSUME NEW m \in Machines,
           obj'[m].ex = obj[m].ex, obj'[m].fin = obj[m].fin,
           obj'[m].del = obj[m].del, obj'[m].keep = obj[m].keep,
           m \in kept' <=> m \in kept
    PROVE  LifeOf(m)' = LifeOf(m)
BY DEF LifeOf

LEMMA InstancesSame ==
    ASSUME inst' = inst
    PROVE  Res' = Res /\ Title' = Title
BY DEF Res, Title, FateOf, TitleOf

-----------------------------------------------------------------------------
(* The life of an object.                                                   *)

\* One machine's life moves, in a way the contract allows.
LEMMA LiveStep ==
    ASSUME NEW m \in Machines, TypeInv, inst' = inst, seen' = seen,
           \A n \in Machines \ {m} : LifeOf(n)' = LifeOf(n),
           \/ LifeOf(m)' = LifeOf(m)
           \/ <<LifeOf(m), LifeOf(m)'>> \in Contract!LifeStep
           \/ LifeOf(m) = "doomed" /\ LifeOf(m)' = "released" /\ SeenGone(m)
    PROVE  Step
<1>1. Res' = Res /\ Title' = Title
  BY InstancesSame
<1>2. CASE LifeOf(m)' = LifeOf(m)
  <2>1. Life' = Life
    BY <1>2 DEF Life
  <2> QED
    BY <1>1, <2>1, StutterStep
<1>3. Life' = [Life EXCEPT ![m] = LifeOf(m)'] /\ Life[m] = LifeOf(m)
  BY DEF Life
<1>4. CASE <<LifeOf(m), LifeOf(m)'>> \in Contract!LifeStep
  <2>1. LifeOf(m)' \in Contract!Lives
    BY DEF LifeOf, Contract!Lives
  <2>2. Contract!Live(m)
    BY <1>1, <1>3, <1>4, <2>1 DEF Contract!Live, Life, Res, Title
  <2> QED
    BY <2>2, ContractStep
<1>5. CASE LifeOf(m) = "doomed" /\ LifeOf(m)' = "released" /\ SeenGone(m)
  <2>1. \A i \in seen[m] : i \in Instances
    BY DEF TypeInv, TypeOK
  <2>2. \A i \in seen[m] : Res[i] \in {"ending", "ended"}
    BY <1>5, <2>1 DEF SeenGone, Res, FateOf, Doomed
  <2>3. Contract!Release(m)
    BY <1>1, <1>3, <1>5, <2>2 DEF Contract!Release, Life, Res, Title
  <2> QED
    BY <2>3, ContractStep
<1> QED
  BY <1>2, <1>4, <1>5

LEMMA UserStep ==
    ASSUME TypeInv, NEW m \in Machines, UserDelete(m) \/ UserKeep(m)
    PROVE  Step
<1>1. obj \in [Machines -> CR] /\ obj[m] \in CR /\ inst' = inst /\ seen' = seen
  BY DEF TypeInv, TypeOK, UserDelete, UserKeep, kubeEnv, cloudVars
<1>2. CASE UserDelete(m)
  <2>1. /\ \A n \in Machines \ {m} : obj'[n] = obj[n] /\ (n \in kept' <=> n \in kept)
        /\ obj'[m].del /\ obj'[m].ex = obj[m].fin /\ obj'[m].fin = obj[m].fin
        /\ obj'[m].keep = obj[m].keep
        /\ obj[m].keep => m \in kept'
        /\ obj[m].ex /\ ~obj[m].del
    BY <1>1, <1>2 DEF UserDelete, CR
  <2>2. \A n \in Machines \ {m} : LifeOf(n)' = LifeOf(n)
    BY <2>1, LifeSame
  <2>3. CASE obj[m].fin
    <3>1. LifeOf(m) = "held" /\ LifeOf(m)' \in {"kept", "doomed"}
      BY <2>1, <2>3 DEF LifeOf
    <3> QED
      BY <1>1, <2>2, <3>1, LiveStep DEF Contract!LifeStep
  <2>4. CASE ~obj[m].fin
    <3>1. LifeOf(m) = "new" /\ LifeOf(m)' \in {"released", "left"}
      BY <1>1, <2>1, <2>4 DEF LifeOf, CR
    <3> QED
      BY <1>1, <2>2, <3>1, LiveStep DEF Contract!LifeStep
  <2> QED
    BY <2>3, <2>4
<1>3. CASE UserKeep(m)
  <2>1. /\ \A n \in Machines \ {m} : obj'[n] = obj[n]
        /\ obj'[m].del = obj[m].del /\ obj'[m].ex = obj[m].ex
        /\ obj'[m].fin = obj[m].fin /\ obj'[m].keep
        /\ obj[m].ex /\ ~obj[m].keep /\ kept' = kept
    BY <1>1, <1>3 DEF UserKeep, CR
  <2>2. \A n \in Machines \ {m} : LifeOf(n)' = LifeOf(n)
    BY <2>1, LifeSame
  <2>3. LifeOf(m)' = LifeOf(m) \/ (LifeOf(m) = "doomed" /\ LifeOf(m)' = "spared")
    BY <2>1 DEF LifeOf
  <2> QED
    BY <1>1, <2>2, <2>3, LiveStep DEF Contract!LifeStep
<1> QED
  BY <1>2, <1>3

\* The metadata patch adds the finalizer of a new object, or takes away the
\* object with the finalizer of a deleted one.
LEMMA PatchObjectStep ==
    ASSUME CleanInv, Next, PatchObject
    PROVE  Step
<1> PICK m \in Machines : m = cur
  BY DEF CleanInv, BaseInv, TypeInv, TypeOK, PatchObject
<1>1. /\ TypeInv /\ obj[m] \in CR /\ inst' = inst /\ seen' = seen
      /\ kept' = kept
  BY DEF CleanInv, BaseInv, TypeInv, TypeOK, PatchObject, inPatch, cloudVars, histVars
<1>2. /\ \A n \in Machines \ {m} : obj'[n] = obj[n]
      /\ obj'[m].keep = obj[m].keep /\ obj'[m].del = obj[m].del
      /\ obj[m].fin /\ ~obj'[m].fin => obj[m].del
  BY FinalizerWritten DEF CleanInv, BaseInv
<1>3. obj[m].ex /\ obj[m].del => obj[m].fin
  BY <1>1 DEF CleanInv, QueueInv, ObjectsInv
<1>4. \/ obj'[m].ex = obj[m].ex /\ obj'[m].fin = obj[m].fin
      \/ obj[m].ex /\ obj'[m].ex = (~obj[m].del \/ obj'[m].fin)
  <2>1. CASE obj' = obj
    BY <2>1
  <2>2. CASE obj' # obj
    <3>1. obj[m].ex
          /\ obj' = [obj EXCEPT ![m].fin = Merged("fin"), ![m].prov = Merged("prov"),
                                ![m].ex = ~obj[m].del \/ Merged("fin")]
      BY <2>2 DEF PatchObject
    <3>2. obj \in [Machines -> CR]
      BY <1>1 DEF TypeInv, TypeOK
    <3> QED
      BY <1>1, <3>1, <3>2 DEF CR
  <2> QED
    BY <2>1, <2>2
<1>5. \A n \in Machines \ {m} : LifeOf(n)' = LifeOf(n)
  BY <1>1, <1>2, LifeSame
<1>6. CASE obj'[m].ex = obj[m].ex /\ obj'[m].fin = obj[m].fin
  <2>1. LifeOf(m)' = LifeOf(m)
    BY <1>1, <1>2, <1>6, LifeSame
  <2> QED
    BY <1>1, <1>5, <2>1, LiveStep
<1>7. CASE obj[m].ex /\ obj'[m].ex = (~obj[m].del \/ obj'[m].fin)
  <2>1. CASE obj[m].del /\ ~obj'[m].fin
    <3>1. LifeOf(m) \in {"kept", "spared", "doomed"}
      BY <1>3, <1>7, <2>1 DEF LifeOf
    <3>2. LifeOf(m)' = IF m \in kept THEN "left" ELSE "released"
      BY <1>1, <1>7, <2>1 DEF LifeOf
    <3>3. LifeOf(m) = "kept" <=> m \in kept
      BY <1>3, <1>7, <2>1 DEF LifeOf
    <3>4. LifeOf(m) = "doomed" => SeenGone(m)
      <4> SUFFICES ASSUME LifeOf(m) = "doomed" PROVE SeenGone(m)
        OBVIOUS
      <4>1. ~obj[m].keep
        BY <1>3, <1>7, <2>1 DEF LifeOf
      <4> QED
        BY <1>1, <1>7, <2>1, <4>1, DepartureClean
    <3> QED
      BY <1>1, <1>5, <3>1, <3>2, <3>3, <3>4, LiveStep DEF Contract!LifeStep
  <2>2. CASE obj[m].del /\ obj'[m].fin
    <3>1. LifeOf(m)' = LifeOf(m)
      BY <1>1, <1>2, <1>3, <1>7, <2>2 DEF LifeOf
    <3> QED
      BY <1>1, <1>5, <3>1, LiveStep
  <2>3. CASE ~obj[m].del
    <3>1. LifeOf(m)' = LifeOf(m) \/ (LifeOf(m) = "new" /\ LifeOf(m)' = "held")
      BY <1>1, <1>2, <1>7, <2>3 DEF LifeOf
    <3> QED
      BY <1>1, <1>5, <3>1, LiveStep DEF Contract!LifeStep
  <2> QED
    BY <2>1, <2>2, <2>3
<1> QED
  BY <1>4, <1>6, <1>7

-----------------------------------------------------------------------------
(* The instances, and what reconciles learn of them.                        *)

LEMMA LivesSame ==
    ASSUME obj' = obj, kept' = kept
    PROVE  Life' = Life
BY LifeSame DEF Life

\* The start of a reconcile reads the recorded instance.
LEMMA BeginStep ==
    ASSUME CleanInv, NEW m \in Machines, NEW copy, Begin(m, copy)
    PROVE  Step
<1> USE DEF CleanInv, BaseInv
<1>1. Life' = Life /\ Res' = Res /\ Title' = Title
  BY LivesSame, InstancesSame DEF Begin, cloudVars
<1>2. seen' = [seen EXCEPT ![m] = @ \union ({cache[m].inst} \ {None})]
  BY DEF Begin
<1>3. seen \in [Machines -> SUBSET Instances] /\ cache[m] \in CR
  BY DEF TypeInv, TypeOK
<1>4. CASE cache[m].inst = None
  <2>1. seen' = seen
    BY <1>2, <1>3, <1>4
  <2> QED
    BY <1>1, <2>1, StutterStep
<1>5. CASE cache[m].inst # None
  <2> DEFINE i == cache[m].inst
  <2>1. i \in Instances /\ seen' = [seen EXCEPT ![m] = @ \union {i}]
    BY <1>2, <1>3, <1>5 DEF CR, Ids
  <2>2. m \in Title[i]
    BY <1>5, <2>1 DEF OwnInv, Own, Title, TitleOf
  <2>3. obj[m].fin \/ obj[m].del
    BY <1>5 DEF LearntInv
  <2>4. obj[m].ex /\ obj[m].del => obj[m].fin
    BY DEF QueueInv, ObjectsInv
  <2>5. Life[m] # "new"
    BY <2>3, <2>4 DEF Life, LifeOf
  <2> HIDE DEF i
  <2>6. Contract!Learn(m, i)
    BY <1>1, <2>1, <2>2, <2>5 DEF Contract!Learn, Life, Res, Title
  <2> QED
    BY <2>1, <2>6, ContractStep
<1> QED
  BY <1>4, <1>5

\* A step that changes an instance changes nothing else that the contract sees.
LEMMA InstancesAlone ==
    ASSUME Next, inst' # inst
    PROVE  UNCHANGED <<obj, seen, kept>>
<1> USE DEF cloudVars, histVars
<1>1. ASSUME NEW m \in Machines,
             \/ Start(m) \/ ReadFails(m) \/ CacheSync(m)
             \/ UserDelete(m) \/ UserKeep(m) \/ StageProgress(m)
      PROVE  inst' = inst
  BY <1>1 DEF Start, ReadFails, ReconcileNotFound, WaitOwner,
        ReconcileNormalPaused, AddFinalizer, WaitInfraOrBootstrap, Locate,
        ReconcileDeleteKeep, ReconcileDelete, Begin, CacheSync, UserDelete, UserKeep,
        StageProgress, kubeEnv
<1>2. CASE Proceed
  <2>1. CASE PatchObject \/ PatchStatus
    BY <2>1 DEF PatchObject, PatchStatus, inPatch
  <2>2. CASE ~PatchObject /\ ~PatchStatus
    <3>1. inReconcile
      BY <1>2, <2>2 DEF Proceed, GetKnownInstance, AdoptInstance, FindInstanceByName,
         HandleExistingInstance, ResolveCreateOptions, CreateInstance, CallFails,
         CreateInstanceRetried, RetryPost, EnsureLBPoolMember, MemberSkipped,
         EnsureRKE2RegisterPoolMember, RegisterSkipped, RemoveLBPoolMember,
         NothingToDelete, DeleteInstance, DeleteInstanceFails, StillTerminating, VerifyGone
    <3> QED
      BY <3>1 DEF inReconcile
  <2> QED
    BY <2>1, <2>2
<1>3. CASE \E i \in Instances : CloudProgress(i) \/ CloudFault(i)
  BY <1>3 DEF CloudProgress, CloudFault, InstanceChange, cloudEnv
<1>4. CASE Crash \/ Resync \/ InfraBecomesReady \/ Pause \/ Unpause \/ PoolChange
  BY <1>4 DEF Crash, Resync, InfraBecomesReady, Pause, Unpause, PoolChange, kubeEnv
<1> QED
  BY <1>1, <1>2, <1>3, <1>4 DEF Next

LEMMA FateStep ==
    ASSUME CleanInv, Next, inst' # inst
    PROVE  Step
<1> USE DEF CleanInv, BaseInv
<1>1. Life' = Life /\ seen' = seen
  BY InstancesAlone, LivesSame
<1>2. /\ TypeInv /\ Fate /\ [TerminatesOwn]_vars
      /\ inst \in [Instances -> [st : Statuses, name : Names \union {None}]]
  BY Fates, TerminationStep DEF TypeInv, TypeOK
<1>3. CASE Born
  <2>1. PICK m \in Machines : m = cur
    BY <1>3 DEF Born
  <2>2. PICK i \in Instances : Spawn(i)
    BY <1>3 DEF Born
  <2>3. /\ \A k \in Instances \ {i} : inst'[k] = inst[k]
        /\ inst[i].st = "none" /\ inst'[i] = [st |-> "BUILD", name |-> InstanceName[m]]
    BY <1>2, <2>1, <2>2 DEF Spawn
  <2>10. \A k \in Instances \ {i} : FateOf(k)' = FateOf(k) /\ TitleOf(k)' = TitleOf(k)
    BY <2>3 DEF FateOf, TitleOf
  <2>11. FateOf(i) = "none" /\ FateOf(i)' = "running" /\ m \in TitleOf(i)'
    BY <2>3 DEF FateOf, TitleOf
  <2>4. Res' = [Res EXCEPT ![i] = "running"] /\ Res[i] = "none"
    BY <2>10, <2>11 DEF Res
  <2>5. Title' = [Title EXCEPT ![i] = TitleOf(i)'] /\ m \in TitleOf(i)'
    BY <2>10, <2>11 DEF Title
  <2>6. TitleOf(i)' \in SUBSET Machines
    BY DEF TitleOf
  <2>7. obj[m].ex /\ obj[m].fin
    BY <1>3, <2>1 DEF Born, FinalizerInv, ReconcileInv, NormalPCs
  <2>8. Life[m] \notin {"new", "released", "left"}
    BY <2>7 DEF Life, LifeOf
  <2>9. Contract!Create(m, i)
    BY <1>1, <2>4, <2>5, <2>6, <2>8
       DEF Contract!Create, Contract!Present, Life, Res, Title
  <2> QED
    BY <2>9, ContractStep
<1>4. CASE Ending
  <2>1. PICK m \in Machines : m = cur
    BY <1>4 DEF Ending
  <2>2. PICK i \in Instances : i = mem.inst
    BY <1>4 DEF Ending
  <2>3. ~Doomed(i) /\ inst' = [inst EXCEPT ![i].st = "DELETING"] /\ inst[i].st # "none"
    BY <1>4, <2>2 DEF Ending, Terminate
  <2>4. /\ \A k \in Instances \ {i} : inst'[k] = inst[k]
        /\ inst'[i].st = "DELETING" /\ inst'[i].name = inst[i].name
    BY <1>2, <2>3
  <2>5. obj[m].del /\ m \notin kept /\ (inst[i].name = InstanceName[m] \/ Adopt[m] = i)
    BY <1>2, <2>1, <2>3, <2>4 DEF TerminatesOwn, vars, cloudVars
  <2>6. obj[m].ex => obj[m].fin
    BY <2>5 DEF QueueInv, ObjectsInv
  <2>7. Life[m] \in {"doomed", "spared", "released"}
    BY <2>5, <2>6 DEF Life, LifeOf
  <2>8. Res' = [Res EXCEPT ![i] = "ending"] /\ Res[i] = "running"
    BY <2>3, <2>4 DEF Res, FateOf, Doomed
  <2>9. Title' = Title /\ m \in Title[i]
    BY <2>4, <2>5 DEF Title, TitleOf
  <2>10. Contract!Terminate(m, i)
    BY <1>1, <2>7, <2>8, <2>9 DEF Contract!Terminate, Life, Res, Title
  <2> QED
    BY <2>10, ContractStep
<1>5. CASE Moved
  <2>1. PICK i \in Instances, to \in Statuses \ {"none"} :
          /\ inst' = [inst EXCEPT ![i].st = to]
          /\ inst[i].st \notin {"none", "gone"}
          /\ inst[i].st \in Ended => to \in Ended
          /\ to \in Ended => inst[i].st \in Ended \/ to = "gone"
    BY <1>5 DEF Moved
  <2>2. /\ \A k \in Instances \ {i} : inst'[k] = inst[k]
        /\ inst'[i].st = to /\ inst'[i].name = inst[i].name
    BY <1>2, <2>1
  <2>3. Title' = Title
    BY <2>2 DEF Title, TitleOf
  <2>4. CASE FateOf(i)' = FateOf(i)
    <3>1. Res' = Res
      BY <2>2, <2>4 DEF Res, FateOf
    <3> QED
      BY <1>1, <2>3, <3>1, StutterStep
  <2>5. CASE to = "gone"
    <3>1. Res' = [Res EXCEPT ![i] = "ended"] /\ Res[i] \in {"running", "ending"}
      BY <2>1, <2>2, <2>5 DEF Res, FateOf
    <3>2. Contract!End(i)
      BY <1>1, <2>3, <3>1 DEF Contract!End, Life, Res, Title
    <3> QED
      BY <3>2, ContractStep
  <2>6. CASE to # "gone"
    <3>1. FateOf(i)' = FateOf(i)
      BY <1>2, <2>1, <2>2, <2>6 DEF FateOf, Ended, Statuses
    <3> QED
      BY <2>4, <3>1
  <2> QED
    BY <2>5, <2>6
<1> QED
  BY <1>2, <1>3, <1>4, <1>5 DEF Fate

\* What is left: the contract sees nothing of it.
LEMMA QuietStep ==
    ASSUME TypeInv, Next, inst' = inst,
           \A m \in Machines : ~UserDelete(m) /\ ~UserKeep(m),
           \A m \in Machines : ~Start(m) /\ ~ReadFails(m),
           ~PatchObject
    PROVE  Step
<1> SUFFICES /\ seen' = seen /\ kept' = kept
             /\ \A m \in Machines :
                  /\ obj'[m].ex = obj[m].ex /\ obj'[m].fin = obj[m].fin
                  /\ obj'[m].del = obj[m].del /\ obj'[m].keep = obj[m].keep
  <2>1. \A m \in Machines : LifeOf(m)' = LifeOf(m)
    BY LifeSame
  <2>2. Life' = Life
    BY <2>1 DEF Life
  <2> QED
    BY <2>2, InstancesSame, StutterStep
<1> USE DEF histVars
<1>1. ASSUME NEW m \in Machines, CacheSync(m) \/ StageProgress(m)
      PROVE  UNCHANGED <<obj, seen, kept>>
  BY <1>1 DEF CacheSync, StageProgress, kubeEnv
<1>2. CASE PatchStatus
  <2>1. cur \in Machines /\ obj \in [Machines -> CR]
    BY <1>2 DEF PatchStatus, TypeInv, TypeOK
  <2>2. \/ obj' = obj
        \/ obj' = [obj EXCEPT ![cur].inst = Merged("inst"), ![cur].ready = Merged("ready"),
                              ![cur].failed = Merged("failed"), ![cur].lb = Merged("lb"),
                              ![cur].reg = Merged("reg")]
    BY <1>2 DEF PatchStatus
  <2> QED
    BY <1>2, <2>1, <2>2 DEF CR, PatchStatus, inPatch
<1>3. CASE Proceed /\ ~PatchStatus
  <2>1. inReconcile
    BY <1>3 DEF Proceed, GetKnownInstance, AdoptInstance, FindInstanceByName,
       HandleExistingInstance, ResolveCreateOptions, CreateInstance, CallFails,
       CreateInstanceRetried, RetryPost, EnsureLBPoolMember, MemberSkipped,
       EnsureRKE2RegisterPoolMember, RegisterSkipped, RemoveLBPoolMember,
       NothingToDelete, DeleteInstance, DeleteInstanceFails, StillTerminating, VerifyGone
  <2> QED
    BY <2>1 DEF inReconcile
<1>4. CASE \E i \in Instances : CloudProgress(i) \/ CloudFault(i)
  BY <1>4 DEF CloudProgress, CloudFault, InstanceChange, cloudEnv
<1>5. CASE Crash \/ Resync \/ InfraBecomesReady \/ Pause \/ Unpause \/ PoolChange
  BY <1>5 DEF Crash, Resync, InfraBecomesReady, Pause, Unpause, PoolChange, kubeEnv
<1> QED
  BY <1>1, <1>2, <1>3, <1>4, <1>5 DEF Next

LEMMA StartStep ==
    ASSUME CleanInv, NEW m \in Machines, Start(m) \/ ReadFails(m)
    PROVE  Step
<1>1. CASE ReconcileNotFound(m)
  <2>1. obj' = obj /\ kept' = kept /\ seen' = seen /\ inst' = inst
    BY <1>1 DEF ReconcileNotFound, cloudVars, histVars
  <2> QED
    BY <2>1, LivesSame, InstancesSame, StutterStep
<1>2. CASE ~ReconcileNotFound(m)
  <2>1. PICK copy : Begin(m, copy)
    BY <1>2 DEF Start, ReadFails, WaitOwner, ReconcileNormalPaused, AddFinalizer,
                WaitInfraOrBootstrap, Locate, ReconcileDeleteKeep, ReconcileDelete
  <2> QED
    BY <2>1, BeginStep
<1> QED
  BY <1>1, <1>2

LEMMA RefinementInit == Init => Contract!Init
<1> SUFFICES ASSUME Init PROVE Contract!Init
  OBVIOUS
<1>1. Life = [m \in Machines |-> "new"]
  BY DEF Init, Life, LifeOf, NewCR
<1>2. Res \in [Instances -> {"none", "running"}]
  BY DEF Init, Res, FateOf
<1>3. Title \in [Instances -> SUBSET Machines]
  BY DEF Title, TitleOf
<1> QED
  BY <1>1, <1>2, <1>3 DEF Init, Contract!Init, Life, Res, Title

LEMMA RefinementStep == CleanInv /\ [Next]_vars => Step
<1> SUFFICES ASSUME CleanInv, [Next]_vars PROVE Step
  OBVIOUS
<1>1. CASE UNCHANGED vars
  <2>1. obj' = obj /\ kept' = kept /\ seen' = seen /\ inst' = inst
    BY <1>1 DEF vars, cloudVars, histVars
  <2> QED
    BY <2>1, LivesSame, InstancesSame, StutterStep
<1>2. CASE Next
  <2>1. TypeInv
    BY DEF CleanInv, BaseInv
  <2> QED
    BY <1>2, <2>1, FateStep, UserStep, StartStep, PatchObjectStep, QuietStep
<1> QED
  BY <1>1, <1>2

\* The controller keeps the contract of ManagedResources for any number of machines,
\* instances, crashes and failed calls and patches: it creates under the finalizer,
\* terminates only what belongs to a machine deleted without keep, and releases an
\* object only once every instance that a reconcile has read in its status is on its
\* way out.  Answers may be lost and instances deleted by others if no reconcile reads
\* an old copy, and copies may be old if they are not.
THEOREM KeepsContract ==
    ASSUME Traceable
    PROVE  Spec => ImplementsContract
<1>1. CleanInv /\ [Next]_vars => [Contract!Next]_(Contract!vars)
  BY RefinementStep DEF Step
<1> QED
  BY <1>1, AlwaysClean, RefinementInit, PTL DEF Spec, ImplementsContract, Contract!Spec

-----------------------------------------------------------------------------
(* More than the contract: no instance is left behind.  It takes a recorded *)
(* id to delete an instance, so nothing may come between the POST and the   *)
(* patch that records its answer, and no reconcile may read an older status.*)
(* Machines may share a name, and then an instance: one of them holds it.   *)

\* Created by the controller and not on its way out.
Alive(i) == inst[i].name # None /\ ~Doomed(i)

\* What the controller knows of m: the running reconcile is ahead of the object.
Recorded(m) == IF pc # "idle" /\ m = cur THEN mem.inst ELSE obj[m].inst

\* Machine m, which may have created i, knows it, or was deleted with keep.
Holds(m, i) ==
    /\ m \in CreatorsOf(i)
    /\ obj[m].ex => Recorded(m) = i /\ (obj[m].fin \/ obj[m].del)
    /\ ~obj[m].ex => obj[m].keep

LeakInv ==
    /\ \A i \in Instances : Alive(i) => \E m \in Machines : Holds(m, i)
    /\ pc # "idle" =>
         /\ base.inst = obj[cur].inst
         /\ base.keep => obj[cur].keep
         /\ pc = "verify" => Doomed(mem.inst)
         /\ pc = "patch" /\ base.fin /\ ~mem.fin =>
              base.keep \/ \A i \in Instances : Alive(i) => mem.inst # i

\* The invariants that LeakInv leans on: none of them needs instances to stay.
SideInv == BaseInv /\ FinalizerInv /\ QueueInv /\ UniqueInv

LEMMA SideInit == Init => SideInv
BY BaseInit, FinalizerInit, QueueInit, UniqueInit DEF SideInv

LEMMA SideStep == SideInv /\ ~LosesPost /\ [Next]_vars => SideInv'
BY BaseStep, FinalizerStep, QueueStep, UniqueStep DEF SideInv, BaseInv

LEMMA LeakInit == Init => LeakInv
BY DEF Init, LeakInv, Alive

\* An instance that is alive is present.
LEMMA AlivePresent ==
    ASSUME BaseInv, NEW i \in Instances, Alive(i)
    PROVE  Present(i)
BY DEF BaseInv, OwnInv, Alive, Doomed, Present

\* Unless it is born in this step, what is alive was alive before.
LEMMA AliveBefore ==
    ASSUME TypeInv, Fate, NEW i \in Instances, Alive(i)', ~(Born /\ Spawn(i))
    PROVE  Alive(i) /\ inst'[i].name = inst[i].name
BY FateKeeps DEF Alive

\* A holder goes on holding unless the step is its own.
LEMMA HoldsOn ==
    ASSUME NEW m \in Machines, NEW i \in Instances, Holds(m, i),
           inst'[i].name = inst[i].name, obj'[m].keep = obj[m].keep,
           obj'[m].ex = obj[m].ex, obj'[m].ex => Recorded(m)' = Recorded(m),
           obj'[m].fin = obj[m].fin, obj'[m].del = obj[m].del
    PROVE  Holds(m, i)'
BY DEF Holds, CreatorsOf

-----------------------------------------------------------------------------

LEMMA LeakBegin ==
    ASSUME TypeInv, LeakInv, "stale" \notin FaultKinds,
           NEW m \in Machines, NEW copy, Begin(m, copy), copy.inst = cache[m].inst,
           pc' \notin {"idle", "verify"},
           pc' = "patch" => ~cache[m].fin \/ copy.fin \/ cache[m].keep
    PROVE  LeakInv'
<1>1. /\ UNCHANGED <<obj, cache, inst>> /\ pc = "idle" /\ cur' = m /\ mem' = copy
      /\ base' = obj[m] /\ cache[m] = obj[m] /\ obj[m].ex
  BY DEF Begin, cloudVars
<1>2. ASSUME NEW i \in Instances, Alive(i)'
      PROVE  \E n \in Machines : Holds(n, i)'
  <2>1. PICK n \in Machines : Holds(n, i)
    BY <1>1, <1>2 DEF LeakInv, Alive, Doomed
  <2>2. Recorded(n)' = Recorded(n)
    BY <1>1 DEF Recorded
  <2> QED
    BY <1>1, <2>1, <2>2, HoldsOn
<1> QED
  BY <1>1, <1>2 DEF LeakInv

LEMMA LeakStart ==
    ASSUME TypeInv, LeakInv, "stale" \notin FaultKinds,
           NEW m \in Machines, Start(m) \/ ReadFails(m)
    PROVE  LeakInv'
<1>1. cache[m] \in CR
  BY DEF TypeInv, TypeOK
<1>2. CASE ReconcileNotFound(m)
  <2>1. UNCHANGED <<obj, inst, pc>> /\ pc = "idle"
    BY <1>2 DEF ReconcileNotFound, workerVars, cloudVars
  <2> QED
    BY <2>1 DEF LeakInv, Alive, Doomed, Holds, CreatorsOf, Recorded
<1>3. /\ [cache[m] EXCEPT !.ready = FALSE].inst = cache[m].inst
      /\ [cache[m] EXCEPT !.ready = FALSE].fin = cache[m].fin
      /\ [cache[m] EXCEPT !.fin = TRUE, !.ready = FALSE].inst = cache[m].inst
      /\ [cache[m] EXCEPT !.fin = TRUE, !.ready = FALSE].fin = TRUE
      /\ [cache[m] EXCEPT !.fin = FALSE].inst = cache[m].inst
  BY <1>1 DEF CR
<1>4. CASE WaitOwner(m)
  BY <1>4, LeakBegin DEF WaitOwner, Return
<1>5. CASE ReadFails(m)
  BY <1>5, LeakBegin DEF ReadFails, Return
<1>6. CASE ReconcileNormalPaused(m)
  BY <1>3, <1>6, LeakBegin DEF ReconcileNormalPaused, Return
<1>7. CASE AddFinalizer(m)
  BY <1>3, <1>7, LeakBegin DEF AddFinalizer, Return
<1>8. CASE WaitInfraOrBootstrap(m)
  BY <1>8, LeakBegin DEF WaitInfraOrBootstrap, Return
<1>9. CASE Locate(m)
  BY <1>9, LeakBegin DEF Locate, AdoptOrFind
<1>10. CASE ReconcileDeleteKeep(m)
  BY <1>3, <1>10, LeakBegin DEF ReconcileDeleteKeep, Return
<1>11. CASE ReconcileDelete(m)
  BY <1>11, LeakBegin DEF ReconcileDelete
<1> QED
  BY <1>2, <1>4, <1>5, <1>6, <1>7, <1>8, <1>9, <1>10, <1>11 DEF Start

\* What the running reconcile knows and has to go on knowing.
AtHand(i) == mem.inst = i /\ cur \in CreatorsOf(i) /\ Alive(i)

\* A step of a running reconcile that still knows its instance afterwards.
LEMMA LeakRun ==
    ASSUME SideInv, LeakInv, [Next]_vars, inReconcile,
           pc \notin {"idle", "patch", "patchStatus"}, pc' # "idle",
           \A i \in Instances :
               /\ Born /\ Spawn(i) => mem'.inst = i
               /\ AtHand(i) => mem'.inst = i,
           pc' = "verify" => Doomed(mem.inst)',
           pc' = "patch" =>
               mem'.fin = mem.fin \/ \A i \in Instances : Alive(i)' => mem'.inst # i
    PROVE  LeakInv'
<1> USE DEF SideInv, BaseInv
<1>1. UNCHANGED <<obj, cache, cur, base>> /\ cur \in Machines /\ Fate
  BY Fates DEF inReconcile, TypeInv, TypeOK
<1>2. ReconcileInv /\ RunInv
  BY DEF FinalizerInv, QueueInv
<1>3. base.fin => mem.fin
  <2>1. pc \in NormalPCs \union {"member", "register"} \union DeletePCs
    BY DEF TypeInv, TypeOK, PCs, NormalPCs, DeletePCs
  <2> QED
    BY <1>2, <2>1 DEF ReconcileInv, RunInv
<1>4. ASSUME NEW i \in Instances, Alive(i)'
      PROVE  \E m \in Machines : Holds(m, i)'
  <2>1. CASE Born /\ Spawn(i)
    <3>1. pc = "post" /\ inst'[i].name = InstanceName[cur] /\ Adopt[cur] = None
      BY <2>1 DEF Born, Spawn, TypeInv, TypeOK, KnowsInstance
    <3>2. obj[cur].ex /\ obj[cur].fin
      BY <1>2, <3>1 DEF ReconcileInv, NormalPCs
    <3>3. Holds(cur, i)'
      BY <1>1, <2>1, <3>1, <3>2 DEF Holds, CreatorsOf, Recorded
    <3> QED
      BY <1>1, <3>3
  <2>2. CASE ~(Born /\ Spawn(i))
    <3>1. Alive(i) /\ inst'[i].name = inst[i].name
      BY <1>1, <1>4, <2>2, AliveBefore
    <3>2. PICK m \in Machines : Holds(m, i)
      BY <3>1 DEF LeakInv
    <3>3. obj[m].ex => Recorded(m)' = Recorded(m)
      BY <1>1, <3>1, <3>2 DEF Recorded, AtHand, Holds
    <3> QED
      BY <1>1, <3>1, <3>2, <3>3, HoldsOn
  <2> QED
    BY <2>1, <2>2
<1>5. base'.inst = obj'[cur'].inst /\ (base'.keep => obj'[cur'].keep)
  BY <1>1 DEF LeakInv
<1>6. ASSUME pc' = "patch", base'.fin, ~mem'.fin
      PROVE  \A i \in Instances : Alive(i)' => mem'.inst # i
  BY <1>1, <1>3, <1>6
<1> QED
  BY <1>4, <1>5, <1>6 DEF LeakInv

LEMMA LeakProceed ==
    ASSUME "lostPost" \notin FaultKinds, SideInv, LeakInv, [Next]_vars,
           Proceed, ~PatchObject, ~PatchStatus
    PROVE  LeakInv'
<1> USE DEF SideInv, BaseInv
<1>1. /\ mem \in CR
      /\ inst \in [Instances -> [st : Statuses, name : Names \union {None}]]
  BY DEF TypeInv, TypeOK
<1>2. ASSUME NEW i PROVE /\ [mem EXCEPT !.inst = i].fin = mem.fin
                         /\ [mem EXCEPT !.inst = i].inst = i
                         /\ [mem EXCEPT !.lb = i].fin = mem.fin
                         /\ [mem EXCEPT !.lb = i].inst = mem.inst
                         /\ [mem EXCEPT !.reg = i].fin = mem.fin
                         /\ [mem EXCEPT !.reg = i].inst = mem.inst
                         /\ [mem EXCEPT !.fin = FALSE].inst = mem.inst
  BY <1>1 DEF CR
<1>3. /\ pc \notin {"idle", "patch", "patchStatus"} /\ inReconcile /\ cur \in Machines
      /\ pc' # "idle"
  BY DEF Proceed, GetKnownInstance, AdoptInstance, FindInstanceByName,
         HandleExistingInstance, ResolveCreateOptions, CreateInstance, CallFails,
         CreateInstanceRetried, RetryPost, EnsureLBPoolMember, MemberSkipped,
         EnsureRKE2RegisterPoolMember, RegisterSkipped, RemoveLBPoolMember,
         NothingToDelete, DeleteInstance, DeleteInstanceFails, StillTerminating,
         VerifyGone, Return, RemoveFinalizer, AdoptOrFind, TypeInv, TypeOK
\* what is at hand is present and found by name, and is no adopted instance
<1>4. \A i \in Instances : AtHand(i) =>
        /\ mem.inst = i /\ i \in Named(InstanceName[cur]) /\ Present(i)
        /\ Adopt[cur] = None
  BY AlivePresent DEF AtHand, CreatorsOf, Named
<1>5. ASSUME pc \in {"get", "adopt", "find"}, NEW k \in Instances,
             HandleExistingInstance(k), \A i \in Instances : AtHand(i) => i = k
      PROVE  LeakInv'
  <2>1. mem'.fin = mem.fin /\ mem'.inst = k /\ pc' \in {"member", "patch"}
    BY <1>1, <1>5, HandleExistingInstanceKeeps
  <2>2. ~Born
    BY <1>5 DEF Born
  <2> QED
    BY <1>3, <1>5, <2>1, <2>2, LeakRun
<1>6. CASE GetKnownInstance
  <2>1. pc = "get" /\ mem.inst \in Instances /\ ~Born
    BY <1>6 DEF GetKnownInstance, TypeInv, KnowsInstance, Born
  <2>2. CASE HandleExistingInstance(mem.inst)
    BY <1>4, <1>5, <2>1, <2>2
  <2>3. CASE ~HandleExistingInstance(mem.inst)
    <3>1. ~Present(mem.inst) /\ pc' \in {"adopt", "find"}
      BY <1>6, <2>3 DEF GetKnownInstance, AdoptOrFind
    <3>2. \A i \in Instances : ~AtHand(i)
      BY <1>4, <3>1
    <3> QED
      BY <1>3, <2>1, <3>1, <3>2, LeakRun
  <2> QED
    BY <2>2, <2>3
<1>7. CASE AdoptInstance
  <2>1. pc = "adopt" /\ Adopt[cur] \in Instances /\ ~Born
    BY <1>7 DEF AdoptInstance, TypeInv, KnowsInstance, Born
  <2>2. \A i \in Instances : ~AtHand(i)
    BY <1>4, <2>1, ConstantsAssumption
  <2>3. CASE HandleExistingInstance(Adopt[cur])
    BY <1>5, <2>1, <2>2, <2>3
  <2>4. CASE ~HandleExistingInstance(Adopt[cur])
    BY <1>3, <1>7, <2>1, <2>2, <2>4, LeakRun DEF AdoptInstance, Return
  <2> QED
    BY <2>3, <2>4
<1>8. CASE FindInstanceByName
  <2>1. pc = "find" /\ ~Born
    BY <1>8 DEF FindInstanceByName, Born
  <2>2. ASSUME NEW k \in Named(InstanceName[cur]), HandleExistingInstance(k)
        PROVE  LeakInv'
    <3>1. k \in Instances /\ \A i \in Instances : AtHand(i) => i = k
      BY <1>3, <1>4, <2>2 DEF UniqueInv, NoDuplicateInstance, Named
    <3> QED
      BY <1>5, <2>1, <2>2, <3>1
  <2>3. CASE ~\E i \in Named(InstanceName[cur]) : HandleExistingInstance(i)
    BY <1>3, <1>4, <1>8, <2>1, <2>3, LeakRun DEF FindInstanceByName
  <2> QED
    BY <2>2, <2>3
<1>9. CASE CreateInstance
  <2>1. PICK k \in Instances : Spawn(k) /\ mem' = [mem EXCEPT !.inst = k]
    BY <1>9 DEF CreateInstance
  <2>2. \A i \in Instances : Spawn(i) => i = k
    BY <1>1, <2>1 DEF Spawn
  <2>3. \A i \in Instances : ~AtHand(i)
    BY <1>4, <1>9 DEF CreateInstance, UniqueInv
  <2> QED
    BY <1>2, <1>3, <1>9, <2>1, <2>2, <2>3, LeakRun DEF CreateInstance, Return
<1>10. CASE ResolveCreateOptions \/ CallFails \/ CreateInstanceRetried
  <2>1. inst' = inst /\ mem' = mem /\ pc' \in {"post", "patch"}
    BY <1>10 DEF ResolveCreateOptions, CallFails, CreateInstanceRetried, Fault, RetryPost,
                 Return, cloudVars
  <2>2. \A i \in Instances : ~Spawn(i)
    BY <1>1, <2>1 DEF Spawn
  <2> QED
    BY <1>3, <1>4, <2>1, <2>2, LeakRun
<1>11. CASE \/ EnsureLBPoolMember \/ MemberSkipped \/ EnsureRKE2RegisterPoolMember
            \/ RegisterSkipped
  <2>1. /\ mem'.inst = mem.inst /\ mem'.fin = mem.fin /\ pc' \in {"register", "patch"}
        /\ pc \in {"member", "register"}
    BY <1>2, <1>11 DEF EnsureLBPoolMember, MemberSkipped, EnsureRKE2RegisterPoolMember,
                       RegisterSkipped
  <2> QED
    BY <1>3, <1>4, <2>1, LeakRun DEF Born
<1>12. CASE RemoveLBPoolMember
  <2>1. mem'.inst = mem.inst /\ mem'.fin = mem.fin /\ pc = "deregister" /\ pc' = "delete"
    BY <1>2, <1>12 DEF RemoveLBPoolMember
  <2> QED
    BY <1>3, <1>4, <2>1, LeakRun DEF Born
<1>13. CASE NothingToDelete
  <2>1. /\ mem'.inst = mem.inst /\ pc = "delete" /\ pc' = "patch" /\ mem.inst \notin Instances
    BY <1>2, <1>13, ConstantsAssumption DEF NothingToDelete, RemoveFinalizer, Return
  <2> QED
    BY <1>3, <1>4, <2>1, LeakRun DEF Born
<1>14. CASE DeleteInstance \/ DeleteInstanceFails \/ StillTerminating
  <2>1. /\ mem' = mem /\ pc \in {"delete", "verify"} /\ pc' \in {"verify", "patch"}
        /\ mem.inst \in Instances
        /\ pc' = "verify" => Terminate(mem.inst)
    BY <1>14 DEF DeleteInstance, DeleteInstanceFails, StillTerminating, Return, TypeInv,
                 TypeOK, KnowsInstance, CR, Ids
  <2>2. pc' = "verify" => Doomed(mem.inst)'
    BY <1>1, <2>1 DEF Terminate, Doomed
  <2> QED
    BY <1>3, <1>4, <2>1, <2>2, LeakRun DEF Born
<1>15. CASE VerifyGone
  <2>1. /\ mem'.inst = mem.inst /\ pc = "verify" /\ pc' = "patch" /\ inst' = inst
    BY <1>2, <1>15 DEF VerifyGone, RemoveFinalizer, Return, cloudVars
  <2>2. \A i \in Instances : Alive(i)' => mem'.inst # i
    BY <2>1 DEF LeakInv, Alive, Doomed
  <2> QED
    BY <1>3, <1>4, <2>1, <2>2, LeakRun DEF Born
<1> QED
  BY <1>6, <1>7, <1>8, <1>9, <1>10, <1>11, <1>12, <1>13, <1>14, <1>15 DEF Proceed

\* The finalizer goes when nothing at hand is alive, or to keep it.
LEMMA LeakPatchObject ==
    ASSUME SideInv, LeakInv, PatchObject
    PROVE  LeakInv'
<1> USE DEF SideInv, BaseInv
<1>1. /\ UNCHANGED <<inst, cur, base, mem>> /\ pc = "patch" /\ pc' = "patchStatus"
      /\ cur \in Machines
  BY DEF PatchObject, inPatch, cloudVars, TypeInv, TypeOK
<1>2. /\ \A n \in Machines \ {cur} : obj'[n] = obj[n]
      /\ obj'[cur].inst = obj[cur].inst /\ obj'[cur].keep = obj[cur].keep
      /\ obj'[cur].del = obj[cur].del
      /\ obj[cur].fin /\ ~obj'[cur].fin => obj[cur].del
      /\ obj[cur].ex /\ ~obj'[cur].ex => base.fin /\ ~mem.fin
  BY FinalizerWritten
<1>3. obj'[cur].ex => obj[cur].ex
  <2>1. CASE obj' = obj
    BY <2>1
  <2>2. CASE obj' # obj
    BY <2>2 DEF PatchObject
  <2> QED
    BY <2>1, <2>2
<1>4. ASSUME NEW i \in Instances, Alive(i)'
      PROVE  \E m \in Machines : Holds(m, i)'
  <2>1. Alive(i)
    BY <1>1, <1>4 DEF Alive, Doomed
  <2>2. PICK m \in Machines : Holds(m, i)
    BY <2>1 DEF LeakInv
  <2>3. CASE m # cur
    <3>1. Recorded(m)' = Recorded(m) /\ obj'[m] = obj[m]
      BY <1>1, <1>2, <2>3 DEF Recorded
    <3> QED
      BY <1>1, <2>2, <3>1, HoldsOn
  <2>4. CASE m = cur
    <3>1. obj[m].ex => mem.inst = i
      BY <1>1, <2>2, <2>4 DEF Holds, Recorded
    <3>2. obj[m].ex /\ ~obj'[m].ex => obj[m].keep
      BY <1>1, <1>2, <2>1, <2>4, <3>1 DEF LeakInv
    <3> QED
      BY <1>1, <1>2, <1>3, <2>2, <2>4, <3>2 DEF Holds, CreatorsOf, Recorded
  <2> QED
    BY <2>3, <2>4
<1> QED
  BY <1>1, <1>2, <1>4 DEF LeakInv

\* The status patch writes down what the reconcile knows.
LEMMA LeakPatchStatus ==
    ASSUME "patch" \notin FaultKinds, SideInv, LeakInv, PatchStatus
    PROVE  LeakInv'
<1> USE DEF SideInv, BaseInv
<1>1. /\ inst' = inst /\ pc = "patchStatus" /\ pc' = "idle"
      /\ cur \in Machines /\ obj \in [Machines -> CR] /\ obj[cur] \in CR
  BY DEF PatchStatus, inPatch, cloudVars, Done, TypeInv, TypeOK
<1>2. base.inst = obj[cur].inst
  BY <1>1 DEF LeakInv
<1>3. /\ \A n \in Machines \ {cur} : obj'[n] = obj[n]
      /\ obj'[cur].ex = obj[cur].ex /\ obj'[cur].fin = obj[cur].fin
      /\ obj'[cur].del = obj[cur].del /\ obj'[cur].keep = obj[cur].keep
      /\ obj[cur].ex => obj'[cur].inst = mem.inst
  <2>1. CASE obj' = obj
    <3>1. obj[cur].ex => mem.inst = base.inst
      <4> SUFFICES ASSUME obj[cur].ex, mem.inst # base.inst PROVE FALSE
        OBVIOUS
      <4>1. StatusDirty
        BY DEF StatusDirty
      <4>2. obj' = [obj EXCEPT ![cur].inst = Merged("inst"), ![cur].ready = Merged("ready"),
                               ![cur].failed = Merged("failed"), ![cur].lb = Merged("lb"),
                               ![cur].reg = Merged("reg")]
        BY <4>1 DEF PatchStatus, Fault
      <4>3. obj'[cur].inst = mem.inst
        BY <1>1, <4>2 DEF CR, Merged
      <4> QED
        BY <1>2, <2>1, <4>3
    <3> QED
      BY <1>2, <2>1, <3>1
  <2>2. CASE obj' # obj
    <3>1. obj' = [obj EXCEPT ![cur].inst = Merged("inst"), ![cur].ready = Merged("ready"),
                             ![cur].failed = Merged("failed"), ![cur].lb = Merged("lb"),
                             ![cur].reg = Merged("reg")]
      BY <2>2 DEF PatchStatus
    <3>2. Merged("inst") = mem.inst
      BY <1>2 DEF Merged
    <3> QED
      BY <1>1, <3>1, <3>2 DEF CR
  <2> QED
    BY <2>1, <2>2
<1>4. ASSUME NEW i \in Instances, Alive(i)'
      PROVE  \E m \in Machines : Holds(m, i)'
  <2>1. PICK m \in Machines : Holds(m, i)
    BY <1>1, <1>4 DEF LeakInv, Alive, Doomed
  <2>2. obj[m].ex => Recorded(m)' = Recorded(m)
    BY <1>1, <1>3 DEF Recorded
  <2>3. /\ obj'[m].ex = obj[m].ex /\ obj'[m].fin = obj[m].fin
        /\ obj'[m].del = obj[m].del /\ obj'[m].keep = obj[m].keep
    BY <1>3
  <2> QED
    BY <1>1, <2>1, <2>2, <2>3, HoldsOn
<1> QED
  BY <1>1, <1>4 DEF LeakInv

LEMMA LeakKube ==
    ASSUME SideInv, LeakInv, NEW m \in Machines, UserDelete(m) \/ UserKeep(m)
    PROVE  LeakInv'
<1> USE DEF SideInv, BaseInv
<1>1. /\ UNCHANGED <<inst, pc, cur, base, mem>> /\ obj \in [Machines -> CR]
      /\ obj[m] \in CR /\ (pc # "idle" => cur \in Machines)
  BY DEF UserDelete, UserKeep, kubeEnv, workerVars, cloudVars, TypeInv, TypeOK
<1>2. /\ \A n \in Machines \ {m} : obj'[n] = obj[n]
      /\ obj'[m].inst = obj[m].inst /\ obj'[m].fin = obj[m].fin
      /\ obj[m].keep => obj'[m].keep
      /\ obj[m].del => obj'[m].del
      /\ obj'[m].ex => obj[m].ex
      /\ obj[m].ex /\ ~obj'[m].ex => ~obj[m].fin /\ ~obj[m].del
  BY <1>1 DEF UserDelete, UserKeep, CR
<1>3. ASSUME NEW i \in Instances, Alive(i)'
      PROVE  \E n \in Machines : Holds(n, i)'
  <2>1. PICK n \in Machines : Holds(n, i)
    BY <1>1, <1>3 DEF LeakInv, Alive, Doomed
  <2>2. Recorded(n)' = Recorded(n)
    BY <1>1, <1>2 DEF Recorded
  <2> QED
    BY <1>1, <1>2, <2>1, <2>2 DEF Holds, CreatorsOf
<1>4. ASSUME pc # "idle"
      PROVE  obj'[cur].inst = obj[cur].inst /\ (obj[cur].keep => obj'[cur].keep)
  BY <1>1, <1>2, <1>4
<1>5. /\ \A i \in Instances : Alive(i)' = Alive(i)
      /\ Doomed(mem.inst)' = Doomed(mem.inst)
  BY <1>1 DEF Alive, Doomed
<1> QED
  BY <1>1, <1>3, <1>4, <1>5 DEF LeakInv

LEMMA LeakElse ==
    ASSUME SideInv, LeakInv, UNCHANGED <<obj, pc, cur, base, mem>>, Fate, ~Born
    PROVE  LeakInv'
<1> USE DEF SideInv, BaseInv
<1>1. \A i \in Instances : Alive(i)' => Alive(i) /\ inst'[i].name = inst[i].name
  BY AliveBefore
<1>2. pc = "verify" /\ Doomed(mem.inst) => Doomed(mem.inst)'
  <2>1. pc = "verify" => mem.inst \in Instances
    BY DEF TypeInv, KnowsInstance
  <2> QED
    BY <2>1, FateKeeps DEF Doomed
<1>3. ASSUME NEW i \in Instances, Alive(i)'
      PROVE  \E m \in Machines : Holds(m, i)'
  <2>1. PICK m \in Machines : Holds(m, i)
    BY <1>1, <1>3 DEF LeakInv
  <2>2. Recorded(m)' = Recorded(m)
    BY DEF Recorded
  <2> QED
    BY <1>1, <1>3, <2>1, <2>2, HoldsOn
<1> QED
  BY <1>1, <1>2, <1>3 DEF LeakInv

LEMMA LeakStep ==
    ASSUME {"stale", "crash", "patch", "lostPost"} \intersect FaultKinds = {}
    PROVE  SideInv /\ LeakInv /\ [Next]_vars => LeakInv'
<1> SUFFICES ASSUME SideInv, LeakInv, [Next]_vars PROVE LeakInv'
  OBVIOUS
<1> USE DEF SideInv, BaseInv
<1>1. Fate
  BY Fates
<1>2. ASSUME NEW m \in Machines, Start(m) \/ ReadFails(m) PROVE LeakInv'
  BY <1>2, LeakStart
<1>3. ASSUME NEW m \in Machines, UserDelete(m) \/ UserKeep(m) PROVE LeakInv'
  BY <1>3, LeakKube
<1>4. CASE Proceed
  BY <1>4, LeakProceed, LeakPatchObject, LeakPatchStatus
<1>5. ASSUME UNCHANGED <<obj, pc, cur, base, mem>>, ~Born PROVE LeakInv'
  BY <1>1, <1>5, LeakElse
<1>6. ASSUME inst' = inst PROVE ~Born
  BY <1>6 DEF Born, Spawn, TypeInv, TypeOK
<1>7. ASSUME NEW m \in Machines, CacheSync(m) \/ StageProgress(m) PROVE LeakInv'
  BY <1>5, <1>6, <1>7 DEF CacheSync, StageProgress, kubeEnv, workerVars, cloudVars
<1>8. CASE UNCHANGED vars
  BY <1>5, <1>6, <1>8 DEF vars, workerVars, cloudVars
<1>9. CASE \E i \in Instances : CloudProgress(i) \/ CloudFault(i)
  <2>1. PICK i \in Instances, to \in Statuses \ {"none"} :
          inst[i].st # "none" /\ inst' = [inst EXCEPT ![i].st = to]
    BY <1>9 DEF CloudProgress, CloudFault, InstanceChange, Statuses
  <2>2. ~Born
    <3>1. \A k \in Instances : inst[k].st = "none" => inst'[k] = inst[k]
      BY <2>1 DEF TypeInv, TypeOK
    <3> QED
      BY <3>1 DEF Born, Spawn, TypeInv, TypeOK
  <2>3. UNCHANGED <<obj, pc, cur, base, mem>>
    BY <1>9 DEF CloudProgress, CloudFault, InstanceChange, cloudEnv, workerVars
  <2> QED
    BY <1>5, <2>2, <2>3
<1>10. CASE Resync \/ InfraBecomesReady \/ Pause \/ Unpause \/ PoolChange
  BY <1>5, <1>6, <1>10 DEF Resync, InfraBecomesReady, Pause, Unpause, PoolChange, kubeEnv,
                           workerVars, cloudVars
<1>11. ~Crash
  BY DEF Crash, Fault
<1> QED
  BY <1>2, <1>3, <1>4, <1>7, <1>8, <1>9, <1>10, <1>11 DEF Next

\* No instance is left behind when the object it was created for, and every other
\* object with the same instance name, is gone without the keep annotation, whatever
\* calls to OVH fail, builds break or instances vanish - provided that no
\* CreateInstance answer is lost, nothing comes between the POST and the status
\* patch (a crash, a failed patch), and no reconcile reads a status older than the
\* last patch.  The names may be any, coinciding ones included.
THEOREM NothingLeftBehind ==
    ASSUME {"stale", "crash", "patch", "lostPost"} \intersect FaultKinds = {}
    PROVE  Spec => []NoLeak
<1>1. Init => SideInv /\ LeakInv
  BY SideInit, LeakInit
<1>2. SideInv /\ LeakInv /\ [Next]_vars => SideInv' /\ LeakInv'
  BY SideStep, LeakStep DEF LosesPost
<1>3. LeakInv => NoLeak
  BY ConstantsAssumption DEF LeakInv, NoLeak, Alive, Holds, CreatorsOf
<1> QED
  BY <1>1, <1>2, <1>3, PTL DEF Spec

-----------------------------------------------------------------------------
(* A machine leaves the API server's pool before its instance terminates, if *)
(* nothing has failed yet: its status then names its member.                *)

BusyPCs == NormalPCs \union {"member", "register"}

\* The members of the pool are known to their machines, as long as no call failed.
Member(m) == IF pc # "idle" /\ m = cur THEN mem.lb ELSE obj[m].lb

Undisturbed ==
    /\ pools = Pools
    /\ \A m \in Machines, i \in apiPool : Own(m, i) => Member(m) = i
    /\ pc # "idle" =>
         /\ base.lb = obj[cur].lb
         /\ pc \in BusyPCs \/ mem.lb \notin {base.lb, None} =>
              mem.fin = base.fin /\ obj[cur].ex /\ obj[cur].fin
         /\ pc \in {"delete", "verify"} => mem.lb = None

DrainInv ==
    /\ \A i \in apiPool : inst[i].st # "none"
    /\ faults = 0 => UniqueInv /\ OneInstanceInv /\ Undisturbed

\* Without a fault the count stays; with one it is never 0 again.
LEMMA FaultsStay ==
    ASSUME TypeInv, [Next]_vars, faults' = 0
    PROVE  faults = 0 /\ \A k : ~Fault(k)
<1>1. \A k : ~Fault(k)
  BY ConstantsAssumption DEF Fault, TypeInv, TypeOK
<1>2. ASSUME NEW m \in Machines,
             \/ Start(m) \/ ReadFails(m) \/ CacheSync(m)
             \/ UserDelete(m) \/ UserKeep(m) \/ StageProgress(m)
      PROVE  faults' = faults
  BY <1>1, <1>2 DEF Start, ReadFails, ReconcileNotFound, WaitOwner,
        ReconcileNormalPaused, AddFinalizer, WaitInfraOrBootstrap, Locate,
        ReconcileDeleteKeep, ReconcileDelete, CacheSync, UserDelete, UserKeep,
        StageProgress
<1>3. ASSUME Proceed PROVE faults' = faults
  BY <1>1, <1>3 DEF Proceed, GetKnownInstance, AdoptInstance, FindInstanceByName,
         HandleExistingInstance, ResolveCreateOptions, CreateInstance, CallFails,
         CreateInstanceRetried, EnsureLBPoolMember, MemberSkipped,
         EnsureRKE2RegisterPoolMember, RegisterSkipped, RemoveLBPoolMember,
         NothingToDelete, DeleteInstance, DeleteInstanceFails, StillTerminating,
         VerifyGone, PatchObject, PatchStatus
<1>4. ASSUME NEW i \in Instances, CloudProgress(i) \/ CloudFault(i)
      PROVE  faults' = faults
  BY <1>1, <1>4 DEF CloudProgress, CloudFault
<1>5. ASSUME Crash \/ Resync \/ InfraBecomesReady \/ Pause \/ Unpause \/ PoolChange
      PROVE  faults' = faults
  BY <1>1, <1>5 DEF Crash, Resync, InfraBecomesReady, Pause, Unpause, PoolChange
<1>6. CASE UNCHANGED vars
  BY <1>1, <1>6 DEF vars
<1> QED
  BY <1>1, <1>2, <1>3, <1>4, <1>5, <1>6 DEF Next

\* A member is added for the instance at hand.
LEMMA MembersAdded ==
    ASSUME [Next]_vars
    PROVE  \A i \in apiPool' : i \in apiPool \/ (pc = "member" /\ i = mem.inst)
<1> USE DEF cloudVars
<1>1. ASSUME NEW m \in Machines,
             \/ Start(m) \/ ReadFails(m) \/ CacheSync(m)
             \/ UserDelete(m) \/ UserKeep(m) \/ StageProgress(m)
      PROVE  apiPool' = apiPool
  BY <1>1 DEF Start, ReadFails, ReconcileNotFound, WaitOwner,
        ReconcileNormalPaused, AddFinalizer, WaitInfraOrBootstrap, Locate,
        ReconcileDeleteKeep, ReconcileDelete, Begin, CacheSync, UserDelete, UserKeep,
        StageProgress, kubeEnv
<1>2. CASE EnsureLBPoolMember \/ MemberSkipped
  BY <1>2 DEF EnsureLBPoolMember, MemberSkipped
<1>3. CASE RemoveLBPoolMember
  BY <1>3 DEF RemoveLBPoolMember
<1>4. ASSUME Proceed, ~EnsureLBPoolMember, ~MemberSkipped, ~RemoveLBPoolMember
      PROVE  apiPool' = apiPool
  BY <1>4 DEF Proceed, GetKnownInstance, AdoptInstance, FindInstanceByName,
         HandleExistingInstance, ResolveCreateOptions, CreateInstance, CallFails,
         CreateInstanceRetried, RetryPost, EnsureRKE2RegisterPoolMember,
         RegisterSkipped, NothingToDelete, DeleteInstance, DeleteInstanceFails,
         StillTerminating, VerifyGone, PatchObject, PatchStatus, inPatch
<1>5. ASSUME NEW i \in Instances, CloudProgress(i) \/ CloudFault(i)
      PROVE  apiPool' = apiPool
  BY <1>5 DEF CloudProgress, CloudFault, InstanceChange, cloudEnv
<1>6. CASE Crash \/ Resync \/ InfraBecomesReady \/ Pause \/ Unpause
  BY <1>6 DEF Crash, Resync, InfraBecomesReady, Pause, Unpause, kubeEnv
<1>7. CASE PoolChange
  BY <1>7 DEF PoolChange
<1>8. CASE UNCHANGED vars
  BY <1>8 DEF vars
<1> QED
  BY <1>1, <1>2, <1>3, <1>4, <1>5, <1>6, <1>7, <1>8 DEF Next

\* The instance at hand in the member step belongs to the machine.
LEMMA MemberOwn ==
    ASSUME BaseInv, pc = "member"
    PROVE  cur \in Machines /\ mem.inst \in Instances /\ Own(cur, mem.inst)
<1>1. cur \in Machines /\ mem.inst \in Instances
  BY DEF BaseInv, TypeInv, TypeOK, KnowsInstance
<1> QED
  BY <1>1, ConstantsAssumption DEF BaseInv, OwnInv

LEMMA MembersExist ==
    ASSUME BaseInv, DrainInv, [Next]_vars
    PROVE  \A i \in apiPool' : i \in Instances /\ inst[i].st # "none" /\ inst'[i].st # "none"
<1> SUFFICES ASSUME NEW i \in apiPool'
             PROVE  i \in Instances /\ inst[i].st # "none" /\ inst'[i].st # "none"
  OBVIOUS
<1>1. TypeInv /\ Fate
  BY Fates DEF BaseInv
<1>2. i \in Instances /\ inst[i].st # "none"
  BY <1>1, MembersAdded, MemberOwn, OwnExists DEF DrainInv, TypeInv, TypeOK
<1> QED
  BY <1>1, <1>2, FateKeeps

\* The owners of a member stay the same.
LEMMA MembersOwned ==
    ASSUME BaseInv, DrainInv, [Next]_vars, NEW m \in Machines, NEW i \in apiPool'
    PROVE  Own(m, i)' = Own(m, i)
<1>1. TypeInv /\ Fate /\ i \in Instances /\ inst[i].st # "none"
  BY Fates, MembersExist DEF BaseInv
<1>2. inst'[i].name = inst[i].name
  BY <1>1, FateKeeps DEF Spawn
<1> QED
  BY <1>2 DEF Own

\* A step without a fault, from a state before any fault.
Calm ==
    /\ BaseInv /\ FinalizerInv /\ QueueInv /\ DrainInv /\ NamesDiffer
    /\ faults = 0 /\ [Next]_vars /\ \A k : ~Fault(k)

LEMMA DrainBegin ==
    ASSUME Calm, "stale" \notin FaultKinds,
           NEW m \in Machines, NEW copy, Begin(m, copy), copy.lb = cache[m].lb,
           pc' \notin {"idle", "delete", "verify"},
           pc' \in BusyPCs => copy.fin = cache[m].fin /\ cache[m].fin
    PROVE  Undisturbed'
<1> USE DEF Calm
<1>1. /\ UNCHANGED <<obj, pools, apiPool>> /\ pc = "idle" /\ cur' = m /\ mem' = copy
      /\ base' = obj[m] /\ cache[m] = obj[m] /\ obj[m].ex
  BY DEF Begin, cloudVars, envVars
<1>2. ASSUME NEW n \in Machines, NEW i \in apiPool', Own(n, i)' PROVE Member(n)' = i
  <2>1. i \in apiPool /\ Own(n, i)
    BY <1>1, <1>2, MembersOwned
  <2> QED
    BY <1>1, <2>1 DEF DrainInv, Undisturbed, Member
<1> QED
  BY <1>1, <1>2 DEF DrainInv, Undisturbed

LEMMA DrainStart ==
    ASSUME Calm, "stale" \notin FaultKinds, NEW m \in Machines, Start(m) \/ ReadFails(m)
    PROVE  Undisturbed'
<1> USE DEF BusyPCs, NormalPCs
<1>1. cache[m] \in CR
  BY DEF Calm, BaseInv, TypeInv, TypeOK
<1>2. CASE ReconcileNotFound(m)
  <2>1. UNCHANGED <<obj, pools, apiPool, pc>> /\ pc = "idle"
    BY <1>2 DEF ReconcileNotFound, workerVars, cloudVars, envVars
  <2>2. \A n \in Machines, i \in apiPool : Own(n, i)' = Own(n, i)
    BY <2>1, MembersOwned DEF Calm
  <2> QED
    BY <2>1, <2>2 DEF Calm, DrainInv, Undisturbed, Member
<1>3. /\ [cache[m] EXCEPT !.ready = FALSE].lb = cache[m].lb
      /\ [cache[m] EXCEPT !.fin = TRUE, !.ready = FALSE].lb = cache[m].lb
      /\ [cache[m] EXCEPT !.fin = FALSE].lb = cache[m].lb
  BY <1>1 DEF CR
<1>4. CASE WaitOwner(m)
  BY <1>4, DrainBegin DEF WaitOwner, Return
<1>5. CASE ReadFails(m)
  BY <1>5 DEF ReadFails, Calm
<1>6. CASE ReconcileNormalPaused(m)
  BY <1>3, <1>6, DrainBegin DEF ReconcileNormalPaused, Return
<1>7. CASE AddFinalizer(m)
  BY <1>3, <1>7, DrainBegin DEF AddFinalizer, Return
<1>8. CASE WaitInfraOrBootstrap(m)
  BY <1>8, DrainBegin DEF WaitInfraOrBootstrap, Return
<1>9. CASE Locate(m)
  BY <1>9, DrainBegin DEF Locate, AdoptOrFind
<1>10. CASE ReconcileDeleteKeep(m)
  BY <1>3, <1>10, DrainBegin DEF ReconcileDeleteKeep, Return
<1>11. CASE ReconcileDelete(m)
  BY <1>11, DrainBegin DEF ReconcileDelete
<1> QED
  BY <1>2, <1>4, <1>5, <1>6, <1>7, <1>8, <1>9, <1>10, <1>11 DEF Start

\* A step of a running reconcile.
LEMMA DrainRun ==
    ASSUME Calm, inReconcile, pc \notin {"idle", "patch", "patchStatus"}, pc' # "idle",
           \A i \in apiPool' : Own(cur, i) => mem'.lb = i,
           \/ mem'.fin = mem.fin /\ (pc \in BusyPCs \/ mem'.lb = mem.lb)
           \/ mem'.lb = None,
           pc' \in BusyPCs => pc \in BusyPCs /\ mem'.fin = mem.fin,
           pc' \in {"delete", "verify"} => mem'.lb = None
    PROVE  Undisturbed'
<1> USE DEF Calm
<1>1. UNCHANGED <<obj, pools, cur, base>> /\ cur \in Machines
  BY DEF inReconcile, envVars, BaseInv, TypeInv, TypeOK
<1>2. ASSUME NEW m \in Machines, NEW i \in apiPool', Own(m, i)' PROVE Member(m)' = i
  <2>1. Own(m, i) /\ i \in Instances
    BY <1>2, MembersOwned, MembersExist
  <2>2. CASE m = cur
    BY <1>1, <2>1, <2>2 DEF Member
  <2>3. CASE m # cur
    <3>1. i \in apiPool
      BY <1>1, <1>2, <2>1, <2>3, MembersAdded, MemberOwn, SoleOwner DEF BaseInv
    <3> QED
      BY <1>1, <2>1, <2>3, <3>1 DEF DrainInv, Undisturbed, Member
  <2> QED
    BY <2>2, <2>3
<1>3. /\ base.lb = obj[cur].lb /\ pools = Pools
      /\ pc \in BusyPCs \/ mem.lb \notin {base.lb, None} =>
           mem.fin = base.fin /\ obj[cur].ex /\ obj[cur].fin
  BY DEF DrainInv, Undisturbed
<1>4. pc' \in BusyPCs \/ mem'.lb \notin {base.lb, None} =>
        mem'.fin = base.fin /\ obj[cur].ex /\ obj[cur].fin
  BY <1>3
<1> QED
  BY <1>1, <1>2, <1>3, <1>4 DEF Undisturbed

LEMMA DrainProceed ==
    ASSUME Calm, Proceed, ~PatchObject, ~PatchStatus
    PROVE  Undisturbed'
<1> USE DEF Calm, BaseInv, BusyPCs, NormalPCs
<1>1. mem \in CR
  BY DEF TypeInv, TypeOK
<1>2. ASSUME NEW i PROVE /\ [mem EXCEPT !.inst = i].fin = mem.fin
                         /\ [mem EXCEPT !.inst = i].lb = mem.lb
                         /\ [mem EXCEPT !.lb = i].fin = mem.fin
                         /\ [mem EXCEPT !.lb = i].lb = i
                         /\ [mem EXCEPT !.reg = i].fin = mem.fin
                         /\ [mem EXCEPT !.reg = i].lb = mem.lb
                         /\ [mem EXCEPT !.fin = FALSE].lb = mem.lb
  BY <1>1 DEF CR
<1>3. /\ pc \notin {"idle", "patch", "patchStatus"} /\ inReconcile /\ cur \in Machines
      /\ pc' # "idle"
  BY DEF Proceed, GetKnownInstance, AdoptInstance, FindInstanceByName,
         HandleExistingInstance, ResolveCreateOptions, CreateInstance, CallFails,
         CreateInstanceRetried, RetryPost, EnsureLBPoolMember, MemberSkipped,
         EnsureRKE2RegisterPoolMember, RegisterSkipped, RemoveLBPoolMember,
         NothingToDelete, DeleteInstance, DeleteInstanceFails, StillTerminating,
         VerifyGone, Return, RemoveFinalizer, AdoptOrFind, TypeInv, TypeOK
<1>4. /\ \A i \in apiPool : Own(cur, i) => mem.lb = i
      /\ pools = Pools
      /\ pc \in {"delete", "verify"} => mem.lb = None
  BY <1>3 DEF DrainInv, Undisturbed, Member
\* the reconcile before its pool steps
<1>5. ASSUME pc \in NormalPCs, apiPool' = apiPool, mem'.lb = mem.lb, mem'.fin = mem.fin,
             pc' \in BusyPCs \union {"patch"}
      PROVE  Undisturbed'
  BY <1>3, <1>4, <1>5, DrainRun
<1>6. ASSUME NEW i, HandleExistingInstance(i)
      PROVE  /\ apiPool' = apiPool /\ mem'.lb = mem.lb /\ mem'.fin = mem.fin
             /\ pc' \in {"member", "patch"}
  <2>1. CASE inst[i].st = "ACTIVE"
    BY <1>1, <1>6, <2>1 DEF HandleExistingInstance, cloudVars, CR
  <2>2. CASE inst[i].st = "ERROR"
    BY <1>1, <1>6, <2>2 DEF HandleExistingInstance, cloudVars, Return, CR
  <2>3. CASE inst[i].st \notin {"ACTIVE", "ERROR"}
    BY <1>1, <1>6, <2>3 DEF HandleExistingInstance, cloudVars, Return, CR
  <2> QED
    BY <2>1, <2>2, <2>3
<1>7. CASE GetKnownInstance \/ AdoptInstance \/ FindInstanceByName
  <2>1. CASE \E i : HandleExistingInstance(i)
    BY <1>5, <1>6, <1>7, <2>1 DEF GetKnownInstance, AdoptInstance, FindInstanceByName
  <2>2. CASE ~\E i : HandleExistingInstance(i)
    <3>1. pc \in NormalPCs /\ pc' \in BusyPCs \union {"patch"} /\ apiPool' = apiPool
      BY <1>7, <2>2 DEF GetKnownInstance, AdoptInstance, FindInstanceByName, AdoptOrFind,
                        Return, cloudVars
    <3>2. mem' = mem \/ mem' = [mem EXCEPT !.inst = None]
      BY <1>7, <2>2 DEF GetKnownInstance, AdoptInstance, FindInstanceByName
    <3>3. mem'.lb = mem.lb /\ mem'.fin = mem.fin
      BY <1>1, <3>2 DEF CR
    <3> QED
      BY <1>5, <3>1, <3>3
  <2> QED
    BY <2>1, <2>2
<1>8. CASE ResolveCreateOptions \/ CreateInstance \/ CallFails \/ CreateInstanceRetried
  <2>1. pc \in NormalPCs /\ pc' \in BusyPCs \union {"patch"} /\ apiPool' = apiPool
    BY <1>8 DEF ResolveCreateOptions, CreateInstance, CallFails, CreateInstanceRetried,
                RetryPost, Return, cloudVars
  <2>2. mem' = mem \/ \E i \in Instances : mem' = [mem EXCEPT !.inst = i]
    BY <1>8 DEF ResolveCreateOptions, CreateInstance, CallFails, CreateInstanceRetried,
                RetryPost
  <2>3. mem'.lb = mem.lb /\ mem'.fin = mem.fin
    BY <1>1, <2>2 DEF CR
  <2> QED
    BY <1>5, <2>1, <2>3
\* the pools are there, so that the member is added and recorded
<1>9. ~MemberSkipped /\ ~RegisterSkipped
  BY <1>4 DEF MemberSkipped, RegisterSkipped, Pools
<1>10. CASE EnsureLBPoolMember
  <2>1. /\ pc = "member" /\ pc' = "register" /\ mem'.lb = mem.inst /\ mem'.fin = mem.fin
        /\ apiPool' = apiPool \union {mem.inst}
    BY <1>2, <1>10 DEF EnsureLBPoolMember
  <2>2. mem.inst \in Instances /\ Own(cur, mem.inst) /\ OneInstanceInv
    BY <2>1, MemberOwn DEF DrainInv
  <2>3. ASSUME NEW i \in apiPool', Own(cur, i) PROVE mem'.lb = i
    <3>1. i \in Instances
      BY <2>3, MembersExist
    <3> QED
      BY <1>3, <2>1, <2>2, <2>3, <3>1 DEF OneInstanceInv
  <2> QED
    BY <1>3, <2>1, <2>3, DrainRun
<1>11. CASE EnsureRKE2RegisterPoolMember
  <2>1. /\ pc = "register" /\ pc' = "patch" /\ mem'.lb = mem.lb /\ mem'.fin = mem.fin
        /\ apiPool' = apiPool
    BY <1>2, <1>11 DEF EnsureRKE2RegisterPoolMember
  <2> QED
    BY <1>3, <1>4, <2>1, DrainRun
<1>12. CASE RemoveLBPoolMember
  <2>1. pc = "deregister" /\ pc' = "delete" /\ mem'.lb = None
    BY <1>2, <1>4, <1>12 DEF RemoveLBPoolMember, Pools
  <2>2. apiPool' = apiPool \ {mem.lb} \/ (mem.lb = None /\ apiPool' = apiPool)
    BY <1>4, <1>12 DEF RemoveLBPoolMember, Pools
  <2>3. ASSUME NEW i \in apiPool', Own(cur, i) PROVE FALSE
    <3>1. i \in Instances /\ i \in apiPool
      BY <2>2, <2>3, MembersExist
    <3> QED
      BY <1>4, <2>2, <2>3, <3>1, ConstantsAssumption
  <2> QED
    BY <1>3, <2>1, <2>3, DrainRun
<1>13. CASE \/ NothingToDelete \/ DeleteInstance \/ DeleteInstanceFails
            \/ StillTerminating \/ VerifyGone
  <2>1. /\ pc \in {"delete", "verify"} /\ pc' \in {"verify", "patch"} /\ mem'.lb = mem.lb
        /\ apiPool' = apiPool
    BY <1>2, <1>13 DEF NothingToDelete, DeleteInstance, DeleteInstanceFails,
                       StillTerminating, VerifyGone, RemoveFinalizer, Return, cloudVars
  <2> QED
    BY <1>3, <1>4, <2>1, DrainRun
<1> QED
  BY <1>7, <1>8, <1>9, <1>10, <1>11, <1>12, <1>13 DEF Proceed

LEMMA DrainPatch ==
    ASSUME Calm, PatchObject \/ PatchStatus
    PROVE  Undisturbed'
<1> USE DEF Calm, BaseInv
<1>1. /\ UNCHANGED <<pools, apiPool>> /\ cur \in Machines /\ pc # "idle"
      /\ obj \in [Machines -> CR] /\ obj[cur] \in CR
  BY DEF PatchObject, PatchStatus, inPatch, envVars, cloudVars, TypeInv, TypeOK
<1>2. \A m \in Machines, i \in apiPool : Own(m, i)' => Own(m, i) /\ Member(m) = i
  BY <1>1, MembersOwned DEF DrainInv, Undisturbed
<1>3. /\ base.lb = obj[cur].lb /\ pools = Pools
      /\ mem.lb \notin {base.lb, None} =>
           mem.fin = base.fin /\ obj[cur].ex /\ obj[cur].fin
  BY <1>1 DEF DrainInv, Undisturbed
<1>4. CASE PatchObject
  <2>1. /\ UNCHANGED <<cur, base, mem>> /\ pc' = "patchStatus"
        /\ \A n \in Machines \ {cur} : obj'[n] = obj[n]
        /\ obj'[cur].lb = obj[cur].lb
        /\ mem.fin = base.fin =>
             obj'[cur].fin = obj[cur].fin /\ obj'[cur].ex = obj[cur].ex
    BY <1>4, FinalizerWritten DEF PatchObject
  <2>2. \A m \in Machines : Member(m)' = Member(m)
    BY <1>1, <2>1 DEF Member
  <2> QED
    BY <1>1, <1>2, <1>3, <2>1, <2>2 DEF Undisturbed, BusyPCs, NormalPCs
<1>5. CASE PatchStatus
  <2>1. pc' = "idle"
    BY <1>5 DEF PatchStatus, Done
  <2>2. \/ obj' = [obj EXCEPT ![cur].inst = Merged("inst"), ![cur].ready = Merged("ready"),
                              ![cur].failed = Merged("failed"), ![cur].lb = Merged("lb"),
                              ![cur].reg = Merged("reg")]
        \/ obj' = obj /\ (~StatusDirty \/ ~obj[cur].ex)
    BY <1>5 DEF PatchStatus
  <2>3. /\ \A n \in Machines \ {cur} : obj'[n] = obj[n]
        /\ mem.lb # None => obj'[cur].lb = mem.lb
    <3>1. CASE obj' = obj /\ (~StatusDirty \/ ~obj[cur].ex)
      <4>1. ~StatusDirty => mem.lb = base.lb
        BY DEF StatusDirty
      <4> QED
        BY <1>3, <3>1, <4>1
    <3>2. CASE obj' = [obj EXCEPT ![cur].inst = Merged("inst"),
                                  ![cur].ready = Merged("ready"),
                                  ![cur].failed = Merged("failed"),
                                  ![cur].lb = Merged("lb"), ![cur].reg = Merged("reg")]
      <4>1. Merged("lb") = mem.lb
        BY <1>3 DEF Merged
      <4> QED
        BY <1>1, <3>2, <4>1 DEF CR
    <3> QED
      BY <2>2, <3>1, <3>2
  <2>4. ASSUME NEW m \in Machines, NEW i \in apiPool, Own(m, i)' PROVE Member(m)' = i
    <3>1. Member(m) = i /\ i # None
      BY <1>2, <2>4, ConstantsAssumption DEF TypeInv, TypeOK
    <3> QED
      BY <1>1, <2>1, <2>3, <3>1 DEF Member
  <2> QED
    BY <1>1, <1>3, <2>1, <2>4 DEF Undisturbed
<1> QED
  BY <1>4, <1>5

LEMMA DrainUser ==
    ASSUME Calm, NEW m \in Machines, UserDelete(m) \/ UserKeep(m)
    PROVE  Undisturbed'
<1> USE DEF Calm, BaseInv
<1>1. /\ UNCHANGED <<pools, apiPool, pc, cur, base, mem>> /\ obj \in [Machines -> CR]
      /\ obj[m] \in CR /\ (pc # "idle" => cur \in Machines)
  BY DEF UserDelete, UserKeep, kubeEnv, envVars, cloudVars, workerVars, TypeInv, TypeOK
<1>2. /\ \A n \in Machines \ {m} : obj'[n] = obj[n]
      /\ obj'[m].lb = obj[m].lb /\ obj'[m].fin = obj[m].fin
      /\ obj[m].ex /\ obj[m].fin => obj'[m].ex
  BY <1>1 DEF UserDelete, UserKeep, CR
<1>3. \A n \in Machines, i \in apiPool : Own(n, i)' => Own(n, i) /\ Member(n) = i
  BY <1>1, MembersOwned DEF DrainInv, Undisturbed
<1>4. \A n \in Machines : Member(n)' = Member(n)
  BY <1>1, <1>2 DEF Member
<1>5. pc # "idle" =>
        /\ obj'[cur].lb = obj[cur].lb
        /\ obj[cur].ex /\ obj[cur].fin => obj'[cur].ex /\ obj'[cur].fin
  BY <1>1, <1>2
<1> QED
  BY <1>1, <1>3, <1>4, <1>5 DEF DrainInv, Undisturbed

LEMMA DrainElse ==
    ASSUME Calm, UNCHANGED <<obj, pc, cur, base, mem, pools, apiPool>>
    PROVE  Undisturbed'
<1>1. \A m \in Machines, i \in apiPool : Own(m, i)' = Own(m, i)
  BY MembersOwned DEF Calm
<1> QED
  BY <1>1 DEF Calm, DrainInv, Undisturbed, Member

LEMMA DrainStep ==
    ASSUME NamesDiffer, "stale" \notin FaultKinds
    PROVE  BaseInv /\ FinalizerInv /\ QueueInv /\ DrainInv /\ [Next]_vars => DrainInv'
<1> SUFFICES ASSUME BaseInv, FinalizerInv, QueueInv, DrainInv, [Next]_vars
             PROVE  DrainInv'
  OBVIOUS
<1>1. \A i \in apiPool' : inst'[i].st # "none"
  BY MembersExist
<1> SUFFICES ASSUME faults' = 0 PROVE (UniqueInv /\ OneInstanceInv /\ Undisturbed)'
  BY <1>1 DEF DrainInv
<1>2. TypeInv
  BY DEF BaseInv
<1>3. faults = 0 /\ \A k : ~Fault(k)
  BY <1>2, FaultsStay
<1>4. Calm
  BY <1>3 DEF Calm
<1>5. UniqueInv' /\ OneInstanceInv'
  BY <1>3, UniqueStep, OneInstanceStep DEF DrainInv, LosesPost, Vanishes
<1> USE DEF workerVars, cloudVars, envVars
<1>6. ASSUME NEW m \in Machines, Start(m) \/ ReadFails(m) PROVE Undisturbed'
  BY <1>4, <1>6, DrainStart
<1>7. ASSUME NEW m \in Machines, UserDelete(m) \/ UserKeep(m) PROVE Undisturbed'
  BY <1>4, <1>7, DrainUser
<1>8. ASSUME NEW m \in Machines, CacheSync(m) \/ StageProgress(m) PROVE Undisturbed'
  BY <1>4, <1>8, DrainElse DEF CacheSync, StageProgress, kubeEnv
<1>9. ASSUME Proceed PROVE Undisturbed'
  BY <1>4, <1>9, DrainProceed, DrainPatch
<1>10. ASSUME NEW i \in Instances, CloudProgress(i) \/ CloudFault(i) PROVE Undisturbed'
  BY <1>4, <1>10, DrainElse DEF CloudProgress, CloudFault, InstanceChange, cloudEnv
<1>11. ASSUME Resync \/ InfraBecomesReady \/ Unpause \/ UNCHANGED vars PROVE Undisturbed'
  BY <1>4, <1>11, DrainElse DEF Resync, InfraBecomesReady, Unpause, kubeEnv, vars
<1>12. ~Crash /\ ~Pause /\ ~PoolChange
  BY <1>3 DEF Crash, Pause, PoolChange, DrainInv, Undisturbed
<1> QED
  BY <1>5, <1>6, <1>7, <1>8, <1>9, <1>10, <1>11, <1>12 DEF Next

\* Only the delete steps begin to terminate an instance, and by then it has left
\* the pool.
LEMMA DrainedStep ==
    ASSUME NamesDiffer, BaseInv, DrainInv, [Next]_vars, NEW i \in Instances,
           ~Doomed(i), inst'[i].st = "DELETING"
    PROVE  i \notin apiPool \/ faults > 0
<1> USE DEF BaseInv
<1>1. Fate /\ inst \in [Instances -> [st : Statuses, name : Names \union {None}]]
  BY Fates DEF TypeInv, TypeOK
<1>2. ~Born
  BY <1>1 DEF Born, Spawn, Doomed
<1>3. ~Moved
  BY <1>1 DEF Moved, Ended, Doomed
<1>4. Ending
  BY <1>1, <1>2, <1>3 DEF Fate, Doomed
<1>5. i = mem.inst /\ cur \in Machines /\ pc = "delete"
  BY <1>1, <1>4 DEF Ending, Terminate, Doomed
<1>6. Own(cur, i)
  BY <1>5, ConstantsAssumption DEF OwnInv
<1>7. faults \in Nat
  BY ConstantsAssumption DEF TypeInv, TypeOK
<1>8. ASSUME faults = 0, i \in apiPool PROVE FALSE
  <2>1. mem.lb = None /\ Member(cur) = i
    BY <1>5, <1>6, <1>8 DEF DrainInv, Undisturbed
  <2> QED
    BY <1>5, <2>1, ConstantsAssumption DEF Member
<1> QED
  BY <1>7, <1>8

\* As long as nothing has failed, the controller terminates an instance only when
\* it is out of the API server's pool, for any number of machines: the member that
\* removeLBPoolMember takes out by its recorded id is the instance's own.
THEOREM DrainsFirst ==
    ASSUME NamesDiffer, "stale" \notin FaultKinds
    PROVE  Spec => DrainedBeforeTermination
<1> DEFINE Inv == BaseInv /\ FinalizerInv /\ QueueInv /\ DrainInv
<1>1. Init => DrainInv
  BY UniqueInit, OneInstanceInit DEF Init, DrainInv, Undisturbed
<1>2. Init => Inv
  BY <1>1, BaseInit, FinalizerInit, QueueInit
<1>3. Inv /\ [Next]_vars => Inv'
  BY BaseStep, FinalizerStep, QueueStep, DrainStep DEF BaseInv
<1>4. Inv /\ [Next]_vars =>
        [\A i \in Instances :
           ~Doomed(i) /\ inst'[i].st = "DELETING" => i \notin apiPool \/ faults > 0]_vars
  BY DrainedStep
<1> QED
  BY <1>2, <1>3, <1>4, PTL DEF Spec, DrainedBeforeTermination
=============================================================================
