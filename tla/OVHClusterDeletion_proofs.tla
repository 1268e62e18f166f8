---------------------- MODULE OVHClusterDeletion_proofs ----------------------
(***************************************************************************)
(* Proofs about the records of the OVHCluster controller and what depends  *)
(* on them: nothing is made twice, a deletion leaves nothing, and the      *)
(* controller implements ManagedResources for its load balancer.  All of   *)
(* this rests on the ids in the status being up to date, so it needs that  *)
(* the patch that writes them is neither lost, nor cut off by a crash, nor *)
(* read back late.                                                         *)
(***************************************************************************)
EXTENDS OVHClusterResources_proofs

-----------------------------------------------------------------------------
(* The record.                                                              *)

\* The controller's latest record: the copy in memory during a reconcile.
Latest == IF pc = "idle" THEN obj ELSE mem

\* The reconcile has recorded something that it has to write.
Grown ==
    \/ mem.net # base.net \/ mem.lb # base.lb \/ mem.mine # base.mine
    \/ mem.dns /\ ~base.dns
    \/ mem.sg /\ ~base.sg

\* Only the patch writes the ids, and an object with ids to write is held by its
\* finalizer until it has them.
RecordInv ==
    /\ pc # "idle" =>
         /\ obj.net = base.net /\ obj.lb = base.lb /\ obj.dns = base.dns /\ obj.sg = base.sg
         /\ obj.mine = IF pc \in {"patch", "patchStatus"} THEN mem.mine ELSE base.mine
         /\ Grown => obj.ex /\ obj.fin /\ base.fin /\ mem.fin
    /\ pc \in DeletePCs => ~Grown

\* The record loses nothing.
RecordKept ==
    /\ Latest'.net = Latest.net /\ Latest'.lb = Latest.lb /\ Latest'.mine = Latest.mine
    /\ Latest.dns => Latest'.dns
    /\ Latest.sg => Latest'.sg

\* ReconcileDelete records no new id and forgets only the record of the name and the
\* group.
LEMMA DeleteRecords ==
    ASSUME TypeInv, DeleteStep
    PROVE  /\ mem'.net = mem.net /\ mem'.lb = mem.lb /\ mem'.mine = mem.mine
           /\ mem'.dns # mem.dns => DeleteDNSRecord /\ ~mem'.dns
           /\ mem'.sg # mem.sg => DeleteSecurityGroup /\ ~mem'.sg
           /\ mem'.fin # mem.fin => DeletePrivateNetwork
           /\ mem'.lst = mem.lst /\ mem'.pool = mem.pool
<1>1. mem \in CR
  BY DEF TypeInv, TypeOK
<1>2. CASE DeleteDNSRecord
  BY <1>1, <1>2 DEF DeleteDNSRecord, CR
<1>3. CASE DeleteSecurityGroup
  BY <1>1, <1>3 DEF DeleteSecurityGroup, CR
<1>4. CASE DeletePrivateNetwork
  BY <1>1, <1>4 DEF DeletePrivateNetwork, CR
<1>5. CASE ~(DeleteDNSRecord \/ DeleteSecurityGroup \/ DeletePrivateNetwork)
  BY <1>5 DEF DeleteStep, CaptureFloatingIPs, DeletePool, DeleteListener, DeleteLoadBalancer,
     DeleteOrphans, CleanupFloatingIP, CleanupFloatingIPsDone, DeleteGateway
<1> QED
  BY <1>2, <1>3, <1>4, <1>5

\* A patch that does not fail writes the object it finds.
LEMMA StatusApplies ==
    ASSUME "patch" \notin FaultKinds, PatchStatus, obj.ex
    PROVE  \/ obj' = StatusWritten
           \/ obj' = obj /\ \A f \in {"net", "lb", "dns", "sg"} : mem[f] = base[f]
<1>1. obj' = IF \E f \in {"net", "subnet", "lb", "lst", "pool", "fip", "gw", "sg",
                          "dns", "ready"} : mem[f] # base[f]
               THEN StatusWritten ELSE obj
  <2>1. ASSUME NEW d, NEW w, Apply(d, w) PROVE obj' = IF d THEN w ELSE obj
    BY <2>1, Zenon DEF Apply, Fault
  <2> QED
    BY <2>1, Zenon DEF PatchStatus, StatusWritten
<1>2. {"net", "lb", "dns", "sg"} \subseteq
        {"net", "subnet", "lb", "lst", "pool", "fip", "gw", "sg", "dns", "ready"}
  OBVIOUS
<1> QED
  BY <1>1, <1>2, Zenon

\* What the three requests make of the ids.
LEMMA PatchRecords ==
    ASSUME "patch" \notin FaultKinds, TypeInv, RecordInv, PatchStep
    PROVE  /\ PatchConditions \/ PatchObject =>
                /\ obj'.net = obj.net /\ obj'.lb = obj.lb /\ obj'.dns = obj.dns
                /\ obj'.sg = obj.sg /\ obj'.mine = mem.mine /\ UNCHANGED <<base, mem>>
           /\ PatchStatus =>
                /\ obj'.net = mem.net /\ obj'.lb = mem.lb /\ obj'.mine = mem.mine
                /\ mem.dns => obj'.dns
                /\ mem.sg => obj'.sg
<1>1. obj \in CR /\ mem \in CR /\ base \in CR /\ pc # "idle"
  BY DEF TypeInv, TypeOK, PatchStep, PatchConditions, PatchObject, PatchStatus
<1>2. /\ ConditionsWritten.net = obj.net /\ ConditionsWritten.lb = obj.lb
      /\ ConditionsWritten.dns = obj.dns /\ ConditionsWritten.sg = obj.sg
      /\ ConditionsWritten.mine = IF mem.mine # base.mine THEN mem.mine ELSE obj.mine
  BY <1>1 DEF ConditionsWritten, Merged, CR
<1>3. /\ ObjectWritten.net = obj.net /\ ObjectWritten.lb = obj.lb
      /\ ObjectWritten.dns = obj.dns /\ ObjectWritten.sg = obj.sg
      /\ ObjectWritten.mine = obj.mine
  BY <1>1 DEF ObjectWritten, CR
<1>4. StatusWritten.mine = obj.mine
  BY <1>1 DEF StatusWritten, CR
<1>5. /\ StatusWritten.net = Merged("net") /\ StatusWritten.lb = Merged("lb")
      /\ StatusWritten.dns = Merged("dns") /\ StatusWritten.sg = Merged("sg")
  BY <1>1 DEF StatusWritten, CR
<1>6. /\ Merged("net") = mem.net /\ Merged("lb") = mem.lb
      /\ Merged("dns") = mem.dns /\ Merged("sg") = mem.sg
  BY <1>1 DEF RecordInv, Merged
<1>7. ASSUME PatchConditions PROVE obj'.mine = mem.mine
  <2>1. obj' = IF mem.mine # base.mine /\ obj.ex THEN ConditionsWritten ELSE obj
    BY <1>7 DEF PatchConditions, Apply, Fault, ConditionsWritten
  <2>2. obj.mine = base.mine /\ (mem.mine # base.mine => obj.ex)
    BY <1>1, <1>7 DEF PatchConditions, RecordInv, Grown
  <2> QED
    BY <1>2, <2>1, <2>2
<1>8. ASSUME PatchObject PROVE obj'.mine = mem.mine
  BY <1>1, <1>3, <1>8, PatchWrites DEF PatchObject, RecordInv
<1>9. ASSUME PatchStatus
      PROVE  /\ obj'.net = mem.net /\ obj'.lb = mem.lb /\ obj'.mine = mem.mine
             /\ mem.dns => obj'.dns
             /\ mem.sg => obj'.sg
  <2>1. obj.mine = mem.mine
    BY <1>1, <1>9 DEF PatchStatus, RecordInv
  <2>2. CASE obj' = StatusWritten
    BY <1>4, <1>5, <1>6, <2>1, <2>2
  <2>3. CASE obj' = obj /\ ~obj.ex
    BY <1>1, <2>1, <2>3 DEF RecordInv, Grown, CR
  <2>4. CASE /\ obj' = obj /\ mem["net"] = base["net"] /\ mem["lb"] = base["lb"]
             /\ mem["dns"] = base["dns"] /\ mem["sg"] = base["sg"]
    BY <1>1, <2>1, <2>4 DEF RecordInv
  <2>5. \/ obj' = StatusWritten \/ (obj' = obj /\ ~obj.ex)
        \/ /\ obj' = obj /\ mem["net"] = base["net"] /\ mem["lb"] = base["lb"]
           /\ mem["dns"] = base["dns"] /\ mem["sg"] = base["sg"]
    <3>1. CASE ~obj.ex
      BY <1>9, <3>1, PatchWrites
    <3>2. CASE obj.ex
      <4>1. obj' = StatusWritten \/ (obj' = obj /\ \A f \in {"net", "lb", "dns", "sg"} : mem[f] = base[f])
        BY <1>9, <3>2, StatusApplies
      <4> QED
        BY <4>1
    <3> QED
      BY <3>1, <3>2
  <2> QED
    BY <2>2, <2>3, <2>4, <2>5
<1> QED
  BY <1>2, <1>3, <1>7, <1>8, <1>9, PatchWrites DEF PatchConditions, PatchObject

\* What a reconcile starts with.
LEMMA StartCopies ==
    ASSUME "stale" \notin FaultKinds, TypeInv, Start
    PROVE  /\ pc = "idle" /\ pc' \in {"patchConditions", "net", "sg", "delDNS"}
           /\ base' = obj /\ UNCHANGED <<kubeVars, netVars, lbVars, restVars>>
           /\ mem'.net = obj.net /\ mem'.lb = obj.lb /\ mem'.mine = obj.mine
           /\ mem'.dns = obj.dns /\ mem'.sg = obj.sg
           /\ mem'.lst = obj.lst /\ mem'.pool = obj.pool
           /\ obj.fin /\ ~mem'.fin => ReconcileDeleteKeep /\ obj.keep
<1>1. cache = obj /\ obj \in CR
  BY DEF TypeInv, TypeOK, Start, ReconcileStops, AddFinalizer, ReconcileNormal,
     ReconcileDeleteKeep, ReconcileDelete, Begin
<1>2. /\ pc = "idle" /\ base' = cache /\ UNCHANGED <<kubeVars, netVars, lbVars, restVars>>
      /\ pc' \in {"patchConditions", "net", "sg", "delDNS"}
  BY DEF Start, ReconcileStops, AddFinalizer, ReconcileNormal, ReconcileDeleteKeep,
     ReconcileDelete, Begin, Go, Return
<1>3. \/ mem' = cache \/ mem' = [cache EXCEPT !.fin = TRUE]
      \/ mem' = [cache EXCEPT !.fin = FALSE] /\ ReconcileDeleteKeep
  BY DEF Start, ReconcileStops, AddFinalizer, ReconcileNormal, ReconcileDeleteKeep,
     ReconcileDelete, Begin
<1>4. ReconcileDeleteKeep => obj.keep
  BY <1>1 DEF ReconcileDeleteKeep
<1> QED
  BY <1>1, <1>2, <1>3, <1>4 DEF CR

\* The user and the watch leave the ids alone.
LEMMA EnvKeepsIds ==
    ASSUME "crash" \notin FaultKinds, TypeInv, EnvStep
    PROVE  /\ UNCHANGED <<workerVars, netVars, lbVars, restVars>>
           /\ obj'.net = obj.net /\ obj'.lb = obj.lb /\ obj'.mine = obj.mine
           /\ obj'.dns = obj.dns /\ obj'.sg = obj.sg
           /\ obj'.lst = obj.lst /\ obj'.pool = obj.pool
           /\ obj'.fin = obj.fin
           /\ obj.keep => obj'.keep
           /\ obj'.ex = obj.ex \/ (UserDelete /\ obj.ex /\ obj'.ex = obj.fin)
<1>1. obj \in CR /\ ~Crash
  BY DEF TypeInv, TypeOK, Crash, Fault
<1>2. UNCHANGED <<workerVars, netVars, lbVars, restVars>>
  BY <1>1 DEF EnvStep, CacheSync, UserDelete, UserKeep, SetOwner, EditNetwork, cloudStays
<1>3. \/ obj' = obj \/ (UserDelete /\ obj.ex /\ obj' = [obj EXCEPT !.del = TRUE, !.ex = obj.fin])
      \/ obj' = [obj EXCEPT !.keep = TRUE] \/ obj' = [obj EXCEPT !.given = UserNet]
  BY <1>1 DEF EnvStep, CacheSync, UserDelete, UserKeep, SetOwner, EditNetwork
<1> QED
  BY <1>1, <1>2, <1>3 DEF CR

LEMMA RecordStep ==
    ASSUME {"stale", "crash", "patch"} \intersect FaultKinds = {},
           TypeInv, FinalizerInv, RecordInv, [Next]_vars
    PROVE  RecordInv'
<1>1. /\ "stale" \notin FaultKinds /\ "patch" \notin FaultKinds /\ "crash" \notin FaultKinds
      /\ obj \in CR /\ base \in CR /\ mem \in CR
  BY DEF TypeInv, TypeOK
<1>2. CASE Start
  BY <1>1, <1>2, StartCopies DEF RecordInv, Grown, kubeVars
<1>3. CASE NormalStep
  <2>1. /\ UNCHANGED <<obj, base>> /\ mem'.fin = mem.fin
        /\ obj.ex /\ obj.fin /\ base.fin /\ mem.fin
        /\ pc # "idle" /\ pc \notin PatchPCs /\ pc' \notin DeletePCs \union {"patch", "patchStatus"}
    BY <1>3, NormalControl, NormalMeta
       DEF MetaKept, FinalizerInv, RunInv, kubeVars, NormalPCs, DeletePCs, PatchPCs
  <2> QED
    BY <2>1 DEF RecordInv, PatchPCs
<1>4. CASE DeleteStep
  <2>1. /\ UNCHANGED <<obj, base>> /\ pc \in DeletePCs
        /\ pc \notin {"idle", "patch", "patchStatus"} /\ pc' \notin {"idle", "patch", "patchStatus"}
    BY <1>4, DeleteControl DEF kubeVars, DeletePCs
  <2>2. ~Grown'
    BY <1>4, <2>1, DeleteRecords DEF RecordInv, Grown
  <2> QED
    BY <2>1, <2>2 DEF RecordInv
<1>5. CASE PatchStatus
  BY <1>5 DEF PatchStatus, Go, RecordInv, DeletePCs
<1>6. CASE PatchConditions \/ PatchObject
  <2>1. /\ pc # "idle" /\ pc' \in {"patch", "patchStatus"} /\ pc' \notin DeletePCs /\ PatchStep
    BY <1>6 DEF PatchConditions, PatchObject, PatchStep, Go, DeletePCs
  <2>2. /\ obj'.net = obj.net /\ obj'.lb = obj.lb /\ obj'.dns = obj.dns
        /\ obj'.sg = obj.sg /\ obj'.mine = mem.mine /\ UNCHANGED <<base, mem>>
    BY <1>1, <1>6, <2>1, PatchRecords
  <2>3. Grown' => obj'.ex /\ obj'.fin /\ base'.fin /\ mem'.fin
    <3> SUFFICES ASSUME Grown PROVE obj'.ex /\ obj'.fin /\ base.fin /\ mem.fin
      BY <2>2 DEF Grown
    <3>1. obj.ex /\ obj.fin /\ base.fin /\ mem.fin
      BY <2>1 DEF RecordInv
    <3>2. Merged("fin") = obj.fin
      BY <1>1, <3>1 DEF Merged, CR
    <3> QED
      BY <2>1, <3>1, <3>2, PatchMeta
  <2> QED
    BY <2>1, <2>2, <2>3 DEF RecordInv
<1>7. CASE EnvStep
  BY <1>1, <1>7, EnvKeepsIds DEF RecordInv, Grown, workerVars
<1>8. CASE Cloud \/ Vanish \/ UNCHANGED vars
  BY <1>8, CloudLeavesKube DEF RecordInv, Grown, kubeVars, workerVars, vars
<1> QED
  BY <1>2, <1>3, <1>4, <1>5, <1>6, <1>7, <1>8, NextSplit DEF PatchStep

\* The record passes from the object to the copy and back.
LEMMA RecordStays ==
    ASSUME {"stale", "crash", "patch"} \intersect FaultKinds = {}, TypeInv, RecordInv,
           Start \/ PatchStep \/ EnvStep \/ Cloud \/ Vanish \/ UNCHANGED vars
    PROVE  RecordKept
<1>1. "stale" \notin FaultKinds /\ "patch" \notin FaultKinds /\ "crash" \notin FaultKinds
  OBVIOUS
<1>2. CASE Start
  BY <1>1, <1>2, StartCopies DEF RecordKept, Latest
<1>3. CASE PatchConditions \/ PatchObject
  <2>1. pc # "idle" /\ pc' # "idle" /\ PatchStep
    BY <1>3 DEF PatchConditions, PatchObject, PatchStep, Go
  <2> QED
    BY <1>1, <1>3, <2>1, PatchRecords DEF RecordKept, Latest
<1>4. CASE PatchStatus
  <2>1. pc # "idle" /\ pc' = "idle" /\ PatchStep
    BY <1>4 DEF PatchStatus, PatchStep, Go
  <2> QED
    BY <1>1, <1>4, <2>1, PatchRecords DEF RecordKept, Latest
<1>5. CASE EnvStep
  BY <1>1, <1>5, EnvKeepsIds DEF RecordKept, Latest, workerVars
<1>6. CASE Cloud \/ Vanish \/ UNCHANGED vars
  BY <1>6, CloudLeavesKube DEF RecordKept, Latest, kubeVars, workerVars, vars
<1> QED
  BY <1>2, <1>3, <1>4, <1>5, <1>6 DEF PatchStep

\* Which steps of a reconcile change what of the record.
LEMMA WhoRecords ==
    ASSUME TypeInv, NormalStep \/ DeleteStep
    PROVE  /\ mem'.dns # mem.dns => ReconcileDNS \/ DeleteDNSRecord
           /\ mem'.sg # mem.sg => ReconcileSecurityGroups \/ DeleteSecurityGroup
           /\ mem'.lb # mem.lb => ReconcileLoadBalancer \/ CreateLoadBalancer \/ PollLoadBalancer
<1>1. mem \in CR
  BY DEF TypeInv, TypeOK
<1>2. CASE UNCHANGED mem
  BY <1>2
<1>3. CASE UseKnownNetwork \/ CreatePrivateNetwork \/ GetPrivateNetwork \/ EnsureSubnet
  BY <1>1, <1>3 DEF CR, UseKnownNetwork, CreatePrivateNetwork, GetPrivateNetwork, EnsureSubnet
<1>4. CASE ReconcileSecurityGroups \/ CreateLoadBalancer \/ PollLoadBalancer
  BY <1>1, <1>4 DEF CR, ReconcileSecurityGroups, CreateLoadBalancer, PollLoadBalancer
<1>5. CASE ReconcileLoadBalancer
  BY <1>1, <1>5 DEF CR, ReconcileLoadBalancer, Adopt, ForgetLB
<1>6. CASE EnsureListener \/ EnsurePool
  BY <1>1, <1>6 DEF CR, EnsureListener, EnsurePool
<1>7. ASSUME NEW r \in CR, NEW a
      PROVE  /\ WithEndpoint(r, a).dns = r.dns /\ WithEndpoint(r, a).sg = r.sg
             /\ WithEndpoint(r, a).lb = r.lb
  BY <1>7 DEF WithEndpoint, CR
<1>8. CASE EnsurePoolHealthMonitor
  BY <1>1, <1>7, <1>8 DEF EnsurePoolHealthMonitor
<1>9. CASE FloatingIPOnLB \/ GetFloatingIP \/ ListFloatingIPs \/ RefreshFloatingIP
  <2>1. PICK r \in CR : r = [mem EXCEPT !.fip = mem.lb]
    BY <1>1, Fields, CopyType
  <2>2. r.dns = mem.dns /\ r.sg = mem.sg /\ r.lb = mem.lb
    BY <1>1, <2>1 DEF CR
  <2>3. PICK q : q = [mem EXCEPT !.fip = None]
    OBVIOUS
  <2>4. q.dns = mem.dns /\ q.sg = mem.sg /\ q.lb = mem.lb
    BY <1>1, <2>3 DEF CR
  <2>5. \/ mem' = WithEndpoint(r, mem.lb) \/ mem' = WithEndpoint(mem, mem.fip)
        \/ mem' = r \/ mem' = q \/ mem' = mem
    BY <1>9, <2>1, <2>3, Zenon
       DEF FloatingIPOnLB, GetFloatingIP, ListFloatingIPs, RefreshFloatingIP
  <2> QED
    BY <1>1, <1>7, <2>2, <2>4, <2>5
<1>10. CASE EnsureGatewayExposed \/ ReconcileDNS
  BY <1>1, <1>10 DEF CR, EnsureGatewayExposed, ReconcileDNS
<1>11. CASE DeleteStep
  BY <1>11, DeleteRecords
<1>12. CASE RepostLoadBalancer \/ FloatingIPNotOnLB \/ CreateLoadBalancerFloatingIP \/ CallFails
  BY <1>2, <1>12 DEF RepostLoadBalancer, FloatingIPNotOnLB, CreateLoadBalancerFloatingIP,
     CallFails
<1> QED
  BY <1>3, <1>4, <1>5, <1>6, <1>8, <1>9, <1>10, <1>11, <1>12 DEF NormalStep

\* Which steps change the name's records and the group.
LEMMA WhoMakes ==
    ASSUME [Next]_vars
    PROVE  /\ records' # records => ReconcileDNS \/ DeleteDNSRecord
           /\ sgroup' # sgroup => ReconcileSecurityGroups \/ DeleteSecurityGroup
<1>1. CASE Start \/ PatchStep \/ EnvStep \/ UNCHANGED vars
  BY <1>1
     DEF Start, ReconcileStops, AddFinalizer, ReconcileNormal, ReconcileDeleteKeep,
         ReconcileDelete, Begin, PatchStep, PatchConditions, PatchObject, PatchStatus, inPatch,
         EnvStep, CacheSync, Crash, UserDelete, UserKeep, SetOwner, EditNetwork, cloudStays,
         vars, restVars
<1>2. CASE NormalStep
  BY <1>2
     DEF NormalStep, UseKnownNetwork, CreatePrivateNetwork, GetPrivateNetwork, EnsureSubnet,
         ReconcileSecurityGroups, ReconcileLoadBalancer, CreateLoadBalancer, RepostLoadBalancer,
         PollLoadBalancer, EnsureListener, EnsurePool, EnsurePoolHealthMonitor,
         FloatingIPOnLB, FloatingIPNotOnLB, GetFloatingIP, ListFloatingIPs,
         CreateLoadBalancerFloatingIP, EnsureGatewayExposed, RefreshFloatingIP,
         ReconcileDNS, CallFails, restVars
<1>3. CASE DeleteStep
  BY <1>3
     DEF DeleteStep, DeleteDNSRecord, DeleteSecurityGroup, CaptureFloatingIPs, DeletePool,
         DeleteListener, DeleteLoadBalancer, DeleteOrphans, CleanupFloatingIP,
         CleanupFloatingIPsDone, DeleteGateway, DeletePrivateNetwork, restVars
<1>4. CASE Cloud \/ Vanish
  BY <1>4 DEF Cloud, Vanish, NetProgress, LBProgress, FIPProgress, restVars
<1> QED
  BY <1>1, <1>2, <1>3, <1>4, NextSplit

-----------------------------------------------------------------------------
(* Nothing is made twice.  Neither the network nor the DNS record is looked  *)
(* for by name: what keeps a reconcile from making another is that the       *)
(* record names the one there is.                                            *)

NetThere(n) == nets[n] \in {"BUILDING", "ACTIVE"}

MadeInv ==
    /\ \A n \in Nets \ {UserNet} : NetThere(n) => Latest.net = n
    /\ records <= 1
    /\ records # 0 => Latest.dns /\ DNSConfig

\* A network that is there was there before, unless the controller has made it.
LEMMA WhoMakesNets ==
    ASSUME TypeInv, [Next]_vars, ~CreatePrivateNetwork
    PROVE  \A n \in Nets : NetThere(n)' => NetThere(n)
<1>1. nets \in [Nets -> NetStatuses]
  BY DEF TypeInv, TypeOK
<1>2. CASE UNCHANGED nets
  BY <1>2 DEF NetThere
<1>3. CASE Start \/ PatchStep \/ EnvStep \/ UNCHANGED vars
  BY <1>2, <1>3
     DEF Start, ReconcileStops, AddFinalizer, ReconcileNormal, ReconcileDeleteKeep,
         ReconcileDelete, Begin, PatchStep, PatchConditions, PatchObject, PatchStatus, inPatch,
         EnvStep, CacheSync, Crash, UserDelete, UserKeep, SetOwner, EditNetwork, cloudStays,
         vars, netVars
<1>4. CASE (NormalStep \/ DeleteStep) /\ ~NetworkStep
  BY <1>2, <1>4, OtherStepsKeepNet
<1>5. CASE UseKnownNetwork \/ GetPrivateNetwork
  BY <1>2, <1>5 DEF UseKnownNetwork, GetPrivateNetwork, netVars
<1>6. CASE DeletePrivateNetwork
  BY <1>1, <1>6 DEF DeletePrivateNetwork, DropNet, netVars, NetThere
<1>7. CASE Cloud
  BY <1>1, <1>7 DEF Cloud, NetProgress, LBProgress, FIPProgress, netVars, NetThere
<1>8. CASE Vanish
  BY <1>1, <1>8 DEF Vanish, DropNet, netVars, NetThere
<1> QED
  BY <1>3, <1>4, <1>5, <1>6, <1>7, <1>8, NextSplit DEF NetworkStep

LEMMA MadeStep ==
    ASSUME {"stale", "crash", "patch", "lost"} \intersect FaultKinds = {},
           TypeInv, FinalizerInv, RecordInv, MadeInv, [Next]_vars
    PROVE  MadeInv'
<1>1. /\ mem \in CR /\ nets \in [Nets -> NetStatuses] /\ records \in Nat
      /\ {"stale", "crash", "patch"} \intersect FaultKinds = {} /\ ~Fault("lost")
      /\ None \notin Nets
  BY ConstantsAssumption DEF TypeInv, TypeOK, Fault
<1>2. CASE Start \/ PatchStep \/ EnvStep \/ Cloud \/ Vanish \/ UNCHANGED vars
  <2>1. RecordKept
    BY <1>1, <1>2, RecordStays
  <2>2. ~CreatePrivateNetwork /\ ~ReconcileDNS /\ ~DeleteDNSRecord
    <3>1. pc = "idle" \/ pc \in PatchPCs \/ pc' = pc
      BY <1>1, <1>2, CloudLeavesKube, EnvKeepsIds, PatchMeta
         DEF workerVars, vars, Start, ReconcileStops, AddFinalizer, ReconcileNormal,
             ReconcileDeleteKeep, ReconcileDelete, Begin
    <3>2. ~CreatePrivateNetwork
      BY <1>1, <3>1 DEF CreatePrivateNetwork, Go, Return, PatchPCs
    <3>3. ~ReconcileDNS /\ ~DeleteDNSRecord
      BY <3>1 DEF ReconcileDNS, DeleteDNSRecord, Go, Return, PatchPCs
    <3> QED
      BY <3>2, <3>3
  <2>3. records' = records /\ \A n \in Nets : NetThere(n)' => NetThere(n)
    BY <2>2, WhoMakes, WhoMakesNets
  <2> QED
    BY <2>1, <2>3 DEF MadeInv, RecordKept
<1>3. CASE NormalStep \/ DeleteStep
  <2>1. pc # "idle" /\ pc' # "idle"
    BY <1>3, NormalControl, DeleteControl DEF NormalPCs, DeletePCs
  <2>2. Latest = mem /\ Latest' = mem'
    BY <2>1 DEF Latest
  <2>3. \A n \in Nets \ {UserNet} : NetThere(n)' => mem'.net = n
    <3>1. CASE UseKnownNetwork
      <4>1. nets' = nets /\ (mem.net = None \/ mem' = mem)
        BY <3>1 DEF UseKnownNetwork, netVars
      <4> QED
        BY <1>1, <2>2, <4>1 DEF MadeInv, NetThere
    <3>2. CASE CreatePrivateNetwork
      <4>1. mem.net = None /\ \A n \in Nets \ {UserNet} : ~NetThere(n)
        BY <1>1, <2>2, <3>2 DEF CreatePrivateNetwork, MadeInv
      <4>2. CASE nets' = nets
        BY <4>1, <4>2 DEF NetThere
      <4>3. ASSUME NEW n \in Nets, NewNet(n), mem' = [mem EXCEPT !.net = n, !.mine = TRUE]
            PROVE  \A k \in Nets \ {UserNet} : NetThere(k)' => mem'.net = k
        <5>1. mem'.net = n
          BY <1>1, <4>3 DEF CR
        <5>2. \A k \in Nets : k # n => nets'[k] = nets[k]
          BY <1>1, <4>3 DEF NewNet
        <5> QED
          BY <4>1, <5>1, <5>2 DEF NetThere
      <4> QED
        BY <1>1, <3>2, <4>2, <4>3 DEF CreatePrivateNetwork
    <3>3. CASE GetPrivateNetwork
      <4>1. nets' = nets /\ (nets[mem.net] = "gone" \/ mem' = mem)
        BY <3>3 DEF GetPrivateNetwork, netVars
      <4> QED
        BY <2>2, <4>1 DEF MadeInv, NetThere
    <3>4. CASE ~(UseKnownNetwork \/ CreatePrivateNetwork \/ GetPrivateNetwork)
      <4>1. mem'.net = mem.net
        BY <1>3, <3>4, OtherStepsKeepNet, DeleteRecords
           DEF NetworkStep, SameNetFields, DeleteStep
      <4> QED
        BY <2>2, <3>4, <4>1, WhoMakesNets DEF MadeInv
    <3> QED
      BY <3>1, <3>2, <3>3, <3>4
  <2>4. records' <= 1 /\ (records' # 0 => mem'.dns /\ DNSConfig)
    <3>1. CASE ReconcileDNS
      <4>1. CASE records' = records /\ mem' = [mem EXCEPT !.ready = TRUE]
        <5>1. mem'.dns = mem.dns
          BY <1>1, <4>1 DEF CR
        <5> QED
          BY <2>2, <4>1, <5>1 DEF MadeInv
      <4>2. CASE /\ DNSConfig /\ ~mem.dns /\ records' = records + 1
                 /\ mem' = [mem EXCEPT !.ready = TRUE, !.dns = TRUE]
        <5>1. mem'.dns /\ records = 0
          BY <1>1, <2>2, <4>2 DEF MadeInv, CR
        <5> QED
          BY <4>2, <5>1
      <4> QED
        BY <1>1, <3>1, <4>1, <4>2 DEF ReconcileDNS, AddRecord
    <3>2. CASE DeleteDNSRecord
      BY <1>1, <2>2, <3>2 DEF DeleteDNSRecord, DropRecord, MadeInv, CR
    <3>3. CASE ~(ReconcileDNS \/ DeleteDNSRecord)
      BY <1>3, <2>2, <3>3, WhoMakes, WhoRecords DEF MadeInv
    <3> QED
      BY <3>1, <3>2, <3>3
  <2> QED
    BY <2>2, <2>3, <2>4 DEF MadeInv
<1> QED
  BY <1>2, <1>3, NextSplit

LEMMA RecordsInit == Init => RecordInv /\ MadeInv
<1> SUFFICES ASSUME Init PROVE RecordInv /\ MadeInv
  OBVIOUS
<1>1. \A n \in Nets \ {UserNet} : nets[n] = "none"
  BY DEF Init
<1> QED
  BY <1>1 DEF Init, RecordInv, MadeInv, NetThere, DeletePCs

\* At most one private network is there for the cluster, and one DNS record, for
\* every number of networks and through API errors, edits of the spec, load
\* balancers that are listed late and resources that vanish: as long as the answers
\* to the POSTs and the status that names what they made are not lost.
THEOREM MadeOnlyOnce ==
    ASSUME {"stale", "crash", "patch", "lost"} \intersect FaultKinds = {}
    PROVE  Spec => []MadeOnce
<1>1. {"stale", "crash", "patch"} \intersect FaultKinds = {}
  OBVIOUS
<1>2. TypeInv /\ FinalizerInv /\ RecordInv /\ MadeInv /\ [Next]_vars => RecordInv' /\ MadeInv'
  BY <1>1, RecordStep, MadeStep
<1>3. TypeInv /\ MadeInv => MadeOnce
  BY DEF MadeInv, MadeOnce, NetThere
<1> QED
  BY <1>2, <1>3, BaseCorrect, RecordsInit, PTL DEF Spec

-----------------------------------------------------------------------------
(* The load balancer and the deletion.  A load balancer that is being        *)
(* changed answers 409, which the client takes for success, so the deletion  *)
(* of the load balancer alone does not see to it that it goes.  What does is *)
(* the network: it is in use as long as a load balancer is on it, and the    *)
(* finalizer goes after the network.  So this needs a network that the       *)
(* controller makes and deletes.                                             *)

QuietRuns ==
    /\ FaultKinds \subseteq {"vanish", "noVIP"}
    /\ NetConfig /\ GivenNet = None

LEMMA QuietFaults ==
    ASSUME QuietRuns
    PROVE  /\ {"stale", "crash", "patch", "lost"} \intersect FaultKinds = {}
           /\ {"hide", "lost", "api"} \intersect FaultKinds = {}
           /\ {"stale", "crash", "patch"} \intersect FaultKinds = {}
           /\ "edit" \notin FaultKinds /\ "stale" \notin FaultKinds
           /\ "patch" \notin FaultKinds /\ "crash" \notin FaultKinds
           /\ ~Fault("api") /\ ~Fault("lost") /\ ~Fault("hide") /\ ~Crash /\ ~CallFails
           /\ NetConfig /\ GivenNet = None
BY DEF QuietRuns, Fault, Crash, CallFails

\* What is known already.
KnownInv ==
    /\ TypeInv /\ FinalizerInv /\ HeldInv
    /\ OneLBInv /\ FixedNetInv /\ RecordInv /\ MadeInv

LEMMA KnownCorrect ==
    ASSUME QuietRuns
    PROVE  Spec => []KnownInv
<1>1. Init => OneLBInv /\ FixedNetInv
  <2> SUFFICES ASSUME Init PROVE OneLBInv /\ FixedNetInv
    OBVIOUS
  <2>1. \A l \in OwnLBs : lbs[l] = "none"
    BY DEF Init, OwnLBs
  <2>2. \A l \in LBs : lbs[l] # "hidden"
    BY DEF Init
  <2>3. nets[UserNet] = "ACTIVE"
    BY ConstantsAssumption DEF Init
  <2> QED
    BY <2>1, <2>2, <2>3, NewFixedNet DEF Init, OneLBInv, NoDuplicateLB, LBExists, FixedNetInv
<1>2. TypeInv /\ FinalizerInv /\ HeldInv /\ [Next]_vars => HeldInv'
  BY HeldStep
<1>3. TypeInv /\ OneLBInv /\ [Next]_vars => OneLBInv'
  BY OneLBStep, QuietFaults
<1>4. TypeInv /\ FixedNetInv /\ [Next]_vars => FixedNetInv'
  BY FixedNetStep, QuietFaults
<1>5. TypeInv /\ FinalizerInv /\ RecordInv /\ MadeInv /\ [Next]_vars => RecordInv' /\ MadeInv'
  BY RecordStep, MadeStep, QuietFaults
<1> QED
  BY <1>1, <1>2, <1>3, <1>4, <1>5, BaseCorrect, HeldInit, RecordsInit, PTL DEF Spec, KnownInv

\* The network of the record is there and is the controller's.
NetLive == Latest.net \in Nets \ {UserNet} /\ nets[Latest.net] = "ACTIVE"

\* The load balancer has been changed since it was made.
Touched(l) ==
    lbs[l] = "PENDING_UPDATE" \/ \E p \in Ports : <<l, p>> \in listeners \union pools

GoingStatuses == {"none", "PENDING_DELETE", "gone"}

LBLeft == \E l \in OwnLBs : lbs[l] \notin GoingStatuses

\* The patch at hand lets a cluster go that was deleted without keep.
Removing == pc \in {"patchConditions", "patch"} /\ base.fin /\ ~mem.fin /\ ~base.keep

\* Only CreateLoadBalancer makes a load balancer, and one that is going does not
\* come back.
LEMMA LBFate ==
    ASSUME TypeInv, [Next]_vars, ~CreateLoadBalancer, ~RepostLoadBalancer
    PROVE  \A l \in LBs : lbs'[l] \notin GoingStatuses => lbs[l] \notin GoingStatuses
<1>1. lbs \in [LBs -> LBStatuses]
  BY DEF TypeInv, TypeOK
<1>2. CASE UNCHANGED lbs
  BY <1>2
<1>3. CASE Start \/ PatchStep \/ EnvStep \/ UNCHANGED vars
  BY <1>2, <1>3
     DEF Start, ReconcileStops, AddFinalizer, ReconcileNormal, ReconcileDeleteKeep,
         ReconcileDelete, Begin, PatchStep, PatchConditions, PatchObject, PatchStatus, inPatch,
         EnvStep, CacheSync, Crash, UserDelete, UserKeep, SetOwner, EditNetwork, cloudStays,
         vars, lbVars
<1>4. CASE NormalStep
  <2>1. CASE EnsureListener \/ EnsurePool \/ EnsurePoolHealthMonitor
    BY <1>1, <2>1 DEF EnsureListener, EnsurePool, EnsurePoolHealthMonitor, PostListener,
       PostPool, PostMonitor, Mutable, Touch, GoingStatuses
  <2>2. CASE ~(EnsureListener \/ EnsurePool \/ EnsurePoolHealthMonitor)
    BY <1>2, <1>4, <2>2
       DEF NormalStep, UseKnownNetwork, CreatePrivateNetwork, GetPrivateNetwork, EnsureSubnet,
           ReconcileSecurityGroups, ReconcileLoadBalancer, PollLoadBalancer,
           FloatingIPOnLB, FloatingIPNotOnLB, GetFloatingIP, ListFloatingIPs,
           CreateLoadBalancerFloatingIP, EnsureGatewayExposed, RefreshFloatingIP,
           ReconcileDNS, CallFails, lbVars
  <2> QED
    BY <2>1, <2>2
<1>5. CASE DeleteStep
  <2>1. CASE DeletePool \/ DeleteListener
    BY <1>1, <2>1 DEF DeletePool, DeleteListener, DropPool, DropListener, Mutable, Touch,
       GoingStatuses
  <2>2. CASE DeleteLoadBalancer \/ DeleteOrphans
    BY <1>1, <2>2 DEF DeleteLoadBalancer, DeleteOrphans, Doom, GoingStatuses
  <2>3. CASE ~(DeletePool \/ DeleteListener \/ DeleteLoadBalancer \/ DeleteOrphans)
    BY <1>2, <1>5, <2>3
       DEF DeleteStep, DeleteDNSRecord, DeleteSecurityGroup, CaptureFloatingIPs,
           CleanupFloatingIP, CleanupFloatingIPsDone, DeleteGateway, DeletePrivateNetwork,
           lbVars
  <2> QED
    BY <2>1, <2>2, <2>3
<1>6. CASE Cloud \/ Vanish
  <2>1. ASSUME NEW k \in LBs, LBProgress(k)
        PROVE  \A l \in LBs : lbs'[l] \notin GoingStatuses => lbs[l] \notin GoingStatuses
    BY <1>1, <2>1 DEF LBProgress, LBGone, GoingStatuses
  <2>2. CASE Vanish
    BY <1>1, <2>2 DEF Vanish, LBGone, GoingStatuses, lbVars
  <2> QED
    BY <1>2, <1>6, <2>1, <2>2 DEF Cloud, NetProgress, FIPProgress, lbVars
<1> QED
  BY <1>3, <1>4, <1>5, <1>6, NextSplit

\* The record names another network only when the one it names is not there.
LEMMA NetStays ==
    ASSUME QuietRuns, KnownInv, [Next]_vars, NetLive,
           NEW l \in OwnLBs, LBExists(l)
    PROVE  NetLive'
<1>1. /\ mem \in CR /\ nets \in [Nets -> NetStatuses] /\ None \notin Nets
  BY ConstantsAssumption DEF KnownInv, TypeInv, TypeOK
<1>2. \A n : ~NetInUse(n) => FALSE
  BY DEF NetInUse
<1>3. CASE Start \/ PatchStep \/ EnvStep \/ UNCHANGED vars
  <2>1. RecordKept
    BY <1>3, RecordStays, QuietFaults DEF KnownInv
  <2>2. UNCHANGED nets
    BY <1>3
       DEF Start, ReconcileStops, AddFinalizer, ReconcileNormal, ReconcileDeleteKeep,
           ReconcileDelete, Begin, PatchStep, PatchConditions, PatchObject, PatchStatus,
           inPatch, EnvStep, CacheSync, Crash, UserDelete, UserKeep, SetOwner, EditNetwork,
           cloudStays, vars, netVars
  <2> QED
    BY <2>1, <2>2 DEF RecordKept, NetLive
<1>4. CASE Cloud \/ Vanish
  <2>1. RecordKept
    BY <1>4, RecordStays, QuietFaults DEF KnownInv
  <2>2. \A n \in Nets : nets[n] = "ACTIVE" => nets'[n] = "ACTIVE"
    BY <1>1, <1>2, <1>4
       DEF Cloud, Vanish, NetProgress, LBProgress, FIPProgress, netVars
  <2> QED
    BY <2>1, <2>2 DEF RecordKept, NetLive
<1>5. CASE NormalStep \/ DeleteStep
  <2>1. Latest = mem /\ Latest' = mem'
    BY <1>5, NormalControl, DeleteControl DEF NormalPCs, DeletePCs, Latest
  <2>2. CASE ~NetworkStep
    BY <1>5, <2>1, <2>2, OtherStepsKeepNet DEF SameNetFields, NetLive, KnownInv
  <2>3. CASE UseKnownNetwork \/ CreatePrivateNetwork \/ GetPrivateNetwork
    <3>1. mem.net # None /\ nets[mem.net] = "ACTIVE"
      BY <1>1, <2>1 DEF NetLive
    <3>2. mem' = mem /\ nets' = nets
      BY <2>3, <3>1 DEF UseKnownNetwork, CreatePrivateNetwork, GetPrivateNetwork, netVars
    <3> QED
      BY <2>1, <3>2 DEF NetLive
  <2>4. CASE DeletePrivateNetwork
    <3>1. mem'.net = mem.net
      BY <2>4, DeleteRecords DEF KnownInv, DeleteStep
    <3>2. nets' = nets
      BY <1>2, <2>4 DEF DeletePrivateNetwork, netVars
    <3> QED
      BY <2>1, <3>1, <3>2 DEF NetLive
  <2> QED
    BY <2>2, <2>3, <2>4 DEF NetworkStep
<1> QED
  BY <1>3, <1>4, <1>5, NextSplit

\* A load balancer is changed by a reconcile that looked its network up, or by one
\* that found it changed already; what was changed is there.
LEMMA TouchedFrom ==
    ASSUME TypeInv, [Next]_vars, NEW l \in OwnLBs, Touched(l) => LBExists(l), Touched(l)'
    PROVE  /\ LBExists(l) /\ LBExists(l)'
           /\ Touched(l) \/ pc \in {"listener", "pool"}
<1>1. /\ lbs \in [LBs -> LBStatuses] /\ l \in LBs
      /\ listeners \subseteq LBs \X Ports /\ pools \subseteq LBs \X Ports
  BY DEF TypeInv, TypeOK, OwnLBs
<1>2. CASE UNCHANGED <<lbs, listeners, pools>>
  BY <1>2 DEF Touched, LBExists
<1>3. CASE Start \/ PatchStep \/ EnvStep \/ UNCHANGED vars
  BY <1>2, <1>3
     DEF Start, ReconcileStops, AddFinalizer, ReconcileNormal, ReconcileDeleteKeep,
         ReconcileDelete, Begin, PatchStep, PatchConditions, PatchObject, PatchStatus, inPatch,
         EnvStep, CacheSync, Crash, UserDelete, UserKeep, SetOwner, EditNetwork, cloudStays,
         vars, lbVars
<1>4. CASE NormalStep
  <2>1. CASE CreateLoadBalancer \/ RepostLoadBalancer
    BY <1>1, <2>1 DEF CreateLoadBalancer, RepostLoadBalancer, NewLB, Touched, LBExists
  <2>2. CASE EnsureListener
    BY <1>1, <2>2 DEF EnsureListener, PostListener, Mutable, Touch, Touched, LBExists
  <2>3. CASE EnsurePool
    BY <1>1, <2>3 DEF EnsurePool, PostPool, Mutable, Touch, Touched, LBExists
  <2>4. CASE EnsurePoolHealthMonitor
    <3>1. listeners' = listeners /\ pools' = pools
      BY <2>4 DEF EnsurePoolHealthMonitor
    <3>2. lbs' = lbs \/ \E q : /\ \E p \in Ports : <<q, p>> \in pools
                              /\ lbs[q] = "ACTIVE" /\ lbs' = [lbs EXCEPT ![q] = "PENDING_UPDATE"]
      BY <1>1, <2>4 DEF EnsurePoolHealthMonitor, PostMonitor, Mutable, Touch, TypeInv, TypeOK
    <3> QED
      BY <1>1, <3>1, <3>2 DEF Touched, LBExists
  <2>5. CASE ~(\/ CreateLoadBalancer \/ RepostLoadBalancer
               \/ EnsureListener \/ EnsurePool \/ EnsurePoolHealthMonitor)
    BY <1>2, <1>4, <2>5
       DEF NormalStep, UseKnownNetwork, CreatePrivateNetwork, GetPrivateNetwork, EnsureSubnet,
           ReconcileSecurityGroups, ReconcileLoadBalancer, PollLoadBalancer,
           FloatingIPOnLB, FloatingIPNotOnLB, GetFloatingIP, ListFloatingIPs,
           CreateLoadBalancerFloatingIP, EnsureGatewayExposed, RefreshFloatingIP,
           ReconcileDNS, CallFails, lbVars
  <2> QED
    BY <2>1, <2>2, <2>3, <2>4, <2>5
<1>5. CASE DeleteStep
  <2>1. CASE DeletePool
    <3>1. listeners' = listeners /\ pools' \subseteq pools
      BY <2>1 DEF DeletePool, DropPool
    <3>2. lbs' = lbs \/ \E q : /\ \E p \in Ports : <<q, p>> \in pools
                              /\ lbs[q] = "ACTIVE" /\ lbs' = [lbs EXCEPT ![q] = "PENDING_UPDATE"]
      BY <1>1, <2>1 DEF DeletePool, DropPool, Mutable, Touch, Ports
    <3> QED
      BY <1>1, <3>1, <3>2 DEF Touched, LBExists
  <2>2. CASE DeleteListener
    <3>1. pools' = pools /\ listeners' \subseteq listeners
      BY <2>2 DEF DeleteListener, DropListener
    <3>2. lbs' = lbs \/ \E q : /\ \E p \in Ports : <<q, p>> \in listeners
                              /\ lbs[q] = "ACTIVE" /\ lbs' = [lbs EXCEPT ![q] = "PENDING_UPDATE"]
      BY <1>1, <2>2 DEF DeleteListener, DropListener, Mutable, Touch, Ports
    <3> QED
      BY <1>1, <3>1, <3>2 DEF Touched, LBExists
  <2>3. CASE DeleteLoadBalancer \/ DeleteOrphans
    BY <1>1, <2>3 DEF DeleteLoadBalancer, DeleteOrphans, Doom, Touched, LBExists
  <2>4. CASE ~(DeletePool \/ DeleteListener \/ DeleteLoadBalancer \/ DeleteOrphans)
    BY <1>2, <1>5, <2>4
       DEF DeleteStep, DeleteDNSRecord, DeleteSecurityGroup, CaptureFloatingIPs,
           CleanupFloatingIP, CleanupFloatingIPsDone, DeleteGateway, DeletePrivateNetwork,
           lbVars
  <2> QED
    BY <2>1, <2>2, <2>3, <2>4
<1>6. ASSUME NEW k \in LBs, LBGone(k)
      PROVE  l # k /\ Touched(l) /\ lbs'[l] = lbs[l]
  <2>1. /\ lbs' = [lbs EXCEPT ![k] = "gone"]
        /\ listeners' = listeners \ ({k} \X Ports) /\ pools' = pools \ ({k} \X Ports)
    BY <1>6 DEF LBGone
  <2>2. l # k
    <3> SUFFICES ASSUME l = k PROVE FALSE
      OBVIOUS
    <3>1. lbs'[l] = "gone" /\ \A p \in Ports : <<l, p>> \notin listeners' \union pools'
      BY <1>1, <2>1
    <3> QED
      BY <3>1 DEF Touched
  <2> QED
    BY <1>1, <2>1, <2>2 DEF Touched
<1>7. CASE Cloud \/ Vanish
  <2>1. ASSUME NEW k \in LBs, LBProgress(k)
        PROVE  Touched(l) /\ LBExists(l)'
    <3>1. CASE LBGone(k)
      BY <1>6, <3>1 DEF LBExists
    <3>2. CASE /\ listeners' = listeners /\ pools' = pools
               /\ lbs' = lbs \/ \E st \in {"PENDING_CREATE", "ACTIVE"} : lbs' = [lbs EXCEPT ![k] = st]
      BY <1>1, <3>2 DEF Touched, LBExists
    <3> QED
      BY <2>1, <3>1, <3>2 DEF LBProgress
  <2>2. CASE Vanish
    <3>1. (\E k \in LBs : LBGone(k)) \/ UNCHANGED <<lbs, listeners, pools>>
      BY <2>2 DEF Vanish, lbVars, OwnLBs
    <3> QED
      BY <1>2, <1>6, <3>1 DEF LBExists
  <2> QED
    BY <1>2, <1>7, <2>1, <2>2 DEF Cloud, NetProgress, FIPProgress, lbVars
<1> QED
  BY <1>3, <1>4, <1>5, <1>7, NextSplit

\* The order of ReconcileNormal when no call fails.
OnLBStep ==
    \/ EnsureListener \/ EnsurePool \/ EnsurePoolHealthMonitor
    \/ FloatingIPOnLB \/ FloatingIPNotOnLB \/ GetFloatingIP \/ ListFloatingIPs
    \/ CreateLoadBalancerFloatingIP \/ EnsureGatewayExposed \/ RefreshFloatingIP
    \/ ReconcileDNS

LEMMA NormalFlow ==
    ASSUME QuietRuns, KnownInv, NormalStep
    PROVE  \/ /\ UseKnownNetwork \/ CreatePrivateNetwork
              /\ pc = "net" /\ pc' \in {"netget", "patchConditions"}
           \/ GetPrivateNetwork /\ pc = "netget" /\ pc' \in {"subnet", "sg", "patchConditions"}
           \/ EnsureSubnet /\ pc = "subnet" /\ pc' \in {"sg", "patchConditions"}
           \/ ReconcileSecurityGroups /\ pc = "sg" /\ pc' = "lb"
           \/ /\ ReconcileLoadBalancer /\ pc = "lb"
              /\ pc' \in {"listener", "lbpost", "patchConditions"}
           \/ CreateLoadBalancer /\ pc = "lbpost" /\ pc' \in {"lbpoll", "patchConditions"}
           \/ PollLoadBalancer /\ pc = "lbpoll" /\ pc' = "patchConditions"
           \/ OnLBStep /\ pc \in OnLBPCs /\ pc' \in OnLBPCs \union {"patchConditions"}
<1>1. ~Fault("api") /\ ~Fault("lost") /\ ~CallFails /\ ~RepostLoadBalancer
  BY QuietFaults DEF KnownInv, OneLBInv, RepostLoadBalancer
<1>2. CASE UseKnownNetwork \/ CreatePrivateNetwork \/ GetPrivateNetwork \/ EnsureSubnet
  BY <1>1, <1>2 DEF UseKnownNetwork, CreatePrivateNetwork, GetPrivateNetwork, EnsureSubnet, Go, Return
<1>3. CASE \/ ReconcileSecurityGroups \/ ReconcileLoadBalancer \/ CreateLoadBalancer
           \/ PollLoadBalancer
  BY <1>1, <1>3 DEF ReconcileSecurityGroups, ReconcileLoadBalancer, CreateLoadBalancer,
     PollLoadBalancer, Go, Return
<1>4. CASE OnLBStep
  <2>1. pc \in OnLBPCs /\ pc' \in OnLBPCs \union {"patchConditions"}
    <3>1. CASE EnsureListener \/ EnsurePool \/ EnsurePoolHealthMonitor
      BY <3>1 DEF EnsureListener, EnsurePool, EnsurePoolHealthMonitor, AfterMonitor, Go, Return,
         OnLBPCs
    <3>2. CASE ~(EnsureListener \/ EnsurePool \/ EnsurePoolHealthMonitor)
      BY <1>4, <3>2 DEF OnLBStep, FloatingIPOnLB, FloatingIPNotOnLB, GetFloatingIP,
         ListFloatingIPs, CreateLoadBalancerFloatingIP, EnsureGatewayExposed,
         RefreshFloatingIP, ReconcileDNS, Go, Return, OnLBPCs
    <3> QED
      BY <3>1, <3>2
  <2> QED
    BY <1>4, <2>1
<1> QED
  BY <1>1, <1>2, <1>3, <1>4 DEF NormalStep, OnLBStep

\* The other steps leave ReconcileNormal and ReconcileDelete where they are, or
\* begin or end them.
LEMMA OtherFlow ==
    ASSUME QuietRuns, KnownInv,
           Start \/ PatchStep \/ EnvStep \/ Cloud \/ Vanish \/ UNCHANGED vars
    PROVE  /\ \/ pc = "idle" /\ pc' \in {"patchConditions", "net", "delDNS"}
              \/ pc \in PatchPCs /\ pc' \in PatchPCs \union {"idle"}
              \/ pc' = pc /\ mem' = mem /\ base' = base
           /\ ~CreateLoadBalancer /\ ~RepostLoadBalancer
<1>1. \/ pc = "idle" /\ pc' \in {"patchConditions", "net", "delDNS"}
      \/ pc \in PatchPCs /\ pc' \in PatchPCs \union {"idle"}
      \/ pc' = pc /\ mem' = mem /\ base' = base
  <2>1. CASE Start
    BY <2>1, QuietFaults DEF Start, ReconcileStops, AddFinalizer, ReconcileNormal,
       ReconcileDeleteKeep, ReconcileDelete, Begin, Go, Return
  <2>2. CASE PatchStep
    BY <2>2, PatchMeta DEF KnownInv
  <2>3. CASE EnvStep
    BY <2>3, EnvKeepsIds, QuietFaults DEF KnownInv, workerVars
  <2>4. CASE Cloud \/ Vanish \/ UNCHANGED vars
    BY <2>4, CloudLeavesKube DEF workerVars, vars
  <2> QED
    BY <2>1, <2>2, <2>3, <2>4
<1>2. ~RepostLoadBalancer
  BY DEF KnownInv, OneLBInv, RepostLoadBalancer
<1>3. ~CreateLoadBalancer
  BY <1>1 DEF CreateLoadBalancer, Go, Return, PatchPCs
<1> QED
  BY <1>1, <1>2, <1>3

\* A load balancer of ours is the one on record, or the one the reconcile waits for.
RecordedLB ==
    /\ pc \in {"lbpost", "lbpoll"} => mem.lb = None
    /\ \A l \in OwnLBs : LBExists(l) => Latest.lb = l \/ pc = "lbpoll"

LEMMA RecordedLBStep ==
    ASSUME QuietRuns, KnownInv, RecordedLB, [Next]_vars
    PROVE  RecordedLB'
<1>1. /\ mem \in CR /\ lbs \in [LBs -> LBStatuses] /\ None \notin LBs /\ OwnLBs \subseteq LBs
  BY ConstantsAssumption DEF KnownInv, TypeInv, TypeOK, OwnLBs
<1>2. ASSUME ~CreateLoadBalancer, ~RepostLoadBalancer, NEW l \in OwnLBs, LBExists(l)'
      PROVE  LBExists(l)
  BY <1>1, <1>2, OnlyCreateMakesLB DEF KnownInv, NoNewLB, LBExists
<1>3. \A l \in OwnLBs : LBExists(l) <=> Listed(l)
  BY <1>1 DEF KnownInv, OneLBInv, LBExists, Listed
<1>4. CASE Start \/ PatchStep \/ EnvStep \/ Cloud \/ Vanish \/ UNCHANGED vars
  <2>1. RecordKept
    BY <1>4, RecordStays, QuietFaults DEF KnownInv
  <2> QED
    BY <1>2, <1>4, <2>1, OtherFlow DEF RecordedLB, RecordKept, PatchPCs
<1>5. CASE DeleteStep
  <2>1. /\ Latest = mem /\ Latest' = mem' /\ pc \notin {"lbpost", "lbpoll", "lbrepost"}
        /\ pc' \notin {"lbpost", "lbpoll", "lbrepost"}
    BY <1>5, DeleteControl DEF DeletePCs, Latest
  <2>2. ~CreateLoadBalancer /\ ~RepostLoadBalancer
    BY <2>1 DEF CreateLoadBalancer, RepostLoadBalancer
  <2> QED
    BY <1>2, <1>5, <2>1, <2>2, DeleteRecords DEF RecordedLB, KnownInv
<1>6. CASE NormalStep
  <2>1. Latest = mem /\ Latest' = mem'
    BY <1>6, NormalControl DEF NormalPCs, Latest
  <2>2. CASE ReconcileLoadBalancer
    <3>1. pc = "lb" /\ lbs' = lbs
      BY <2>2 DEF ReconcileLoadBalancer, lbVars
    <3>2. PICK r \in CR : r = Adopt(mem)
      BY <1>1, AdoptType
    <3>3. r.lb = IF mem.lb = None THEN ExistingLB ELSE mem.lb
      BY <1>1, <3>2 DEF Adopt, CR
    <3>4. ForgetLB(r).lb = None
      BY DEF ForgetLB, CR
    <3>5. \/ r.lb # None /\ Listed(r.lb) /\ mem' = r /\ pc' # "lbpost"
          \/ r.lb # None /\ ~Listed(r.lb) /\ mem' = ForgetLB(r)
          \/ r.lb = None /\ mem' = r
      BY <2>2, <3>2 DEF ReconcileLoadBalancer, Go
    <3>6. pc' # "lbpoll"
      BY <2>2 DEF ReconcileLoadBalancer, Go
    <3>7. pc' = "lbpost" => mem'.lb = None
      BY <3>4, <3>5
    <3>8. ASSUME NEW l \in OwnLBs, LBExists(l)' PROVE mem'.lb = l
      <4>1. mem.lb = l /\ Listed(l) /\ l # None
        BY <1>1, <1>3, <2>1, <3>1, <3>8 DEF RecordedLB, LBExists
      <4> QED
        BY <3>3, <3>5, <4>1
    <3> QED
      BY <2>1, <3>6, <3>7, <3>8 DEF RecordedLB
  <2>3. CASE CreateLoadBalancer
    <3>1. CASE pc' = "lbpoll"
      <4>1. mem' = mem /\ pc = "lbpost"
        BY <2>3, <3>1 DEF CreateLoadBalancer, Go, Return
      <4> QED
        BY <2>1, <3>1, <4>1 DEF RecordedLB
    <3>2. CASE pc' # "lbpoll"
      <4>1. lbs' = lbs /\ pc' = "patchConditions"
        BY <2>3, <3>2, QuietFaults DEF CreateLoadBalancer, Go, Return
      <4>2. ASSUME NEW l \in OwnLBs, LBExists(l)' PROVE mem'.lb = l
        <5>1. l \in FoundByName
          BY <1>3, <4>1, <4>2 DEF FoundByName, ListedOwn, LBExists
        <5>2. PICK k \in FoundByName : mem' = [mem EXCEPT !.lb = k]
          BY <2>3, <3>2, <5>1, QuietFaults DEF CreateLoadBalancer, Go
        <5>3. k \in OwnLBs /\ LBExists(k) /\ LBExists(l)
          BY <1>3, <4>1, <4>2, <5>2 DEF FoundByName, ListedOwn, LBExists
        <5>4. k = l
          BY <5>3 DEF KnownInv, OneLBInv, NoDuplicateLB
        <5> QED
          BY <1>1, <5>2, <5>4 DEF CR
      <4> QED
        BY <2>1, <4>1, <4>2 DEF RecordedLB
    <3> QED
      BY <3>1, <3>2
  <2>4. CASE PollLoadBalancer
    <3>1. lbs' = lbs /\ pc' = "patchConditions"
      BY <2>4 DEF PollLoadBalancer, Return, lbVars
    <3>2. ASSUME NEW l \in OwnLBs, LBExists(l)' PROVE mem'.lb = l
      <4>1. l \in ListedOwn
        BY <1>3, <3>1, <3>2 DEF ListedOwn, LBExists
      <4>2. PICK k \in ListedOwn : mem' = [mem EXCEPT !.lb = k]
        BY <2>4, <4>1 DEF PollLoadBalancer
      <4>3. k \in OwnLBs /\ LBExists(k) /\ LBExists(l)
        BY <1>3, <3>1, <3>2, <4>2 DEF ListedOwn, LBExists
      <4>4. k = l
        BY <4>3 DEF KnownInv, OneLBInv, NoDuplicateLB
      <4> QED
        BY <1>1, <4>2, <4>4 DEF CR
    <3> QED
      BY <2>1, <3>1, <3>2 DEF RecordedLB
  <2>5. CASE ~(ReconcileLoadBalancer \/ CreateLoadBalancer \/ PollLoadBalancer)
    <3>1. ~RepostLoadBalancer /\ mem'.lb = mem.lb
      BY <1>6, <2>5, WhoRecords DEF KnownInv, OneLBInv, RepostLoadBalancer
    <3>2. pc \notin {"lbpost", "lbpoll"} /\ pc' \notin {"lbpost", "lbpoll"}
      BY <1>6, <2>5, NormalFlow DEF OnLBPCs
    <3> QED
      BY <1>2, <2>1, <2>5, <3>1, <3>2 DEF RecordedLB
  <2> QED
    BY <2>2, <2>3, <2>4, <2>5
<1> QED
  BY <1>4, <1>5, <1>6, NextSplit

\* The network on record was made by the controller, and a reconcile that has come
\* to the load balancer has one.
ManagedNet ==
    /\ Latest.net # None => Latest.mine
    /\ pc \in {"sg", "lb"} \union OnLBPCs => Latest.net # None

LEMMA ManagedNetStep ==
    ASSUME QuietRuns, KnownInv, ManagedNet, [Next]_vars
    PROVE  ManagedNet'
<1>1. mem \in CR /\ None \notin Nets
  BY ConstantsAssumption DEF KnownInv, TypeInv, TypeOK
<1>2. CASE Start \/ PatchStep \/ EnvStep \/ Cloud \/ Vanish \/ UNCHANGED vars
  <2>1. RecordKept
    BY <1>2, RecordStays, QuietFaults DEF KnownInv
  <2> QED
    BY <1>2, <2>1, OtherFlow DEF ManagedNet, RecordKept, PatchPCs, OnLBPCs
<1>3. CASE DeleteStep
  BY <1>3, DeleteControl, DeleteRecords DEF ManagedNet, KnownInv, Latest, DeletePCs, OnLBPCs
<1>4. CASE NormalStep
  <2>1. Latest = mem /\ Latest' = mem' /\ (pc \in {"netget", "subnet"} => mem.net # None)
    BY <1>4, NormalControl DEF NormalPCs, Latest, KnownInv, TypeInv, Knows
  <2>2. CASE UseKnownNetwork
    <3>1. mem.given = None /\ pc' = "netget"
      BY <2>2, QuietFaults DEF KnownInv, FixedNetInv, FixedNet, UseKnownNetwork, Go
    <3>2. mem' = mem
      BY <2>2, <3>1 DEF UseKnownNetwork
    <3> QED
      BY <2>1, <3>1, <3>2 DEF ManagedNet, OnLBPCs
  <2>3. CASE CreatePrivateNetwork
    <3>1. mem' = mem \/ \E n \in Nets : mem' = [mem EXCEPT !.net = n, !.mine = TRUE]
      BY <2>3 DEF CreatePrivateNetwork
    <3>2. mem'.net # None => mem'.mine
      <4>1. ASSUME NEW n \in Nets, mem' = [mem EXCEPT !.net = n, !.mine = TRUE]
            PROVE  mem'.mine
        BY <1>1, <4>1 DEF CR
      <4> QED
        BY <2>1, <3>1, <4>1 DEF ManagedNet
    <3>3. pc' \in {"netget", "patchConditions"}
      BY <2>3, QuietFaults DEF CreatePrivateNetwork, Go, Return
    <3> QED
      BY <2>1, <3>2, <3>3 DEF ManagedNet, OnLBPCs
  <2>4. CASE GetPrivateNetwork
    <3>1. mem' = mem \/ (pc' = "patchConditions" /\ mem' = [mem EXCEPT !.net = None, !.subnet = None])
      BY <2>4 DEF GetPrivateNetwork, Return
    <3>2. mem' = mem \/ (pc' = "patchConditions" /\ mem'.net = None)
      BY <1>1, <3>1 DEF CR
    <3> QED
      BY <1>4, <2>1, <2>4, <3>2 DEF ManagedNet, OnLBPCs, GetPrivateNetwork
  <2>5. CASE ~(UseKnownNetwork \/ CreatePrivateNetwork \/ GetPrivateNetwork)
    <3>1. ~NetworkStep
      BY <1>4, <2>5, NormalControl DEF NetworkStep, DeletePrivateNetwork, NormalPCs
    <3>2. mem'.net = mem.net /\ mem'.mine = mem.mine
      BY <1>4, <3>1, OtherStepsKeepNet DEF KnownInv, SameNetFields
    <3>3. pc' \in {"sg", "lb"} \union OnLBPCs => pc \in {"subnet", "sg", "lb"} \union OnLBPCs
      BY <1>4, <2>5, NormalFlow DEF OnLBPCs
    <3> QED
      BY <2>1, <3>2, <3>3 DEF ManagedNet
  <2> QED
    BY <2>2, <2>3, <2>4, <2>5
<1> QED
  BY <1>2, <1>3, <1>4, NextSplit

\* A load balancer that was changed is on a network that is there, and so is one
\* that the reconcile is about to change; by the time ReconcileDelete comes to the
\* network, what is not on one is going.
AfterLBPCs == {"delOrphans", "cleanFIPs", "delGateway", "delNet"}

TouchedInv ==
    /\ \A l \in OwnLBs : Touched(l) => LBExists(l) /\ NetLive
    /\ \A l \in OwnLBs : LBExists(l) /\ pc \in {"subnet", "sg", "lb"} \union OnLBPCs => NetLive
    /\ \A l \in OwnLBs : LBExists(l) /\ pc \in AfterLBPCs =>
         lbs[l] = "PENDING_DELETE" \/ NetLive

LEMMA TouchedStep ==
    ASSUME QuietRuns, KnownInv, RecordedLB, ManagedNet, TouchedInv, [Next]_vars
    PROVE  TouchedInv'
<1>1. /\ mem \in CR /\ lbs \in [LBs -> LBStatuses] /\ None \notin LBs /\ OwnLBs \subseteq LBs
      /\ TypeInv
  BY ConstantsAssumption DEF KnownInv, TypeInv, TypeOK, OwnLBs
<1>2. ASSUME NEW l \in OwnLBs, LBExists(l), NetLive PROVE NetLive'
  BY <1>2, NetStays
<1>3. ASSUME ~CreateLoadBalancer, NEW l \in OwnLBs, LBExists(l)'
      PROVE  LBExists(l) /\ (lbs[l] = "PENDING_DELETE" => lbs'[l] = "PENDING_DELETE")
  <2>1. ~RepostLoadBalancer
    BY DEF KnownInv, OneLBInv, RepostLoadBalancer
  <2> QED
    BY <1>1, <1>3, <2>1, OnlyCreateMakesLB, LBFate DEF NoNewLB, LBExists, GoingStatuses
<1>4. ASSUME NEW l \in OwnLBs, Touched(l)' PROVE LBExists(l)' /\ NetLive'
  <2>1. Touched(l) => LBExists(l) /\ NetLive
    BY DEF TouchedInv
  <2>2. LBExists(l) /\ LBExists(l)' /\ (Touched(l) \/ pc \in {"listener", "pool"})
    BY <1>1, <1>4, <2>1, TouchedFrom
  <2>3. NetLive
    BY <2>1, <2>2 DEF TouchedInv, OnLBPCs
  <2> QED
    BY <1>2, <2>2, <2>3
<1>5. ASSUME NEW l \in OwnLBs, LBExists(l)', pc' \in {"subnet", "sg", "lb"} \union OnLBPCs
      PROVE  NetLive'
  <2>1. CASE GetPrivateNetwork
    <3>1. mem.net \in Nets /\ mem.net # UserNet /\ pc = "netget"
      BY <1>1, <2>1, Fields, QuietFaults
         DEF GetPrivateNetwork, KnownInv, TypeInv, Knows, FixedNetInv, FixedNet
    <3>2. nets[mem.net] = "ACTIVE" /\ mem' = mem /\ nets' = nets
      BY <1>5, <2>1 DEF GetPrivateNetwork, Return, netVars, OnLBPCs
    <3>3. pc' # "idle"
      BY <1>5 DEF OnLBPCs
    <3> QED
      BY <3>1, <3>2, <3>3 DEF NetLive, Latest
  <2>2. CASE ~GetPrivateNetwork
    <3>1. pc \in {"subnet", "sg", "lb"} \union OnLBPCs
      <4>1. CASE NormalStep
        BY <1>5, <2>2, <4>1, NormalFlow DEF OnLBPCs
      <4>2. CASE DeleteStep
        BY <1>5, <4>2, DeleteControl DEF OnLBPCs, DeletePCs
      <4>3. CASE Start \/ PatchStep \/ EnvStep \/ Cloud \/ Vanish \/ UNCHANGED vars
        BY <1>5, <4>3, OtherFlow DEF OnLBPCs, PatchPCs
      <4> QED
        BY <4>1, <4>2, <4>3, NextSplit
    <3>2. ~CreateLoadBalancer
      BY <3>1 DEF CreateLoadBalancer, OnLBPCs
    <3> QED
      BY <1>2, <1>3, <1>5, <3>1, <3>2 DEF TouchedInv
  <2> QED
    BY <2>1, <2>2
<1>6. ASSUME NEW l \in OwnLBs, LBExists(l)', pc' \in AfterLBPCs
      PROVE  lbs'[l] = "PENDING_DELETE" \/ NetLive'
  <2>1. CASE DeleteLoadBalancer
    <3>1. pc = "delLB" /\ ~CreateLoadBalancer /\ pc' # "patchConditions"
      BY <1>6, <2>1 DEF DeleteLoadBalancer, CreateLoadBalancer, AfterLBPCs
    <3>2. LBExists(l) /\ mem.lb = l /\ l # None
      BY <1>1, <1>3, <1>6, <3>1 DEF RecordedLB, Latest
    <3>3. TakenForDeleted(l) /\ lbs' = Doom({l})
      BY <2>1, <3>1, <3>2, QuietFaults DEF DeleteLoadBalancer, Return
    <3>4. lbs[l] \in {"ACTIVE", "PENDING_UPDATE", "PENDING_DELETE"}
      BY <1>1, <3>2, <3>3 DEF TakenForDeleted, LBExists, LBStatuses, KnownInv, OneLBInv
    <3>5. lbs[l] = "PENDING_UPDATE" => NetLive
      BY DEF TouchedInv, Touched
    <3>6. lbs[l] # "PENDING_UPDATE" => lbs'[l] = "PENDING_DELETE"
      BY <1>1, <3>3, <3>4 DEF Doom
    <3> QED
      BY <1>2, <3>2, <3>5, <3>6
  <2>2. CASE ~DeleteLoadBalancer
    <3>1. pc \in AfterLBPCs
      <4>1. CASE NormalStep
        BY <1>6, <4>1, NormalFlow DEF OnLBPCs, AfterLBPCs
      <4>2. CASE DeleteStep
        BY <1>6, <2>2, <4>2 DEF DeleteStep, DeleteDNSRecord, DeleteSecurityGroup,
           CaptureFloatingIPs, DeletePool, DeleteListener, DeleteOrphans, CleanupFloatingIP,
           CleanupFloatingIPsDone, DeleteGateway, DeletePrivateNetwork, Go, Return, AfterLBPCs
      <4>3. CASE Start \/ PatchStep \/ EnvStep \/ Cloud \/ Vanish \/ UNCHANGED vars
        BY <1>6, <4>3, OtherFlow DEF AfterLBPCs, PatchPCs
      <4> QED
        BY <4>1, <4>2, <4>3, NextSplit
    <3>2. ~CreateLoadBalancer
      BY <3>1 DEF CreateLoadBalancer, AfterLBPCs
    <3> QED
      BY <1>2, <1>3, <1>6, <3>1, <3>2 DEF TouchedInv
  <2> QED
    BY <2>1, <2>2
<1> QED
  BY <1>4, <1>5, <1>6 DEF TouchedInv

\* The object is held by its finalizer, or nobody is going to clean up after it: it
\* has none and was not deleted with keep, or the patch at hand takes it away.
Free == Removing \/ (~obj.fin /\ (obj.ex \/ ~obj.keep))

HoldInv ==
    /\ base.keep => obj.keep
    /\ ~obj.ex => ~obj.fin
    /\ pc \in DeletePCs => mem.fin

LEMMA HoldStep ==
    ASSUME QuietRuns, KnownInv, HoldInv, [Next]_vars
    PROVE  HoldInv'
<1>1. TypeInv /\ obj \in CR /\ mem \in CR
  BY DEF KnownInv, TypeInv, TypeOK
<1>2. CASE Start
  <2>1. /\ base' = obj /\ obj' = obj
        /\ pc' \in DeletePCs => mem' = obj /\ obj.del /\ obj.ex
    BY <1>1, <1>2, StartCopies, QuietFaults
       DEF kubeVars, Start, ReconcileStops, AddFinalizer, ReconcileNormal,
           ReconcileDeleteKeep, ReconcileDelete, Begin, Go, Return, DeletePCs
  <2> QED
    BY <2>1 DEF HoldInv, KnownInv, HeldInv
<1>3. CASE NormalStep
  BY <1>3, NormalControl DEF HoldInv, kubeVars, DeletePCs, NormalPCs
<1>4. CASE DeleteStep
  <2>1. /\ UNCHANGED <<obj, base>> /\ pc \in DeletePCs
        /\ pc' \in DeletePCs => mem'.fin = mem.fin
    BY <1>1, <1>4, DeleteControl, DeleteRecords
       DEF kubeVars, DeletePrivateNetwork, Return, DeletePCs
  <2> QED
    BY <2>1 DEF HoldInv
<1>5. CASE PatchStep
  <2>1. base' = base \/ ~base'.keep
    BY <1>5 DEF PatchStep, PatchConditions, PatchObject, PatchStatus, NoCR, NewCR
  <2>2. pc' \notin DeletePCs /\ obj'.keep = obj.keep
    BY <1>1, <1>5, PatchMeta DEF PatchPCs, DeletePCs
  <2>3. ~obj'.ex => ~obj'.fin
    BY <1>1, <1>5, PatchMeta DEF HoldInv
  <2> QED
    BY <2>1, <2>2, <2>3 DEF HoldInv
<1>6. CASE EnvStep
  BY <1>1, <1>6, EnvKeepsIds, QuietFaults DEF HoldInv, workerVars
<1>7. CASE Cloud \/ Vanish \/ UNCHANGED vars
  BY <1>7, CloudLeavesKube DEF HoldInv, kubeVars, workerVars, vars
<1> QED
  BY <1>2, <1>3, <1>4, <1>5, <1>6, <1>7, NextSplit

\* Only the end of ReconcileDelete lets go of a cluster.
LEMMA LettingGo ==
    ASSUME QuietRuns, KnownInv, HoldInv, [Next]_vars, Free'
    PROVE  ~NormalStep /\ (Free \/ (DeletePrivateNetwork /\ ~mem'.fin))
<1>1. TypeInv /\ obj \in CR /\ mem \in CR /\ base \in CR
  BY DEF KnownInv, TypeInv, TypeOK
<1>2. ~NormalStep
  <2> SUFFICES ASSUME NormalStep PROVE FALSE
    OBVIOUS
  <2>1. obj'.fin /\ mem'.fin
    BY <1>1, NormalControl, NormalMeta
       DEF KnownInv, FinalizerInv, RunInv, MetaKept, kubeVars
  <2> QED
    BY <2>1 DEF Free, Removing
<1>3. CASE Start
  <2>1. obj' = obj /\ base' = obj /\ (obj.fin /\ ~mem'.fin => obj.keep)
    BY <1>1, <1>3, StartCopies, QuietFaults DEF kubeVars
  <2>2. ~Removing'
    BY <2>1 DEF Removing
  <2> QED
    BY <1>2, <2>1, <2>2 DEF Free
<1>4. CASE DeleteStep
  <2>1. UNCHANGED <<obj, base>> /\ pc \in DeletePCs /\ mem.fin
    BY <1>4, DeleteControl DEF kubeVars, HoldInv
  <2>2. CASE Removing'
    BY <1>1, <1>2, <1>4, <2>1, <2>2, DeleteRecords DEF Removing
  <2>3. CASE ~Removing'
    BY <1>2, <2>1, <2>3 DEF Free
  <2> QED
    BY <2>2, <2>3
<1>5. CASE PatchConditions \/ PatchStatus
  <2>1. /\ ConditionsWritten.fin = obj.fin /\ ConditionsWritten.ex = obj.ex
        /\ ConditionsWritten.keep = obj.keep
    BY <1>1 DEF ConditionsWritten, CR
  <2>2. /\ StatusWritten.fin = obj.fin /\ StatusWritten.ex = obj.ex
        /\ StatusWritten.keep = obj.keep
    BY <1>1 DEF StatusWritten, CR
  <2>3. obj'.fin = obj.fin /\ obj'.ex = obj.ex /\ obj'.keep = obj.keep
    BY <1>5, <2>1, <2>2, PatchWrites
  <2>4. Removing' => Removing
    BY <1>5 DEF PatchConditions, PatchStatus, Go, Removing
  <2> QED
    BY <1>2, <2>3, <2>4 DEF Free
<1>6. CASE PatchObject
  <2>1. ~Removing' /\ pc = "patch" /\ PatchStep
    BY <1>6 DEF PatchObject, Go, Removing, PatchStep
  <2>2. ~obj'.fin /\ (obj'.ex \/ ~obj'.keep) /\ obj'.keep = obj.keep
    BY <1>1, <2>1, PatchMeta DEF Free
  <2>3. CASE obj'.fin = obj.fin /\ obj'.ex = obj.ex
    BY <1>2, <2>2, <2>3 DEF Free
  <2>4. CASE /\ obj.ex /\ obj'.fin = Merged("fin")
             /\ obj'.ex = (~obj.del \/ Merged("fin"))
    <3>1. Merged("fin") = IF mem.fin # base.fin THEN mem.fin ELSE obj.fin
      BY DEF Merged
    <3>2. CASE mem.fin = base.fin
      BY <1>2, <2>2, <2>4, <3>1, <3>2 DEF Free
    <3>3. CASE mem.fin # base.fin
      <4>1. ~mem.fin /\ base.fin
        BY <1>1, <2>2, <2>4, <3>1, <3>3 DEF CR
      <4>2. obj.del
        BY <4>1 DEF KnownInv, FinalizerInv, RunInv, CopyInv
      <4>3. ~obj.keep
        BY <2>2, <2>4, <3>1, <3>3, <4>1, <4>2
      <4>4. Removing
        BY <2>1, <4>1, <4>3 DEF Removing, HoldInv
      <4> QED
        BY <1>2, <4>4 DEF Free
    <3> QED
      BY <3>2, <3>3
  <2> QED
    BY <1>1, <2>1, <2>3, <2>4, PatchMeta
<1>7. CASE EnvStep
  <2>1. /\ UNCHANGED workerVars /\ obj'.fin = obj.fin /\ (obj'.ex => obj.ex)
        /\ (~obj'.keep => ~obj.keep)
    BY <1>1, <1>7, EnvKeepsIds, QuietFaults
  <2> QED
    BY <1>2, <2>1 DEF Free, Removing, workerVars
<1>8. CASE Cloud \/ Vanish \/ UNCHANGED vars
  BY <1>2, <1>8, CloudLeavesKube DEF Free, Removing, kubeVars, workerVars, vars
<1> QED
  BY <1>2, <1>3, <1>4, <1>5, <1>6, <1>7, <1>8, NextSplit DEF PatchStep

\* No load balancer is left by a cluster that nothing holds.
LBInv ==
    /\ RecordedLB /\ ManagedNet /\ TouchedInv /\ HoldInv
    /\ Free => ~LBLeft

LEMMA LBStep ==
    ASSUME QuietRuns, KnownInv, LBInv, [Next]_vars
    PROVE  LBInv'
<1>1. TypeInv /\ mem \in CR /\ OwnLBs \subseteq LBs
  BY DEF KnownInv, TypeInv, TypeOK, OwnLBs
<1>2. RecordedLB' /\ ManagedNet' /\ TouchedInv' /\ HoldInv'
  BY RecordedLBStep, ManagedNetStep, TouchedStep, HoldStep DEF LBInv
<1>3. ASSUME Free' PROVE ~LBLeft'
  <2>1. ~NormalStep /\ (Free \/ (DeletePrivateNetwork /\ ~mem'.fin))
    BY <1>3, LettingGo DEF LBInv
  <2>2. \A l \in OwnLBs : lbs'[l] \notin GoingStatuses => lbs[l] \notin GoingStatuses
    BY <1>1, <2>1, LBFate DEF NormalStep
  <2>3. CASE Free
    BY <2>2, <2>3 DEF LBInv, LBLeft
  <2>4. CASE DeletePrivateNetwork /\ ~mem'.fin
    <3> SUFFICES ASSUME NEW l \in OwnLBs, lbs[l] \notin GoingStatuses PROVE FALSE
      BY <2>2 DEF LBLeft
    <3>1. LBExists(l) /\ lbs[l] # "PENDING_DELETE" /\ pc = "delNet"
      BY <2>4 DEF LBExists, GoingStatuses, DeletePrivateNetwork
    <3>2. NetLive /\ Latest = mem
      BY <3>1 DEF LBInv, TouchedInv, AfterLBPCs, Latest
    <3>3. DeletesNetwork(mem) /\ nets[mem.net] = "ACTIVE" /\ NetInUse(mem.net)
      BY <3>1, <3>2, ConstantsAssumption
         DEF NetLive, DeletesNetwork, NetInUse, LBInv, ManagedNet
    <3>4. mem' = mem
      BY <2>4, <3>3 DEF DeletePrivateNetwork
    <3> QED
      BY <2>4, <3>1, <3>4 DEF LBInv, HoldInv, DeletePCs
  <2> QED
    BY <2>1, <2>3, <2>4
<1> QED
  BY <1>2, <1>3 DEF LBInv

LEMMA LBInit == Init => LBInv
<1> SUFFICES ASSUME Init PROVE LBInv
  OBVIOUS
<1>1. \A l \in OwnLBs : lbs[l] = "none"
  BY DEF Init, OwnLBs
<1>2. \A l \in OwnLBs : \A p : <<l, p>> \notin listeners \union pools
  BY DEF Init, OwnLBs
<1>3. RecordedLB
  BY <1>1 DEF Init, RecordedLB, LBExists
<1>4. ManagedNet
  BY DEF Init, ManagedNet, Latest, NewCR, OnLBPCs
<1>5. TouchedInv
  BY <1>1, <1>2 DEF Init, TouchedInv, Touched, LBExists
<1>6. HoldInv
  BY DEF Init, HoldInv, NewCR, NoCR, DeletePCs
<1>7. ~LBLeft
  BY <1>1 DEF LBLeft, GoingStatuses
<1> QED
  BY <1>3, <1>4, <1>5, <1>6, <1>7 DEF LBInv

LEMMA LBCorrect ==
    ASSUME QuietRuns
    PROVE  Spec => [](KnownInv /\ LBInv)
<1>1. KnownInv /\ LBInv /\ [Next]_vars => LBInv'
  BY LBStep
<1> QED
  BY <1>1, KnownCorrect, LBInit, PTL DEF Spec

-----------------------------------------------------------------------------
(* The contract.  Every step of the controller, of the user or of OVH is a   *)
(* step of ManagedResources for the load balancers, or none.                 *)

Life  == [c \in {"cluster"} |-> LifeOf]
Res   == [l \in LBs |-> FateOf(l)]
Title == [l \in LBs |-> IF l \in OtherLBs THEN {} ELSE {"cluster"}]
Known == [c \in {"cluster"} |-> {l \in OwnLBs : lbs[l] # "none"}]

\* What the contract sees of a step: nothing, or one of its actions.
Step == [Contract!Next]_(Contract!vars)

LEMMA ContractStutters ==
    ASSUME LifeOf' = LifeOf, Res' = Res, Known' = Known
    PROVE  Step
BY DEF Step, Contract!vars, Life, Res, Title, Known

LEMMA ContractSteps ==
    ASSUME \/ Contract!Live("cluster") \/ Contract!Release("cluster")
           \/ \E l \in LBs : \/ Contract!Create("cluster", l) \/ Contract!Terminate("cluster", l)
                             \/ Contract!End(l)
    PROVE  Step
<1>1. Contract!Next
  BY DEF Contract!Next
<1> QED
  BY <1>1 DEF Step

LEMMA SameLife ==
    ASSUME obj'.ex = obj.ex, obj'.fin = obj.fin, obj'.del = obj.del, obj'.keep = obj.keep,
           kept' = kept
    PROVE  LifeOf' = LifeOf
BY DEF LifeOf

\* The fates by status.
LEMMA Fates ==
    ASSUME NEW l \in LBs, lbs \in [LBs -> LBStatuses]
    PROVE  /\ FateOf(l) = "none" <=> lbs[l] = "none"
           /\ FateOf(l) = "ending" <=> lbs[l] = "PENDING_DELETE"
           /\ FateOf(l) = "ended" <=> lbs[l] = "gone"
           /\ FateOf(l) = "running" <=> lbs[l] \notin GoingStatuses
<1>1. CASE lbs[l] = "none"
  BY <1>1 DEF FateOf, GoingStatuses
<1>2. CASE lbs[l] = "PENDING_DELETE"
  BY <1>2 DEF FateOf, GoingStatuses
<1>3. CASE lbs[l] = "gone"
  BY <1>3 DEF FateOf, GoingStatuses
<1>4. CASE lbs[l] \notin GoingStatuses
  BY <1>4 DEF FateOf, GoingStatuses
<1> QED
  BY <1>1, <1>2, <1>3, <1>4 DEF GoingStatuses

\* Nothing happens to the load balancers that the contract speaks of.
FatesSame ==
    \A l \in LBs : lbs'[l] = lbs[l] \/ (lbs[l] \notin GoingStatuses /\ lbs'[l] \notin GoingStatuses)

LEMMA SameFates ==
    ASSUME TypeInv, TypeInv', FatesSame
    PROVE  Res' = Res /\ Known' = Known
<1>1. lbs \in [LBs -> LBStatuses] /\ lbs' \in [LBs -> LBStatuses] /\ OwnLBs \subseteq LBs
  BY DEF TypeInv, TypeOK, OwnLBs
<1>2. ASSUME NEW l \in LBs PROVE FateOf(l)' = FateOf(l) /\ (lbs[l] = "none" <=> lbs'[l] = "none")
  BY <1>1, <1>2 DEF FatesSame, FateOf, GoingStatuses
<1>3. Res' = Res
  BY <1>2 DEF Res
<1>4. Known' = Known
  BY <1>1, <1>2 DEF Known
<1> QED
  BY <1>3, <1>4

\* One load balancer's fate moves.
LEMMA OneFate ==
    ASSUME TypeInv, TypeInv', NEW k \in LBs, \A l \in LBs \ {k} : lbs'[l] = lbs[l]
    PROVE  Res' = [Res EXCEPT ![k] = FateOf(k)'] /\ Res[k] = FateOf(k)
<1>1. ASSUME NEW l \in LBs \ {k} PROVE FateOf(l)' = FateOf(l)
  BY <1>1 DEF FateOf
<1> QED
  BY <1>1 DEF Res

\* The life of the cluster moves, in a way the contract allows.
LEMMA LifeMoves ==
    ASSUME KnownInv, TypeInv', lbs' = lbs,
           \/ LifeOf' = LifeOf
           \/ <<LifeOf, LifeOf'>> \in Contract!LifeStep
           \/ LifeOf = "doomed" /\ LifeOf' = "released" /\ ~LBLeft
    PROVE  Step
<1>1. Res' = Res /\ Known' = Known /\ TypeInv /\ lbs \in [LBs -> LBStatuses] /\ OwnLBs \subseteq LBs
  BY SameFates DEF FatesSame, KnownInv, TypeInv, TypeOK, OwnLBs
<1>2. CASE LifeOf' = LifeOf
  BY <1>1, <1>2, ContractStutters
<1>3. Life' = [Life EXCEPT !["cluster"] = LifeOf'] /\ Life["cluster"] = LifeOf
  BY DEF Life
<1>4. CASE <<LifeOf, LifeOf'>> \in Contract!LifeStep
  <2>1. LifeOf' \in Contract!Lives
    BY DEF LifeOf, Contract!Lives
  <2>2. Contract!Live("cluster")
    BY <1>1, <1>3, <1>4, <2>1 DEF Contract!Live, Life, Res, Title, Known
  <2> QED
    BY <2>2, ContractSteps
<1>5. CASE LifeOf = "doomed" /\ LifeOf' = "released" /\ ~LBLeft
  <2>1. \A l \in Known["cluster"] : Res[l] \in {"ending", "ended"}
    <3> SUFFICES ASSUME NEW l \in OwnLBs, lbs[l] # "none"
                 PROVE  FateOf(l) \in {"ending", "ended"}
      BY <1>1 DEF Known, Res
    <3>1. lbs[l] \in {"PENDING_DELETE", "gone"} /\ l \in LBs
      BY <1>1, <1>5 DEF LBLeft, GoingStatuses
    <3> QED
      BY <1>1, <3>1, Fates
  <2>2. Contract!Release("cluster")
    BY <1>1, <1>3, <1>5, <2>1 DEF Contract!Release, Life, Res, Title, Known
  <2> QED
    BY <2>2, ContractSteps
<1> QED
  BY <1>2, <1>4, <1>5

LEMMA UserLife ==
    ASSUME KnownInv, TypeInv', UserDelete \/ UserKeep
    PROVE  Step
<1>1. obj \in CR /\ lbs' = lbs /\ (kept => obj.del /\ obj.keep)
  BY DEF KnownInv, TypeInv, TypeOK, UserDelete, UserKeep, cloudStays, lbVars, FinalizerInv, CopyInv
<1>2. CASE UserDelete
  <2>1. /\ obj'.del /\ obj'.ex = obj.fin /\ obj'.fin = obj.fin /\ obj'.keep = obj.keep
        /\ kept' = obj.keep /\ obj.ex /\ ~obj.del
    BY <1>1, <1>2 DEF UserDelete, CR
  <2>2. CASE obj.fin
    <3>1. LifeOf = "held" /\ LifeOf' \in {"kept", "doomed"}
      BY <2>1, <2>2 DEF LifeOf
    <3> QED
      BY <1>1, <3>1, LifeMoves DEF Contract!LifeStep
  <2>3. CASE ~obj.fin
    <3>1. LifeOf = "new" /\ LifeOf' \in {"released", "left"}
      BY <1>1, <2>1, <2>3 DEF LifeOf, CR
    <3> QED
      BY <1>1, <3>1, LifeMoves DEF Contract!LifeStep
  <2> QED
    BY <2>2, <2>3
<1>3. CASE UserKeep
  <2>1. /\ obj'.del = obj.del /\ obj'.ex = obj.ex /\ obj'.fin = obj.fin /\ obj'.keep
        /\ kept' = kept /\ obj.ex /\ ~obj.keep
    BY <1>1, <1>3 DEF UserKeep, CR
  <2>2. LifeOf' = LifeOf \/ (LifeOf = "doomed" /\ LifeOf' = "spared")
    BY <1>1, <2>1 DEF LifeOf
  <2> QED
    BY <1>1, <2>2, LifeMoves DEF Contract!LifeStep
<1> QED
  BY <1>2, <1>3

LEMMA PatchLife ==
    ASSUME QuietRuns, KnownInv, LBInv, TypeInv', PatchObject
    PROVE  Step
<1>1. /\ obj \in CR /\ mem \in CR /\ base \in CR /\ TypeInv
      /\ lbs' = lbs /\ PatchStep /\ pc = "patch"
  BY DEF KnownInv, TypeInv, TypeOK, PatchObject, PatchStep, inPatch, lbVars
<1>2. obj'.del = obj.del /\ obj'.keep = obj.keep /\ kept' = kept
  BY <1>1, PatchMeta
<1>3. CASE obj'.fin = obj.fin /\ obj'.ex = obj.ex
  BY <1>1, <1>2, <1>3, SameLife, LifeMoves
<1>4. CASE /\ obj.ex /\ obj'.fin = Merged("fin")
           /\ obj'.ex = (~obj.del \/ Merged("fin"))
  <2>1. Merged("fin") = IF mem.fin # base.fin THEN mem.fin ELSE obj.fin
    BY DEF Merged
  <2>2. obj.del => obj.fin
    BY <1>4 DEF KnownInv, HeldInv
  <2>3. CASE obj'.fin = obj.fin
    <3>1. obj'.ex = obj.ex
      BY <1>1, <1>4, <2>2, <2>3 DEF CR
    <3> QED
      BY <1>3, <2>3, <3>1
  <2>4. CASE obj'.fin /\ ~obj.fin
    <3>1. LifeOf = "new" /\ LifeOf' = "held"
      BY <1>2, <1>4, <2>2, <2>4 DEF LifeOf
    <3> QED
      BY <1>1, <3>1, LifeMoves DEF Contract!LifeStep
  <2>5. CASE ~obj'.fin /\ obj.fin
    <3>1. base.fin /\ ~mem.fin
      BY <1>1, <1>4, <2>1, <2>5 DEF CR
    <3>2. obj.del /\ ~obj'.ex
      BY <1>4, <2>5, <3>1 DEF KnownInv, FinalizerInv, RunInv, CopyInv
    <3>3. CASE kept
      <4>1. LifeOf = "kept" /\ LifeOf' = "left"
        BY <1>2, <1>4, <2>5, <3>2, <3>3 DEF LifeOf
      <4> QED
        BY <1>1, <4>1, LifeMoves DEF Contract!LifeStep
    <3>4. CASE ~kept /\ obj.keep
      <4>1. LifeOf = "spared" /\ LifeOf' = "released"
        BY <1>2, <1>4, <2>5, <3>2, <3>4 DEF LifeOf
      <4> QED
        BY <1>1, <4>1, LifeMoves DEF Contract!LifeStep
    <3>5. CASE ~kept /\ ~obj.keep
      <4>1. LifeOf = "doomed" /\ LifeOf' = "released"
        BY <1>2, <1>4, <2>5, <3>2, <3>5 DEF LifeOf
      <4>2. ~LBLeft
        BY <1>1, <3>1, <3>5 DEF LBInv, HoldInv, Free, Removing
      <4> QED
        BY <1>1, <4>1, <4>2, LifeMoves
    <3> QED
      BY <3>3, <3>4, <3>5
  <2>6. obj.fin \in BOOLEAN /\ obj'.fin \in BOOLEAN
    BY <1>1, <1>4, <2>1 DEF CR
  <2> QED
    BY <2>3, <2>4, <2>5, <2>6
<1> QED
  BY <1>1, <1>3, <1>4, PatchMeta

\* A load balancer is made.
LEMMA CreateFate ==
    ASSUME QuietRuns, OtherLBs = {}, KnownInv, TypeInv', CreateLoadBalancer
    PROVE  Step
<1>1. /\ UNCHANGED kubeVars /\ TypeInv /\ lbs \in [LBs -> LBStatuses] /\ OwnLBs \subseteq LBs
      /\ lbs' \in [LBs -> LBStatuses]
  BY DEF CreateLoadBalancer, inReconcile, KnownInv, TypeInv, TypeOK, OwnLBs
<1>2. LifeOf' = LifeOf
  BY <1>1, SameLife DEF kubeVars
<1>3. CASE lbs' = lbs
  BY <1>1, <1>2, <1>3, SameFates, ContractStutters DEF FatesSame
<1>4. CASE NewLB("PENDING_CREATE")
  <2>1. PICK k \in OwnLBs : lbs[k] = "none" /\ lbs' = [lbs EXCEPT ![k] = "PENDING_CREATE"]
    BY <1>4 DEF NewLB
  <2>2. k \in LBs /\ lbs'[k] = "PENDING_CREATE" /\ \A l \in LBs \ {k} : lbs'[l] = lbs[l]
    BY <1>1, <2>1
  <2>3. FateOf(k) = "none" /\ FateOf(k)' = "running"
    BY <1>1, <2>1, <2>2 DEF FateOf
  <2>5. Res[k] = "none" /\ Res' = [Res EXCEPT ![k] = "running"]
    BY <1>1, <2>2, <2>3, OneFate
  <2>6. Known' = [Known EXCEPT !["cluster"] = @ \union {k}]
    <3>1. {l \in OwnLBs : lbs'[l] # "none"} = {l \in OwnLBs : lbs[l] # "none"} \union {k}
      BY <1>1, <2>1, <2>2
    <3> QED
      BY <3>1 DEF Known
  <2>7. Title = [Title EXCEPT ![k] = {"cluster"}]
    BY <2>2 DEF Title
  <2>8. Life' = Life /\ Life["cluster"] \in {"held", "kept", "spared", "doomed"}
    <3>1. obj.ex /\ obj.fin
      BY DEF KnownInv, FinalizerInv, RunInv, CreateLoadBalancer, NormalPCs
    <3> QED
      BY <1>2, <3>1 DEF Life, LifeOf
  <2>9. Contract!Create("cluster", k)
    BY <2>5, <2>6, <2>7, <2>8
       DEF Contract!Create, Contract!Present, Life, Res, Title, Known
  <2> QED
    BY <2>2, <2>9, ContractSteps
<1> QED
  BY <1>3, <1>4, QuietFaults DEF CreateLoadBalancer

\* A load balancer is deleted.
LEMMA DoomFate ==
    ASSUME QuietRuns, OtherLBs = {}, KnownInv, TypeInv', DeleteLoadBalancer \/ DeleteOrphans
    PROVE  Step
<1>1. /\ UNCHANGED kubeVars /\ TypeInv /\ lbs \in [LBs -> LBStatuses] /\ OwnLBs \subseteq LBs
      /\ lbs' \in [LBs -> LBStatuses] /\ pc \in DeletePCs
  BY DEF DeleteLoadBalancer, DeleteOrphans, inReconcile, DeletePCs, KnownInv, TypeInv, TypeOK,
     OwnLBs
<1>2. LifeOf' = LifeOf
  BY <1>1, SameLife DEF kubeVars
<1>3. CASE lbs' = lbs
  BY <1>1, <1>2, <1>3, SameFates, ContractStutters DEF FatesSame
<1>4. CASE lbs' # lbs
  <2>1. PICK k \in LBs : /\ lbs[k] = "ACTIVE" /\ lbs'[k] = "PENDING_DELETE"
                         /\ \A l \in LBs \ {k} : lbs'[l] = lbs[l]
    <3>1. CASE DeleteLoadBalancer
      <4>1. lbs' = Doom({mem.lb})
        BY <1>4, <3>1 DEF DeleteLoadBalancer
      <4>2. mem.lb \in LBs /\ lbs[mem.lb] = "ACTIVE"
        BY <1>1, <1>4, <4>1 DEF Doom
      <4> QED
        BY <1>1, <4>1, <4>2 DEF Doom
    <3>2. CASE DeleteOrphans
      <4>1. lbs' = Doom(OwnLBs)
        BY <1>4, <3>2 DEF DeleteOrphans, PrefixLBs
      <4>2. PICK k \in OwnLBs : lbs[k] = "ACTIVE"
        BY <1>1, <1>4, <4>1 DEF Doom
      <4>3. \A l \in OwnLBs : lbs[l] = "ACTIVE" => l = k
        BY <4>2 DEF KnownInv, OneLBInv, NoDuplicateLB, LBExists
      <4>4. \A l \in LBs \ {k} : lbs'[l] = lbs[l]
        BY <4>1, <4>3 DEF Doom
      <4> QED
        BY <1>1, <4>1, <4>2, <4>4 DEF Doom
    <3> QED
      BY <3>1, <3>2
  <2>2. FateOf(k) = "running" /\ FateOf(k)' = "ending"
    BY <2>1 DEF FateOf
  <2>3. Res[k] = "running" /\ Res' = [Res EXCEPT ![k] = "ending"]
    BY <1>1, <2>1, <2>2, OneFate
  <2>4. Known' = Known
    <3>1. \A l \in OwnLBs : lbs'[l] # "none" <=> lbs[l] # "none"
      BY <1>1, <2>1
    <3> QED
      BY <3>1 DEF Known
  <2>5. Life' = Life /\ Life["cluster"] \in {"doomed", "spared", "released"}
    <3>1. obj.del /\ ~kept /\ (obj.ex => obj.fin)
      BY <1>1 DEF KnownInv, FinalizerInv, RunInv, CopyInv, HeldInv
    <3> QED
      BY <1>2, <3>1 DEF Life, LifeOf
  <2>6. "cluster" \in Title[k]
    BY DEF Title
  <2>7. Contract!Terminate("cluster", k)
    BY <2>3, <2>4, <2>5, <2>6 DEF Contract!Terminate, Life, Res, Title, Known
  <2> QED
    BY <2>7, ContractSteps
<1> QED
  BY <1>3, <1>4

\* A load balancer goes.
LEMMA EndFate ==
    ASSUME KnownInv, TypeInv', Cloud \/ Vanish
    PROVE  Step
<1>1. /\ UNCHANGED kubeVars /\ TypeInv /\ lbs \in [LBs -> LBStatuses] /\ OwnLBs \subseteq LBs
      /\ lbs' \in [LBs -> LBStatuses]
  BY CloudLeavesKube DEF KnownInv, TypeInv, TypeOK, OwnLBs
<1>2. LifeOf' = LifeOf
  BY <1>1, SameLife DEF kubeVars
<1>3. CASE FatesSame
  BY <1>1, <1>2, <1>3, SameFates, ContractStutters
<1>4. ASSUME NEW k \in LBs, lbs[k] \in {"ACTIVE", "PENDING_DELETE"}, LBGone(k)
      PROVE  Step
  <2>1. lbs'[k] = "gone" /\ \A l \in LBs \ {k} : lbs'[l] = lbs[l]
    BY <1>1, <1>4 DEF LBGone
  <2>2. FateOf(k) \in {"running", "ending"} /\ FateOf(k)' = "ended"
    BY <1>4, <2>1 DEF FateOf
  <2>3. Res[k] \in {"running", "ending"} /\ Res' = [Res EXCEPT ![k] = "ended"]
    BY <1>1, <2>1, <2>2, OneFate
  <2>4. Known' = Known
    <3>1. \A l \in OwnLBs : lbs'[l] # "none" <=> lbs[l] # "none"
      BY <1>1, <1>4, <2>1
    <3> QED
      BY <3>1 DEF Known
  <2>5. Life' = Life
    BY <1>2 DEF Life
  <2>6. Contract!End(k)
    BY <2>3, <2>4, <2>5 DEF Contract!End, Life, Res, Title, Known
  <2> QED
    BY <2>6, ContractSteps
<1>5. CASE Cloud
  <2>1. ASSUME NEW k \in LBs, LBProgress(k) PROVE Step
    <3>1. CASE lbs[k] = "PENDING_DELETE" /\ LBGone(k)
      BY <1>4, <3>1
    <3>2. CASE ~(lbs[k] = "PENDING_DELETE" /\ LBGone(k))
      <4>1. FatesSame
        BY <1>1, <2>1, <3>2 DEF LBProgress, FatesSame, GoingStatuses
      <4> QED
        BY <1>3, <4>1
    <3> QED
      BY <3>1, <3>2
  <2>2. CASE lbs' = lbs
    BY <1>3, <2>2 DEF FatesSame
  <2> QED
    BY <1>5, <2>1, <2>2 DEF Cloud, NetProgress, FIPProgress, lbVars
<1>6. CASE Vanish
  <2>1. CASE lbs' = lbs
    BY <1>3, <2>1 DEF FatesSame
  <2>2. CASE \E k \in OwnLBs : lbs[k] = "ACTIVE" /\ LBGone(k)
    BY <1>1, <1>4, <2>2
  <2> QED
    BY <1>6, <2>1, <2>2 DEF Vanish, lbVars
<1> QED
  BY <1>5, <1>6

\* The other steps are none of the contract's.
LEMMA NoneOfContract ==
    ASSUME KnownInv, TypeInv', [Next]_vars,
           ~(UserDelete \/ UserKeep \/ PatchObject \/ CreateLoadBalancer \/ RepostLoadBalancer
               \/ DeleteLoadBalancer \/ DeleteOrphans \/ Cloud \/ Vanish)
    PROVE  Step
<1>1. TypeInv /\ obj \in CR /\ lbs \in [LBs -> LBStatuses]
  BY DEF KnownInv, TypeInv, TypeOK
<1>2. LifeOf' = LifeOf
  <2>1. CASE UNCHANGED kubeVars
    BY <2>1, SameLife DEF kubeVars
  <2>2. CASE PatchConditions \/ PatchStatus
    <3>1. /\ ConditionsWritten.fin = obj.fin /\ ConditionsWritten.ex = obj.ex
      BY <1>1 DEF ConditionsWritten, CR
    <3>2. /\ StatusWritten.fin = obj.fin /\ StatusWritten.ex = obj.ex
      BY <1>1 DEF StatusWritten, CR
    <3>3. obj'.fin = obj.fin /\ obj'.ex = obj.ex
      BY <2>2, <3>1, <3>2, PatchWrites
    <3> QED
      BY <1>1, <2>2, <3>3, PatchMeta, SameLife DEF PatchStep
  <2>3. CASE CacheSync \/ Crash \/ SetOwner
    BY <2>3, SameLife DEF CacheSync, Crash, SetOwner
  <2>4. CASE EditNetwork
    <3>1. /\ obj'.ex = obj.ex /\ obj'.fin = obj.fin /\ obj'.del = obj.del
          /\ obj'.keep = obj.keep /\ kept' = kept
      BY <1>1, <2>4 DEF EditNetwork, CR
    <3> QED
      BY <3>1, SameLife
  <2>5. CASE Start
    BY <2>1, <2>5 DEF Start, ReconcileStops, AddFinalizer, ReconcileNormal,
       ReconcileDeleteKeep, ReconcileDelete, Begin
  <2> QED
    BY <2>1, <2>2, <2>3, <2>4, <2>5, NextSplit, NormalControl, DeleteControl
       DEF PatchStep, EnvStep, vars
<1>3. FatesSame
  <2>1. CASE lbs' = lbs
    BY <2>1 DEF FatesSame
  <2>2. CASE Start \/ PatchStep \/ EnvStep \/ UNCHANGED vars
    BY <2>1, <2>2
       DEF Start, ReconcileStops, AddFinalizer, ReconcileNormal, ReconcileDeleteKeep,
           ReconcileDelete, Begin, PatchStep, PatchConditions, PatchObject, PatchStatus,
           inPatch, EnvStep, CacheSync, Crash, UserDelete, UserKeep, SetOwner, EditNetwork,
           cloudStays, vars, lbVars
  <2>3. CASE EnsureListener \/ EnsurePool \/ EnsurePoolHealthMonitor
    BY <1>1, <2>3 DEF EnsureListener, EnsurePool, EnsurePoolHealthMonitor, PostListener,
       PostPool, PostMonitor, Mutable, Touch, FatesSame, GoingStatuses
  <2>4. CASE DeletePool \/ DeleteListener
    BY <1>1, <2>4 DEF DeletePool, DeleteListener, DropPool, DropListener, Mutable, Touch,
       FatesSame, GoingStatuses
  <2>5. CASE NormalStep /\ ~(EnsureListener \/ EnsurePool \/ EnsurePoolHealthMonitor)
    BY <2>1, <2>5
       DEF NormalStep, UseKnownNetwork, CreatePrivateNetwork, GetPrivateNetwork, EnsureSubnet,
           ReconcileSecurityGroups, ReconcileLoadBalancer, PollLoadBalancer,
           FloatingIPOnLB, FloatingIPNotOnLB, GetFloatingIP, ListFloatingIPs,
           CreateLoadBalancerFloatingIP, EnsureGatewayExposed, RefreshFloatingIP,
           ReconcileDNS, CallFails, lbVars
  <2>6. CASE DeleteStep /\ ~(DeletePool \/ DeleteListener)
    BY <2>1, <2>6
       DEF DeleteStep, DeleteDNSRecord, DeleteSecurityGroup, CaptureFloatingIPs,
           CleanupFloatingIP, CleanupFloatingIPsDone, DeleteGateway, DeletePrivateNetwork,
           lbVars
  <2> QED
    BY <2>2, <2>3, <2>4, <2>5, <2>6, NextSplit
<1> QED
  BY <1>1, <1>2, <1>3, SameFates, ContractStutters

LEMMA ContractInit == Init => Contract!Init
<1> SUFFICES ASSUME Init PROVE Contract!Init
  OBVIOUS
<1>1. Life = [c \in {"cluster"} |-> "new"]
  BY DEF Init, Life, LifeOf, NewCR
<1>2. \A l \in LBs : FateOf(l) \in {"none", "running"}
  BY DEF Init, FateOf
<1>3. Title \in [LBs -> SUBSET {"cluster"}]
  BY DEF Title
<1>4. Known = [c \in {"cluster"} |-> {}]
  BY DEF Init, Known, OwnLBs
<1> QED
  BY <1>1, <1>2, <1>3, <1>4 DEF Contract!Init, Life, Res, Title, Known

\* The controller keeps the contract of ManagedResources for the load balancer of a
\* cluster whose network it makes itself, when no other cluster's name extends this
\* one's and OVH answers every call: it creates it under the finalizer, deletes it
\* only for a cluster deleted without keep, and lets the cluster go only once it is
\* going.  Somebody may delete the load balancer or the network at any time.
THEOREM KeepsContract ==
    ASSUME QuietRuns, OtherLBs = {}
    PROVE  Spec => ImplementsContract
<1>1. KnownInv /\ KnownInv' /\ LBInv /\ [Next]_vars => [Contract!Next]_(Contract!vars)
  <2> SUFFICES ASSUME KnownInv, KnownInv', LBInv, [Next]_vars PROVE Step
    BY DEF Step
  <2>1. TypeInv' /\ ~RepostLoadBalancer
    BY DEF KnownInv, OneLBInv, RepostLoadBalancer
  <2> QED
    BY <2>1, UserLife, PatchLife, CreateFate, DoomFate, EndFate, NoneOfContract
<1> QED
  BY <1>1, LBCorrect, ContractInit, PTL DEF Spec, ImplementsContract, Contract!Spec

-----------------------------------------------------------------------------
(* A deletion leaves nothing, for a cluster without a floating IP.           *)

\* What there is besides load balancers.
RestLeft ==
    \/ \E n \in Nets \ {UserNet} : NetThere(n)
    \/ sgroup # "none" \/ records # 0

NoFloatingIP ==
    /\ gateway = "none" /\ \A l \in LBs : fips[l] = "none"
    /\ pc \in OnLBPCs => pc \in {"listener", "pool", "monitor", "dns"}

RestInv ==
    /\ NoFloatingIP
    /\ sgroup # "none" => Latest.sg
    /\ pc \in DeletePCs \ {"delDNS"} => records = 0
    /\ pc \in DeletePCs \ {"delDNS", "delSG"} => sgroup = "none"
    /\ Free => ~RestLeft

LEMMA NoFloatingIPStep ==
    ASSUME QuietRuns, ~FloatingNetwork, KnownInv, NoFloatingIP, [Next]_vars
    PROVE  NoFloatingIP'
<1>1. fips \in [FIPs -> FIPStatuses] /\ LBs \subseteq FIPs /\ fips' \in [FIPs -> FIPStatuses]
  BY TypeStep DEF KnownInv, TypeInv, TypeOK, FIPs
<1>2. CASE Start \/ PatchStep \/ EnvStep \/ UNCHANGED vars
  <2>1. UNCHANGED <<fips, gateway>>
    BY <1>2
       DEF Start, ReconcileStops, AddFinalizer, ReconcileNormal, ReconcileDeleteKeep,
           ReconcileDelete, Begin, PatchStep, PatchConditions, PatchObject, PatchStatus,
           inPatch, EnvStep, CacheSync, Crash, UserDelete, UserKeep, SetOwner, EditNetwork,
           cloudStays, vars, restVars
  <2> QED
    BY <1>2, <2>1, OtherFlow DEF NoFloatingIP, OnLBPCs, PatchPCs
<1>3. CASE Cloud \/ Vanish
  <2>1. pc' = pc /\ gateway' = gateway
    BY <1>3, CloudLeavesKube
       DEF workerVars, Cloud, Vanish, NetProgress, LBProgress, FIPProgress, restVars
  <2>2. ASSUME NEW k \in LBs, LBGone(k) PROVE \A l \in LBs : fips'[l] = "none"
    BY <1>1, <2>2 DEF LBGone, NoFloatingIP
  <2>3. \A l \in LBs : fips'[l] = "none"
    <3>1. CASE fips' = fips
      BY <3>1 DEF NoFloatingIP
    <3>2. ASSUME NEW k \in LBs, LBProgress(k) PROVE fips' = fips \/ LBGone(k)
      BY <3>2 DEF LBProgress
    <3>3. ASSUME NEW f \in FIPs, FIPProgress(f) PROVE \A l \in LBs : fips'[l] = "none"
      BY <1>1, <3>3 DEF FIPProgress, NoFloatingIP
    <3>4. CASE Vanish
      BY <2>2, <3>1, <3>4 DEF Vanish, OwnLBs
    <3>5. ASSUME NEW n \in Nets, NetProgress(n) PROVE fips' = fips
      BY <3>5 DEF NetProgress, restVars
    <3> QED
      BY <1>3, <2>2, <3>1, <3>2, <3>3, <3>4, <3>5 DEF Cloud
  <2> QED
    BY <2>1, <2>3 DEF NoFloatingIP
<1>4. CASE DeleteStep
  <2>1. pc' \notin OnLBPCs
    BY <1>4, DeleteControl DEF DeletePCs, OnLBPCs
  <2>2. CASE ~(DeleteGateway \/ \E f \in FIPs : CleanupFloatingIP(f))
    BY <1>4, <2>1, <2>2
       DEF DeleteStep, DeleteDNSRecord, DeleteSecurityGroup, CaptureFloatingIPs, DeletePool,
           DeleteListener, DeleteLoadBalancer, DeleteOrphans, CleanupFloatingIPsDone,
           DeletePrivateNetwork, restVars, NoFloatingIP
  <2>3. ASSUME NEW f \in FIPs, CleanupFloatingIP(f) PROVE NoFloatingIP'
    <3>1. \A l \in LBs : fips'[l] = "none"
      BY <1>1, <2>3 DEF CleanupFloatingIP, DropFloatingIP, NoFloatingIP
    <3> QED
      BY <2>1, <2>3, <3>1 DEF CleanupFloatingIP, NoFloatingIP
  <2>4. CASE DeleteGateway
    BY <2>1, <2>4 DEF DeleteGateway, DropGateway, NoFloatingIP
  <2> QED
    BY <2>2, <2>3, <2>4
<1>5. CASE NormalStep
  <2>1. CASE EnsureListener \/ EnsurePool \/ EnsurePoolHealthMonitor \/ ReconcileDNS
    BY <2>1 DEF EnsureListener, EnsurePool, EnsurePoolHealthMonitor, ReconcileDNS, AfterMonitor,
       Go, Return, restVars, NoFloatingIP, OnLBPCs
  <2>2. CASE \/ UseKnownNetwork \/ CreatePrivateNetwork \/ GetPrivateNetwork \/ EnsureSubnet
             \/ ReconcileSecurityGroups
    BY <2>2, QuietFaults DEF UseKnownNetwork, CreatePrivateNetwork, GetPrivateNetwork,
       EnsureSubnet, ReconcileSecurityGroups, Go, Return, restVars, NoFloatingIP, OnLBPCs
  <2>3. CASE ReconcileLoadBalancer \/ CreateLoadBalancer \/ PollLoadBalancer
    BY <2>3, QuietFaults DEF ReconcileLoadBalancer, CreateLoadBalancer, PollLoadBalancer, Go,
       Return, restVars, NoFloatingIP, OnLBPCs
  <2>4. ~(\/ FloatingIPOnLB \/ FloatingIPNotOnLB \/ GetFloatingIP \/ ListFloatingIPs
          \/ CreateLoadBalancerFloatingIP \/ EnsureGatewayExposed \/ RefreshFloatingIP)
    BY DEF FloatingIPOnLB, FloatingIPNotOnLB, GetFloatingIP, ListFloatingIPs,
       CreateLoadBalancerFloatingIP, EnsureGatewayExposed, RefreshFloatingIP, NoFloatingIP,
       OnLBPCs
  <2>5. ~RepostLoadBalancer /\ ~CallFails
    BY QuietFaults DEF KnownInv, OneLBInv, RepostLoadBalancer
  <2> QED
    BY <1>5, <2>1, <2>2, <2>3, <2>4, <2>5 DEF NormalStep
<1> QED
  BY <1>2, <1>3, <1>4, <1>5, NextSplit

\* The order of ReconcileDelete.
LEMMA DeleteFlow ==
    ASSUME DeleteStep
    PROVE  /\ pc' = "delDNS" => FALSE
           /\ pc = "delDNS" => DeleteDNSRecord
           /\ pc = "delSG" => DeleteSecurityGroup
           /\ pc' = "delSG" => DeleteDNSRecord
BY DEF DeleteStep, DeleteDNSRecord, DeleteSecurityGroup, CaptureFloatingIPs, DeletePool,
   DeleteListener, DeleteLoadBalancer, DeleteOrphans, CleanupFloatingIP,
   CleanupFloatingIPsDone, DeleteGateway, DeletePrivateNetwork, Go, Return

LEMMA RestStep ==
    ASSUME QuietRuns, ~FloatingNetwork, KnownInv, LBInv, RestInv, [Next]_vars
    PROVE  RestInv'
<1>1. /\ TypeInv /\ mem \in CR /\ nets \in [Nets -> NetStatuses] /\ records \in Nat
      /\ None \notin Nets
  BY ConstantsAssumption DEF KnownInv, TypeInv, TypeOK
<1>2. NoFloatingIP'
  BY NoFloatingIPStep DEF RestInv
<1>3. sgroup' # "none" => Latest'.sg
  <2>1. CASE Start \/ PatchStep \/ EnvStep \/ Cloud \/ Vanish \/ UNCHANGED vars
    <3>1. RecordKept
      BY <2>1, RecordStays, QuietFaults DEF KnownInv
    <3>2. sgroup' = sgroup
      BY <2>1
         DEF Start, ReconcileStops, AddFinalizer, ReconcileNormal, ReconcileDeleteKeep,
             ReconcileDelete, Begin, PatchStep, PatchConditions, PatchObject, PatchStatus,
             inPatch, EnvStep, CacheSync, Crash, UserDelete, UserKeep, SetOwner, EditNetwork,
             cloudStays, Cloud, Vanish, NetProgress, LBProgress, FIPProgress, vars, restVars
    <3> QED
      BY <3>1, <3>2 DEF RestInv, RecordKept
  <2>2. CASE NormalStep \/ DeleteStep
    <3>1. Latest = mem /\ Latest' = mem'
      BY <2>2, NormalControl, DeleteControl DEF NormalPCs, DeletePCs, Latest
    <3>2. CASE ReconcileSecurityGroups
      BY <1>1, <3>1, <3>2, QuietFaults DEF ReconcileSecurityGroups, RestInv, CR
    <3>3. CASE DeleteSecurityGroup
      BY <3>1, <3>3, QuietFaults DEF DeleteSecurityGroup, DropGroup, RestInv
    <3>4. CASE ~(ReconcileSecurityGroups \/ DeleteSecurityGroup)
      BY <1>1, <2>2, <3>1, <3>4, WhoMakes, WhoRecords DEF RestInv
    <3> QED
      BY <3>2, <3>3, <3>4
  <2> QED
    BY <2>1, <2>2, NextSplit
<1>4. ASSUME pc' \in DeletePCs \ {"delDNS"} PROVE records' = 0
  <2>1. CASE DeleteDNSRecord
    <3>1. records = 0 \/ (records = 1 /\ mem.dns /\ DNSConfig)
      BY <1>1, <2>1 DEF KnownInv, MadeInv, Latest, DeleteDNSRecord
    <3> QED
      BY <2>1, <3>1, QuietFaults DEF DeleteDNSRecord, DropRecord
  <2>2. CASE ~DeleteDNSRecord
    <3>1. pc \in DeletePCs \ {"delDNS"}
      <4>1. CASE NormalStep
        BY <1>4, <4>1, NormalControl DEF NormalPCs, DeletePCs
      <4>2. CASE DeleteStep
        BY <1>4, <2>2, <4>2 DEF DeleteStep, DeleteDNSRecord, DeleteSecurityGroup,
           CaptureFloatingIPs, DeletePool, DeleteListener, DeleteLoadBalancer,
           DeleteOrphans, CleanupFloatingIP, CleanupFloatingIPsDone, DeleteGateway,
           DeletePrivateNetwork, Go, Return, DeletePCs
      <4>3. CASE Start \/ PatchStep \/ EnvStep \/ Cloud \/ Vanish \/ UNCHANGED vars
        BY <1>4, <4>3, OtherFlow DEF DeletePCs, PatchPCs
      <4> QED
        BY <4>1, <4>2, <4>3, NextSplit
    <3>2. ~ReconcileDNS
      BY <3>1 DEF ReconcileDNS, DeletePCs
    <3> QED
      BY <2>2, <3>1, <3>2, WhoMakes DEF RestInv
  <2> QED
    BY <2>1, <2>2
<1>5. ASSUME pc' \in DeletePCs \ {"delDNS", "delSG"} PROVE sgroup' = "none"
  <2>1. CASE DeleteSecurityGroup
    BY <2>1, QuietFaults DEF DeleteSecurityGroup, DropGroup, RestInv, Latest
  <2>2. CASE ~DeleteSecurityGroup
    <3>1. pc \in DeletePCs \ {"delDNS", "delSG"}
      <4>1. CASE NormalStep
        BY <1>5, <4>1, NormalControl DEF NormalPCs, DeletePCs
      <4>2. CASE DeleteStep
        BY <1>5, <2>2, <4>2 DEF DeleteStep, DeleteDNSRecord, DeleteSecurityGroup,
           CaptureFloatingIPs, DeletePool, DeleteListener, DeleteLoadBalancer,
           DeleteOrphans, CleanupFloatingIP, CleanupFloatingIPsDone, DeleteGateway,
           DeletePrivateNetwork, Go, Return, DeletePCs
      <4>3. CASE Start \/ PatchStep \/ EnvStep \/ Cloud \/ Vanish \/ UNCHANGED vars
        BY <1>5, <4>3, OtherFlow DEF DeletePCs, PatchPCs
      <4> QED
        BY <4>1, <4>2, <4>3, NextSplit
    <3>2. ~ReconcileSecurityGroups
      BY <3>1 DEF ReconcileSecurityGroups, DeletePCs
    <3> QED
      BY <2>2, <3>1, <3>2, WhoMakes DEF RestInv
  <2> QED
    BY <2>1, <2>2
<1>6. ASSUME Free' PROVE ~RestLeft'
  <2>1. ~NormalStep /\ (Free \/ (DeletePrivateNetwork /\ ~mem'.fin))
    BY <1>6, LettingGo DEF LBInv
  <2>2. \A n \in Nets : NetThere(n)' => NetThere(n)
    BY <1>1, <2>1, WhoMakesNets DEF NormalStep
  <2>3. CASE Free
    <3>1. records = 0 /\ sgroup = "none" /\ \A n \in Nets \ {UserNet} : ~NetThere(n)
      BY <2>3 DEF RestInv, RestLeft
    <3>2. records' = 0
      BY <2>1, <3>1, WhoMakes DEF NormalStep, DeleteDNSRecord, DropRecord
    <3>3. sgroup' = "none"
      BY <2>1, <3>1, WhoMakes DEF NormalStep, DeleteSecurityGroup, DropGroup
    <3> QED
      BY <2>2, <3>1, <3>2, <3>3 DEF RestLeft
  <2>4. CASE DeletePrivateNetwork /\ ~mem'.fin
    <3>1. pc = "delNet" /\ records' = records /\ sgroup' = sgroup /\ Latest = mem
      BY <2>4 DEF DeletePrivateNetwork, restVars, Latest
    <3>2. records' = 0 /\ sgroup' = "none"
      BY <3>1 DEF RestInv, DeletePCs
    <3>3. ASSUME NEW n \in Nets \ {UserNet}, NetThere(n)' PROVE FALSE
      <4>1. mem.net = n /\ mem.mine /\ n # None /\ nets[n] # "gone"
        BY <1>1, <2>2, <3>1, <3>3 DEF KnownInv, MadeInv, LBInv, ManagedNet, NetThere
      <4>2. DeletesNetwork(mem) /\ mem.fin
        BY <3>1, <4>1 DEF DeletesNetwork, LBInv, HoldInv, DeletePCs
      <4>3. DropNet(n)
        BY <2>4, <4>1, <4>2 DEF DeletePrivateNetwork
      <4> QED
        BY <1>1, <3>3, <4>3 DEF DropNet, NetThere
    <3> QED
      BY <3>2, <3>3 DEF RestLeft
  <2> QED
    BY <2>1, <2>3, <2>4
<1> QED
  BY <1>2, <1>3, <1>4, <1>5, <1>6 DEF RestInv

\* A cluster deleted without keep leaves nothing in OVH: no load balancer, network,
\* security group or DNS record, whatever was half made or is still changing when
\* the deletion is asked for, and whatever somebody deletes by hand meanwhile.  It
\* is for a cluster with a network of its own and no floating IP, and calls that OVH
\* answers.
THEOREM LeavesNothing ==
    ASSUME QuietRuns, ~FloatingNetwork
    PROVE  Spec => []NothingLeft
<1>1. Init => RestInv
  <2> SUFFICES ASSUME Init PROVE RestInv
    OBVIOUS
  <2>1. \A n \in Nets \ {UserNet} : ~NetThere(n)
    BY DEF Init, NetThere
  <2>2. \A l \in LBs : fips[l] = "none"
    BY DEF Init, FIPs
  <2> QED
    BY <2>1, <2>2 DEF Init, RestInv, NoFloatingIP, RestLeft, OnLBPCs, DeletePCs
<1>2. KnownInv /\ LBInv /\ RestInv /\ [Next]_vars => RestInv'
  BY RestStep
<1>3. KnownInv /\ LBInv /\ RestInv => NothingLeft
  <2> SUFFICES ASSUME KnownInv, LBInv, RestInv, ~obj.ex, ~obj.keep PROVE ~Leftover
    BY DEF NothingLeft
  <2>1. Free
    BY DEF LBInv, HoldInv, Free
  <2>2. ~LBLeft /\ ~RestLeft
    BY <2>1 DEF LBInv, RestInv
  <2>3. \A n \in Nets : nets[n] \notin {"none", "gone"} => NetThere(n)
    BY DEF KnownInv, TypeInv, TypeOK, NetStatuses, NetThere
  <2> QED
    BY <2>2, <2>3 DEF Leftover, LBLeft, RestLeft, GoingStatuses, RestInv, NoFloatingIP
<1> QED
  BY <1>1, <1>2, <1>3, LBCorrect, PTL DEF Spec

=============================================================================
