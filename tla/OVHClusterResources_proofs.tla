--------------------- MODULE OVHClusterResources_proofs ---------------------
(***************************************************************************)
(* Proofs about what the OVHCluster controller has in OVH, each under the  *)
(* faults the code withstands: one load balancer under the cluster's name, *)
(* the user's network is never deleted, and a cluster that is declared     *)
(* Ready has its endpoint and is served.                                   *)
(***************************************************************************)
EXTENDS OVHCluster_proofs

-----------------------------------------------------------------------------
(* One load balancer.  The search by name before the POST finds whatever     *)
(* exists, unless the load balancer is not listed yet, the search fails (and *)
(* its error is ignored) or the POST is sent again after a lost answer.      *)

OneLBInv ==
    /\ NoDuplicateLB
    /\ \A l \in LBs : lbs[l] # "hidden"
    /\ pc # "lbrepost"

\* No load balancer comes to be, or is hidden.
NoNewLB ==
    /\ \A l \in LBs : lbs[l] \in {"none", "gone"} => lbs'[l] \in {"none", "gone"}
    /\ \A l \in LBs : lbs'[l] = "hidden" => lbs[l] = "hidden"

LEMMA SameLBs ==
    ASSUME UNCHANGED lbs
    PROVE  NoNewLB
BY DEF NoNewLB

\* Only CreateLoadBalancer makes one, once per call.
LEMMA OnlyCreateMakesLB ==
    ASSUME TypeInv, [Next]_vars, ~CreateLoadBalancer, ~RepostLoadBalancer
    PROVE  NoNewLB
<1>1. lbs \in [LBs -> LBStatuses]
  BY DEF TypeInv, TypeOK
<1>2. CASE Start \/ PatchStep \/ EnvStep \/ UNCHANGED vars
  BY <1>2, SameLBs
     DEF Start, ReconcileStops, AddFinalizer, ReconcileNormal, ReconcileDeleteKeep,
         ReconcileDelete, Begin, PatchStep, PatchConditions, PatchObject, PatchStatus, inPatch,
         EnvStep, CacheSync, Crash, UserDelete, UserKeep, SetOwner, EditNetwork, cloudStays,
         vars, lbVars
<1>3. CASE NormalStep
  <2>1. CASE EnsureListener \/ EnsurePool \/ EnsurePoolHealthMonitor
    BY <1>1, <2>1 DEF EnsureListener, EnsurePool, EnsurePoolHealthMonitor, PostListener,
       PostPool, PostMonitor, Mutable, Touch, NoNewLB
  <2>2. CASE ~(EnsureListener \/ EnsurePool \/ EnsurePoolHealthMonitor)
    <3>1. UNCHANGED lbs
      BY <1>3, <2>2
         DEF NormalStep, UseKnownNetwork, CreatePrivateNetwork, GetPrivateNetwork, EnsureSubnet,
             ReconcileSecurityGroups, ReconcileLoadBalancer, PollLoadBalancer,
             FloatingIPOnLB, FloatingIPNotOnLB, GetFloatingIP, ListFloatingIPs,
             CreateLoadBalancerFloatingIP, EnsureGatewayExposed, RefreshFloatingIP,
             ReconcileDNS, CallFails, lbVars
    <3> QED
      BY <3>1, SameLBs
  <2> QED
    BY <2>1, <2>2
<1>4. CASE DeleteStep
  <2>1. CASE DeletePool \/ DeleteListener
    BY <1>1, <2>1 DEF DeletePool, DeleteListener, DropPool, DropListener, Mutable, Touch, NoNewLB
  <2>2. CASE DeleteLoadBalancer \/ DeleteOrphans
    BY <1>1, <2>2 DEF DeleteLoadBalancer, DeleteOrphans, Doom, NoNewLB
  <2>3. CASE ~(DeletePool \/ DeleteListener \/ DeleteLoadBalancer \/ DeleteOrphans)
    <3>1. UNCHANGED lbs
      BY <1>4, <2>3
         DEF DeleteStep, DeleteDNSRecord, DeleteSecurityGroup, CaptureFloatingIPs,
             CleanupFloatingIP, CleanupFloatingIPsDone, DeleteGateway, DeletePrivateNetwork,
             lbVars
    <3> QED
      BY <3>1, SameLBs
  <2> QED
    BY <2>1, <2>2, <2>3
<1>5. CASE Cloud \/ Vanish
  <2>1. ASSUME NEW l \in LBs, LBProgress(l) PROVE NoNewLB
    BY <1>1, <2>1 DEF LBProgress, LBGone, NoNewLB
  <2>2. CASE Vanish
    BY <1>1, <2>2 DEF Vanish, LBGone, NoNewLB, lbVars
  <2> QED
    BY <1>5, <2>1, <2>2, SameLBs DEF Cloud, NetProgress, FIPProgress, lbVars
<1> QED
  BY <1>2, <1>3, <1>4, <1>5, NextSplit

LEMMA OneLBStep ==
    ASSUME {"hide", "lost", "api"} \intersect FaultKinds = {},
           TypeInv, OneLBInv, [Next]_vars
    PROVE  OneLBInv'
<1>1. lbs \in [LBs -> LBStatuses] /\ OwnLBs \subseteq LBs
  BY DEF TypeInv, TypeOK, OwnLBs
<1>2. ~Fault("hide") /\ ~Fault("lost") /\ ~Fault("api")
  BY DEF Fault
<1>3. ~RepostLoadBalancer
  BY DEF OneLBInv, RepostLoadBalancer
<1>4. CASE ~CreateLoadBalancer
  <2>1. NoNewLB
    BY <1>3, <1>4, OnlyCreateMakesLB
  <2>2. pc' # "lbrepost"
    <3>1. CASE UNCHANGED pc
      BY <3>1 DEF OneLBInv
    <3>2. CASE NormalStep
      BY <1>3, <1>4, <3>2
         DEF NormalStep, UseKnownNetwork, CreatePrivateNetwork, GetPrivateNetwork, EnsureSubnet,
             ReconcileSecurityGroups, ReconcileLoadBalancer, PollLoadBalancer, EnsureListener,
             EnsurePool, EnsurePoolHealthMonitor, AfterMonitor,
             FloatingIPOnLB, FloatingIPNotOnLB, GetFloatingIP, ListFloatingIPs,
             CreateLoadBalancerFloatingIP, EnsureGatewayExposed, RefreshFloatingIP,
             ReconcileDNS, CallFails, Go, Return
    <3>3. CASE Start
      BY <3>3 DEF Start, ReconcileStops, AddFinalizer, ReconcileNormal, ReconcileDeleteKeep,
         ReconcileDelete, Go, Return
    <3>4. CASE DeleteStep \/ PatchStep
      BY <3>4, DeleteControl DEF DeletePCs, PatchStep, PatchConditions, PatchObject,
         PatchStatus, Go
    <3>5. CASE EnvStep
      BY <3>1, <3>5 DEF EnvStep, CacheSync, Crash, UserDelete, UserKeep, SetOwner, EditNetwork,
         workerVars, Go
    <3> QED
      BY <3>1, <3>2, <3>3, <3>4, <3>5, NextSplit, CloudLeavesKube DEF workerVars, vars
  <2> QED
    BY <1>1, <2>1, <2>2 DEF OneLBInv, NoDuplicateLB, LBExists, NoNewLB
<1>5. CASE CreateLoadBalancer
  <2>1. pc' # "lbrepost"
    BY <1>2, <1>5 DEF CreateLoadBalancer, Go, Return
  <2>2. CASE UNCHANGED lbs
    BY <2>1, <2>2 DEF OneLBInv, NoDuplicateLB, LBExists
  <2>3. CASE FoundByName = {} /\ NewLB("PENDING_CREATE")
    <3>1. \A l \in OwnLBs : ~LBExists(l)
      BY <1>1, <2>3 DEF OneLBInv, FoundByName, ListedOwn, Listed, LBExists
    <3>2. PICK l \in OwnLBs : lbs' = [lbs EXCEPT ![l] = "PENDING_CREATE"]
      BY <2>3 DEF NewLB
    <3> QED
      BY <1>1, <2>1, <3>1, <3>2 DEF OneLBInv, NoDuplicateLB, LBExists
  <2> QED
    BY <1>2, <1>5, <2>2, <2>3 DEF CreateLoadBalancer
<1> QED
  BY <1>4, <1>5

\* At most one load balancer carries the cluster's name, through any number of
\* crashes, stale reads, failed patches and load balancers that vanish, provided
\* OVH lists what it accepted, answers the search and does not lose the answer to
\* the POST.
THEOREM OneLoadBalancer ==
    ASSUME {"hide", "lost", "api"} \intersect FaultKinds = {}
    PROVE  Spec => []NoDuplicateLB
<1>1. Init => OneLBInv
  <2>1. ASSUME Init PROVE \A l \in OwnLBs : lbs[l] = "none"
    BY <2>1 DEF Init, OwnLBs
  <2>2. ASSUME Init PROVE \A l \in LBs : lbs[l] # "hidden"
    BY <2>2 DEF Init
  <2> QED
    BY <2>1, <2>2 DEF Init, OneLBInv, NoDuplicateLB, LBExists
<1>2. TypeInv /\ OneLBInv /\ [Next]_vars => OneLBInv'
  BY OneLBStep
<1>3. OneLBInv => NoDuplicateLB
  BY DEF OneLBInv
<1> QED
  BY <1>1, <1>2, <1>3, BaseCorrect, PTL DEF Spec

-----------------------------------------------------------------------------
(* The user's network.  What protects it is that a record with the condition *)
(* NetworkCreatedByController never names it.  The condition and the network *)
(* id are written by two requests of the patch, so this needs either a spec  *)
(* that is never edited, or patches that are not cut in two.                 *)

\* Only these steps write the network of the record, or change networks.
NetworkStep ==
    \/ UseKnownNetwork \/ CreatePrivateNetwork \/ GetPrivateNetwork \/ DeletePrivateNetwork

SameNetFields(q, r) == q.net = r.net /\ q.mine = r.mine

LEMMA OtherStepsKeepNet ==
    ASSUME TypeInv, NormalStep \/ DeleteStep, ~NetworkStep
    PROVE  SameNetFields(mem', mem) /\ nets' = nets
<1>1. mem \in CR
  BY DEF TypeInv, TypeOK
<1>2. nets' = nets
  BY DEF NetworkStep, NormalStep, DeleteStep, EnsureSubnet, ReconcileSecurityGroups,
     ReconcileLoadBalancer, CreateLoadBalancer, RepostLoadBalancer, PollLoadBalancer,
     EnsureListener, EnsurePool, EnsurePoolHealthMonitor, FloatingIPOnLB, FloatingIPNotOnLB,
     GetFloatingIP, ListFloatingIPs, CreateLoadBalancerFloatingIP, EnsureGatewayExposed,
     RefreshFloatingIP, ReconcileDNS, CallFails, DeleteDNSRecord, DeleteSecurityGroup,
     CaptureFloatingIPs, DeletePool, DeleteListener, DeleteLoadBalancer, DeleteOrphans,
     CleanupFloatingIP, CleanupFloatingIPsDone, DeleteGateway, netVars
<1>3. CASE UNCHANGED mem
  BY <1>2, <1>3 DEF SameNetFields
<1>4. CASE EnsureSubnet \/ ReconcileSecurityGroups \/ CreateLoadBalancer \/ PollLoadBalancer
  BY <1>1, <1>2, <1>4 DEF SameNetFields, CR, EnsureSubnet, ReconcileSecurityGroups,
     CreateLoadBalancer, PollLoadBalancer
<1>5. CASE ReconcileLoadBalancer
  BY <1>1, <1>2, <1>5 DEF SameNetFields, CR, ReconcileLoadBalancer, Adopt, ForgetLB
<1>6. CASE EnsureListener \/ EnsurePool
  BY <1>1, <1>2, <1>6 DEF SameNetFields, CR, EnsureListener, EnsurePool
<1>7. CASE EnsurePoolHealthMonitor
  BY <1>1, <1>2, <1>7, EndpointKeeps DEF SameNetFields, EnsurePoolHealthMonitor
<1>8. CASE FloatingIPOnLB \/ GetFloatingIP \/ ListFloatingIPs \/ RefreshFloatingIP
  <2>1. PICK r \in CR : r = [mem EXCEPT !.fip = mem.lb]
    BY <1>1, Fields, CopyType
  <2>2. r.net = mem.net /\ r.mine = mem.mine
    BY <1>1, <2>1 DEF CR
  <2>3. PICK q : q = [mem EXCEPT !.fip = None]
    OBVIOUS
  <2>4. q.net = mem.net /\ q.mine = mem.mine
    BY <1>1, <2>3 DEF CR
  <2>5. \/ mem' = WithEndpoint(r, mem.lb) \/ mem' = WithEndpoint(mem, mem.fip)
        \/ mem' = r \/ mem' = q \/ mem' = mem
    BY <1>8, <2>1, <2>3, Zenon
       DEF FloatingIPOnLB, GetFloatingIP, ListFloatingIPs, RefreshFloatingIP
  <2> QED
    BY <1>1, <1>2, <2>2, <2>4, <2>5, EndpointKeeps DEF SameNetFields
<1>9. CASE EnsureGatewayExposed \/ ReconcileDNS
  BY <1>1, <1>2, <1>9 DEF SameNetFields, CR, EnsureGatewayExposed, ReconcileDNS
<1>10. CASE DeleteDNSRecord \/ DeleteSecurityGroup
  BY <1>1, <1>2, <1>10 DEF SameNetFields, CR, DeleteDNSRecord, DeleteSecurityGroup
<1>11. CASE \/ RepostLoadBalancer \/ FloatingIPNotOnLB \/ CreateLoadBalancerFloatingIP
            \/ CallFails \/ CaptureFloatingIPs \/ DeletePool \/ DeleteListener
            \/ DeleteLoadBalancer \/ DeleteOrphans \/ CleanupFloatingIPsDone \/ DeleteGateway
            \/ \E f \in FIPs : CleanupFloatingIP(f)
  BY <1>3, <1>11 DEF RepostLoadBalancer, FloatingIPNotOnLB, CreateLoadBalancerFloatingIP,
     CallFails, CaptureFloatingIPs, DeletePool, DeleteListener, DeleteLoadBalancer,
     DeleteOrphans, CleanupFloatingIP, CleanupFloatingIPsDone, DeleteGateway
<1> QED
  BY <1>4, <1>5, <1>6, <1>7, <1>8, <1>9, <1>10, <1>11 DEF NormalStep, DeleteStep, NetworkStep

\* The requests of the patch, for the fields of the network.
LEMMA PatchNet ==
    ASSUME TypeInv, PatchStep
    PROVE  /\ nets' = nets
           /\ obj'.mine = obj.mine \/ (PatchConditions /\ obj'.mine = mem.mine)
           /\ obj'.net = obj.net \/ (PatchStatus /\ obj'.net = mem.net)
           /\ PatchConditions \/ PatchObject => UNCHANGED <<base, mem>>
           /\ PatchStatus => base' = NoCR /\ mem' = NoCR
<1>1. obj \in CR
  BY DEF TypeInv, TypeOK
<1>2. /\ ConditionsWritten.mine \in {obj.mine, mem.mine}
      /\ ConditionsWritten.net = obj.net
  BY <1>1 DEF ConditionsWritten, Merged, CR
<1>3. ObjectWritten.mine = obj.mine /\ ObjectWritten.net = obj.net
  BY <1>1 DEF ObjectWritten, CR
<1>4. /\ StatusWritten.net \in {obj.net, mem.net}
      /\ StatusWritten.mine = obj.mine
  BY <1>1 DEF StatusWritten, Merged, CR
<1>5. nets' = nets
  BY DEF PatchStep, PatchConditions, PatchObject, PatchStatus, inPatch, netVars
<1>6. /\ PatchConditions \/ PatchObject => UNCHANGED <<base, mem>>
      /\ PatchStatus => base' = NoCR /\ mem' = NoCR
  BY DEF PatchConditions, PatchObject, PatchStatus
<1> QED
  BY <1>2, <1>3, <1>4, <1>5, <1>6, PatchWrites DEF PatchStep

\* Networks that OVH itself changes are not the user's.
LEMMA CloudNet ==
    ASSUME TypeInv, nets[UserNet] = "ACTIVE", Cloud \/ Vanish
    PROVE  nets'[UserNet] = "ACTIVE"
BY ConstantsAssumption
   DEF TypeInv, TypeOK, Cloud, Vanish, NetProgress, LBProgress, FIPProgress, DropNet, netVars

\* First case: the spec is not edited.  Then either the network is the user's and
\* the controller never makes one, or the user's is never named.
FixedNet(r) ==
    /\ r.given = GivenNet
    /\ GivenNet = UserNet => ~r.mine
    /\ GivenNet = None => r.net # UserNet

FixedNetInv ==
    /\ nets[UserNet] = "ACTIVE"
    /\ FixedNet(obj) /\ FixedNet(cache) /\ FixedNet(base) /\ FixedNet(mem)

LEMMA NewFixedNet == FixedNet(NewCR) /\ FixedNet(NoCR)
BY ConstantsAssumption DEF FixedNet, NewCR, NoCR

LEMMA FixedNetStep ==
    ASSUME "edit" \notin FaultKinds, TypeInv, FixedNetInv, [Next]_vars
    PROVE  FixedNetInv'
<1>1. /\ obj \in CR /\ cache \in CR /\ mem \in CR /\ base \in CR
      /\ nets \in [Nets -> NetStatuses]
      /\ UserNet \in Nets /\ UserNet # None /\ GivenNet \in {UserNet, None}
  BY ConstantsAssumption DEF TypeInv, TypeOK
<1>2. CASE Start
  <2>1. base' = cache /\ UNCHANGED <<obj, cache, nets>>
    BY <1>2 DEF Start, ReconcileStops, AddFinalizer, ReconcileNormal, ReconcileDeleteKeep,
       ReconcileDelete, Begin, kubeVars, netVars
  <2>2. mem' \in {cache, [cache EXCEPT !.fin = TRUE], [cache EXCEPT !.fin = FALSE]}
    BY <1>2 DEF Start, ReconcileStops, AddFinalizer, ReconcileNormal, ReconcileDeleteKeep,
       ReconcileDelete, Begin
  <2>3. FixedNet(mem')
    BY <1>1, <2>2 DEF FixedNetInv, FixedNet, CR
  <2> QED
    BY <2>1, <2>3 DEF FixedNetInv
<1>3. CASE (NormalStep \/ DeleteStep) /\ ~NetworkStep
  <2>1. UNCHANGED <<kubeVars, base>>
    BY <1>3, NormalControl, DeleteControl
  <2>2. mem'.given = mem.given
    <3>1. CASE NormalStep
      BY <3>1, NormalMeta DEF MetaKept
    <3>2. CASE DeleteStep
      BY <1>1, <1>3, <3>2
         DEF NetworkStep, DeleteStep, DeleteDNSRecord, DeleteSecurityGroup, CaptureFloatingIPs,
             DeletePool, DeleteListener, DeleteLoadBalancer, DeleteOrphans, CleanupFloatingIP,
             CleanupFloatingIPsDone, DeleteGateway, CR
    <3> QED
      BY <1>3, <3>1, <3>2
  <2> QED
    BY <1>3, <2>1, <2>2, OtherStepsKeepNet DEF FixedNetInv, FixedNet, SameNetFields, kubeVars
<1>4. CASE UseKnownNetwork
  BY <1>1, <1>4 DEF UseKnownNetwork, inReconcile, kubeVars, netVars, FixedNetInv, FixedNet, CR
<1>5. CASE CreatePrivateNetwork
  <2>1. UNCHANGED <<kubeVars, base>> /\ mem.given = None
    BY <1>5 DEF CreatePrivateNetwork, inReconcile
  <2>2. nets'[UserNet] = "ACTIVE"
    BY <1>1, <1>5 DEF CreatePrivateNetwork, NewNet, FixedNetInv
  <2>3. mem' = mem \/ \E n \in Nets : n # UserNet /\ mem' = [mem EXCEPT !.net = n, !.mine = TRUE]
    BY <1>1, <1>5 DEF CreatePrivateNetwork, NewNet, FixedNetInv
  <2>4. FixedNet(mem')
    <3>1. CASE mem' = mem
      BY <3>1 DEF FixedNetInv
    <3>2. ASSUME NEW n \in Nets, n # UserNet, mem' = [mem EXCEPT !.net = n, !.mine = TRUE]
          PROVE  FixedNet(mem')
      <4>1. mem'.given = None /\ mem'.net = n
        BY <1>1, <2>1, <3>2 DEF CR
      <4> QED
        BY <1>1, <2>1, <3>2, <4>1 DEF FixedNetInv, FixedNet
    <3> QED
      BY <2>3, <3>1, <3>2
  <2> QED
    BY <2>1, <2>2, <2>4 DEF FixedNetInv, kubeVars
<1>6. CASE GetPrivateNetwork
  <2>1. FixedNet(mem')
    BY <1>1, <1>6 DEF GetPrivateNetwork, FixedNetInv, FixedNet, CR
  <2> QED
    BY <1>6, <2>1 DEF GetPrivateNetwork, inReconcile, kubeVars, netVars, FixedNetInv
<1>7. CASE DeletePrivateNetwork
  <2>1. FixedNet(mem')
    BY <1>1, <1>7 DEF DeletePrivateNetwork, FixedNetInv, FixedNet, CR
  <2>2. nets'[UserNet] = "ACTIVE"
    <3>1. DeletesNetwork(mem) => mem.net # UserNet
      BY <1>1 DEF DeletesNetwork, FixedNetInv, FixedNet
    <3> QED
      BY <1>1, <1>7, <3>1 DEF DeletePrivateNetwork, DropNet, netVars, FixedNetInv
  <2> QED
    BY <1>7, <2>1, <2>2 DEF DeletePrivateNetwork, inReconcile, kubeVars, FixedNetInv
<1>8. CASE PatchStep
  BY <1>8, PatchNet, PatchMeta, NewFixedNet DEF PatchStep, FixedNetInv, FixedNet
<1>9. CASE Cloud \/ Vanish
  BY <1>9, CloudNet, CloudLeavesKube DEF FixedNetInv, kubeVars, workerVars
<1>10. CASE EnvStep
  <2>1. UNCHANGED nets
    BY <1>10 DEF EnvStep, CacheSync, Crash, UserDelete, UserKeep, SetOwner, EditNetwork,
       cloudStays, netVars
  <2>2. FixedNet(obj')
    <3>1. obj' \in {obj, [obj EXCEPT !.del = TRUE, !.ex = obj.fin], [obj EXCEPT !.keep = TRUE]}
      BY <1>10 DEF EnvStep, CacheSync, Crash, UserDelete, UserKeep, SetOwner, EditNetwork,
         Fault
    <3>2. obj'.given = obj.given /\ obj'.mine = obj.mine /\ obj'.net = obj.net
      BY <1>1, <3>1 DEF CR
    <3> QED
      BY <3>2 DEF FixedNetInv, FixedNet
  <2>3. FixedNet(cache') /\ FixedNet(base') /\ FixedNet(mem')
    BY <1>10, NewFixedNet DEF EnvStep, CacheSync, Crash, UserDelete, UserKeep, SetOwner,
       EditNetwork, workerVars, FixedNetInv
  <2> QED
    BY <2>1, <2>2, <2>3 DEF FixedNetInv
<1>11. CASE UNCHANGED vars
  BY <1>11 DEF vars, kubeVars, workerVars, netVars, FixedNetInv
<1> QED
  BY <1>2, <1>3, <1>4, <1>5, <1>6, <1>7, <1>8, <1>9, <1>10, <1>11, NextSplit DEF NetworkStep

\* An object that is being deleted is there for its finalizer only, and so is the
\* copy that ReconcileDelete works on.
HeldInv ==
    /\ obj.ex /\ obj.del => obj.fin
    /\ cache.ex /\ cache.del => cache.fin
    /\ pc \in DeletePCs => base.fin

LEMMA HeldInit == Init => HeldInv
BY DEF Init, HeldInv, NewCR, DeletePCs

LEMMA HeldStep ==
    ASSUME TypeInv, HeldInv, [Next]_vars
    PROVE  HeldInv'
<1>1. obj \in CR
  BY DEF TypeInv, TypeOK
<1>2. CASE Start
  BY <1>2 DEF Start, ReconcileStops, AddFinalizer, ReconcileNormal, ReconcileDeleteKeep,
     ReconcileDelete, Begin, kubeVars, Go, Return, HeldInv, DeletePCs
<1>3. CASE NormalStep \/ DeleteStep
  BY <1>3, NormalControl, DeleteControl DEF HeldInv, kubeVars, NormalPCs, DeletePCs
<1>4. CASE PatchStep
  <2>1. obj'.ex /\ obj'.del => obj'.fin
    BY <1>4, PatchMeta DEF HeldInv
  <2> QED
    BY <1>4, <2>1, PatchMeta DEF HeldInv, PatchPCs, DeletePCs
<1>5. CASE EnvStep
  <2>1. obj'.ex /\ obj'.del => obj'.fin
    <3>1. CASE UserDelete
      BY <1>1, <3>1 DEF UserDelete, CR
    <3>2. CASE UserKeep
      BY <1>1, <3>2 DEF UserKeep, CR, HeldInv
    <3>3. CASE EditNetwork
      BY <1>1, <3>3 DEF EditNetwork, CR, HeldInv
    <3> QED
      BY <1>5, <3>1, <3>2, <3>3 DEF EnvStep, CacheSync, Crash, SetOwner, HeldInv
  <2> QED
    BY <1>5, <2>1 DEF EnvStep, CacheSync, Crash, UserDelete, UserKeep, SetOwner, EditNetwork,
       workerVars, HeldInv, DeletePCs, Go
<1>6. CASE Cloud \/ Vanish \/ UNCHANGED vars
  BY <1>6, CloudLeavesKube DEF HeldInv, kubeVars, workerVars, vars
<1> QED
  BY <1>2, <1>3, <1>4, <1>5, <1>6, NextSplit

\* Second case: the spec may be edited, but the patch is written whole and the
\* controller reads what it wrote.
OwnNetOnly(r) == r.mine => r.net # None /\ r.net # UserNet

EditedNetInv ==
    /\ nets[UserNet] = "ACTIVE"
    /\ obj.ex /\ pc = "idle" => OwnNetOnly(obj)
    /\ obj.ex /\ pc # "idle" =>
         /\ OwnNetOnly(mem) /\ obj.net = base.net
         /\ obj.mine = IF pc \in {"patch", "patchStatus"} THEN mem.mine ELSE base.mine
    /\ pc \in DeletePCs => obj.ex
    \* the network goes with the finalizer
    /\ obj.ex /\ (\E n \in Nets : nets[n] = "gone") =>
         pc \in {"patchConditions", "patch"} /\ base.fin /\ ~mem.fin

\* What the patch makes of a field when nothing fails.
LEMMA PatchWholeNet ==
    ASSUME "patch" \notin FaultKinds, TypeInv, obj.ex, PatchStep, obj.net = base.net
    PROVE  /\ PatchConditions /\ obj.mine = base.mine => obj'.mine = mem.mine
           /\ PatchStatus => obj'.net = mem.net
           /\ PatchObject /\ mem.fin # base.fin => obj'.fin = mem.fin /\ obj'.ex = (~obj.del \/ mem.fin)
<1>1. obj \in CR /\ mem \in CR /\ base \in CR
  BY DEF TypeInv, TypeOK
<1>2. ASSUME NEW d, NEW w, Apply(d, w) PROVE obj' = IF d THEN w ELSE obj
  BY <1>2, Zenon DEF Apply, Fault
<1>3. ASSUME PatchConditions, obj.mine = base.mine PROVE obj'.mine = mem.mine
  <2>1. obj' = IF mem.mine # base.mine THEN ConditionsWritten ELSE obj
    BY <1>3 DEF PatchConditions, Apply, Fault, ConditionsWritten
  <2>2. ConditionsWritten.mine = IF mem.mine # base.mine THEN mem.mine ELSE obj.mine
    BY <1>1 DEF ConditionsWritten, Merged, CR
  <2> QED
    BY <1>3, <2>1, <2>2
<1>4. ASSUME PatchStatus PROVE obj'.net = mem.net
  <2>1. \/ obj' = StatusWritten
        \/ obj' = obj /\ mem["net"] = base["net"]
    <3>1. obj' = IF \E f \in {"net", "subnet", "lb", "lst", "pool", "fip", "gw", "sg",
                              "dns", "ready"} : mem[f] # base[f]
                   THEN StatusWritten ELSE obj
      BY <1>2, <1>4, Zenon DEF PatchStatus, StatusWritten
    <3>2. "net" \in {"net", "subnet", "lb", "lst", "pool", "fip", "gw", "sg", "dns", "ready"}
      OBVIOUS
    <3> QED
      BY <3>1, <3>2, Zenon
  <2>2. StatusWritten.net = IF mem.net # base.net THEN mem.net ELSE obj.net
    BY <1>1 DEF StatusWritten, Merged, CR
  <2>3. mem["net"] = mem.net /\ base["net"] = base.net
    OBVIOUS
  <2> QED
    BY <2>1, <2>2, <2>3
<1>5. ASSUME PatchObject, mem.fin # base.fin
      PROVE  obj'.fin = mem.fin /\ obj'.ex = (~obj.del \/ mem.fin)
  <2>1. obj' = ObjectWritten
    BY <1>2, <1>5, Zenon DEF PatchObject, ObjectWritten
  <2>2. Merged("fin") = mem.fin
    BY <1>5 DEF Merged
  <2>3. ObjectWritten.fin = Merged("fin") /\ ObjectWritten.ex = (~obj.del \/ Merged("fin"))
    BY <1>1 DEF ObjectWritten, CR
  <2> QED
    BY <2>1, <2>2, <2>3
<1> QED
  BY <1>3, <1>4, <1>5

LEMMA EditedNetStep ==
    ASSUME {"stale", "crash", "patch", "vanish"} \intersect FaultKinds = {},
           TypeInv, FinalizerInv, HeldInv, EditedNetInv, [Next]_vars
    PROVE  EditedNetInv'
<1>1. /\ obj \in CR /\ cache \in CR /\ mem \in CR /\ base \in CR
      /\ nets \in [Nets -> NetStatuses]
      /\ UserNet \in Nets /\ UserNet # None
  BY ConstantsAssumption DEF TypeInv, TypeOK
<1>2. /\ "stale" \notin FaultKinds /\ "patch" \notin FaultKinds
      /\ ~Crash /\ ~Vanish
  BY DEF Crash, Vanish, Fault
<1>3. CASE Start
  <2>1. base' = obj /\ UNCHANGED <<obj, nets>> /\ obj.ex /\ pc = "idle"
    BY <1>2, <1>3 DEF Start, ReconcileStops, AddFinalizer, ReconcileNormal,
       ReconcileDeleteKeep, ReconcileDelete, Begin, kubeVars, netVars
  <2>2. mem' \in {cache, [cache EXCEPT !.fin = TRUE], [cache EXCEPT !.fin = FALSE]} /\ cache = obj
    BY <1>2, <1>3 DEF Start, ReconcileStops, AddFinalizer, ReconcileNormal,
       ReconcileDeleteKeep, ReconcileDelete, Begin
  <2>3. mem'.mine = obj.mine /\ mem'.net = obj.net
    BY <1>1, <2>2 DEF CR
  <2>4. pc' # "idle" /\ pc' \notin {"patch", "patchStatus"}
    BY <1>3 DEF Start, ReconcileStops, AddFinalizer, ReconcileNormal,
       ReconcileDeleteKeep, ReconcileDelete, Go, Return
  <2> QED
    BY <2>1, <2>3, <2>4 DEF EditedNetInv, OwnNetOnly
<1>4. CASE (NormalStep \/ DeleteStep) /\ ~NetworkStep
  <2>1. /\ UNCHANGED <<obj, base>> /\ pc \notin {"idle", "patch", "patchStatus", "patchConditions"}
        /\ pc' \notin {"idle", "patch", "patchStatus"} /\ (pc' \in DeletePCs => pc \in DeletePCs)
    BY <1>4, NormalControl, DeleteControl DEF kubeVars, NormalPCs, DeletePCs
  <2> QED
    BY <1>4, <2>1, OtherStepsKeepNet DEF EditedNetInv, OwnNetOnly, SameNetFields
<1>5. CASE UseKnownNetwork
  <2>1. OwnNetOnly(mem) => OwnNetOnly(mem')
    BY <1>1, <1>5 DEF UseKnownNetwork, OwnNetOnly, CR
  <2> QED
    BY <1>5, <2>1 DEF UseKnownNetwork, inReconcile, kubeVars, netVars, Go, EditedNetInv, DeletePCs
<1>6. CASE CreatePrivateNetwork
  <2>1. UNCHANGED <<obj, base>> /\ pc = "net" /\ pc' \in {"net", "netget", "patchConditions"}
    BY <1>6 DEF CreatePrivateNetwork, inReconcile, kubeVars, Go, Return
  <2>2. nets'[UserNet] = "ACTIVE" /\ \A n \in Nets : nets'[n] = "gone" => nets[n] = "gone"
    BY <1>1, <1>6 DEF CreatePrivateNetwork, NewNet, EditedNetInv
  <2>3. mem' = mem \/ \E n \in Nets : n # UserNet /\ mem' = [mem EXCEPT !.net = n, !.mine = TRUE]
    BY <1>1, <1>6 DEF CreatePrivateNetwork, NewNet, EditedNetInv
  <2>4. OwnNetOnly(mem) => OwnNetOnly(mem')
    <3>1. ASSUME NEW n \in Nets, n # UserNet, mem' = [mem EXCEPT !.net = n, !.mine = TRUE]
          PROVE  OwnNetOnly(mem')
      BY <1>1, <3>1, ConstantsAssumption DEF OwnNetOnly, CR
    <3> QED
      BY <2>3, <3>1
  <2> QED
    BY <2>1, <2>2, <2>4 DEF EditedNetInv, DeletePCs
<1>7. CASE GetPrivateNetwork
  <2>1. obj.ex
    BY <1>7 DEF GetPrivateNetwork, FinalizerInv, RunInv, NormalPCs
  <2>2. nets[mem.net] # "gone"
    <3>1. mem.net \in Nets
      BY <1>1, <1>7, Fields DEF GetPrivateNetwork, TypeInv, Knows
    <3> QED
      BY <1>7, <2>1, <3>1 DEF GetPrivateNetwork, EditedNetInv
  <2>3. UNCHANGED mem /\ pc' \in {"subnet", "sg", "patchConditions"}
    BY <1>7, <2>2 DEF GetPrivateNetwork, Go, Return
  <2> QED
    BY <1>7, <2>3 DEF GetPrivateNetwork, inReconcile, kubeVars, netVars, EditedNetInv, DeletePCs
<1>8. CASE DeletePrivateNetwork
  <2>1. UNCHANGED <<obj, base>> /\ pc = "delNet" /\ pc' = "patchConditions" /\ base.fin
    BY <1>8 DEF DeletePrivateNetwork, inReconcile, kubeVars, Return, HeldInv, DeletePCs
  <2>2. mem'.mine = mem.mine /\ mem'.net = mem.net
    BY <1>1, <1>8 DEF DeletePrivateNetwork, CR
  <2>3. CASE nets' = nets
    BY <2>1, <2>2, <2>3 DEF EditedNetInv, OwnNetOnly, DeletePCs
  <2>4. CASE nets' # nets
    <3>1. DropNet(mem.net) /\ DeletesNetwork(mem) /\ mem' = [mem EXCEPT !.fin = FALSE]
      BY <1>8, <2>4 DEF DeletePrivateNetwork, netVars
    <3>2. ~mem'.fin
      BY <1>1, <3>1 DEF CR
    <3>3. obj.ex => nets'[UserNet] = "ACTIVE"
      BY <1>1, <2>1, <3>1 DEF DropNet, DeletesNetwork, EditedNetInv, OwnNetOnly
    <3>4. obj.ex
      BY <2>1 DEF EditedNetInv, DeletePCs
    <3> QED
      BY <2>1, <2>2, <3>2, <3>3, <3>4 DEF EditedNetInv, OwnNetOnly, DeletePCs
  <2> QED
    BY <2>3, <2>4
<1>9. CASE PatchStep
  <2>1. /\ nets' = nets /\ (obj'.ex => obj.ex) /\ pc' \notin DeletePCs
        /\ (obj.ex => obj.net = base.net /\ OwnNetOnly(mem))
    BY <1>1, <1>9, PatchNet, PatchMeta DEF PatchPCs, DeletePCs, EditedNetInv
  <2>2. CASE PatchConditions
    <3>1. pc = "patchConditions" /\ pc' = "patch" /\ UNCHANGED <<base, mem>>
      BY <2>2 DEF PatchConditions, Go
    <3>2. obj.ex => obj'.net = base.net /\ obj'.mine = mem.mine
      BY <1>2, <1>9, <2>1, <2>2, <3>1, PatchNet, PatchWholeNet, PatchMeta
         DEF EditedNetInv, PatchConditions, PatchObject, PatchStatus
    <3> QED
      BY <2>1, <3>1, <3>2 DEF EditedNetInv
  <2>3. CASE PatchObject
    <3>1. pc = "patch" /\ pc' = "patchStatus" /\ UNCHANGED <<base, mem>>
      BY <2>3 DEF PatchObject, Go
    <3>2. obj'.net = obj.net /\ obj'.mine = obj.mine
      BY <1>9, <2>3, <3>1, PatchNet DEF PatchConditions, PatchStatus
    <3>3. obj'.ex => ~\E n \in Nets : nets[n] = "gone"
      <4> SUFFICES ASSUME obj'.ex, NEW n \in Nets, nets[n] = "gone" PROVE FALSE
        OBVIOUS
      <4>1. obj.ex /\ base.fin /\ ~mem.fin
        BY <2>1 DEF EditedNetInv
      <4>2. obj.del
        BY <4>1 DEF FinalizerInv, CopyInv, RunInv
      <4>3. mem.fin # base.fin
        BY <4>1
      <4> QED
        BY <1>2, <1>9, <2>1, <2>3, <4>1, <4>2, <4>3, PatchWholeNet
    <3> QED
      BY <2>1, <3>1, <3>2, <3>3 DEF EditedNetInv
  <2>4. CASE PatchStatus
    <3>1. pc = "patchStatus" /\ pc' = "idle"
      BY <2>4 DEF PatchStatus, Go
    <3>2. obj.ex => obj'.net = mem.net /\ obj'.mine = mem.mine
      BY <1>2, <1>9, <2>1, <2>4, <3>1, PatchNet, PatchWholeNet DEF EditedNetInv, PatchConditions
    <3> QED
      BY <2>1, <3>1, <3>2 DEF EditedNetInv, OwnNetOnly
  <2> QED
    BY <1>9, <2>2, <2>3, <2>4 DEF PatchStep
<1>10. CASE Cloud
  <2>1. \A n \in Nets : nets'[n] = "gone" => nets[n] = "gone"
    BY <1>1, <1>10 DEF Cloud, NetProgress, LBProgress, FIPProgress, netVars
  <2> QED
    BY <1>10, <2>1, CloudNet, CloudLeavesKube DEF EditedNetInv, kubeVars, workerVars
<1>11. CASE EnvStep
  <2>1. UNCHANGED <<nets, workerVars>>
    BY <1>2, <1>11 DEF EnvStep, CacheSync, UserDelete, UserKeep, SetOwner, EditNetwork,
       cloudStays, netVars
  <2>2. /\ obj' \in {obj, [obj EXCEPT !.del = TRUE, !.ex = obj.fin], [obj EXCEPT !.keep = TRUE],
                     [obj EXCEPT !.given = UserNet]}
        /\ obj' # obj => obj.ex
    BY <1>2, <1>11 DEF EnvStep, CacheSync, UserDelete, UserKeep, SetOwner, EditNetwork
  <2>3. obj'.mine = obj.mine /\ obj'.net = obj.net /\ (obj'.ex => obj.ex)
    BY <1>1, <2>2 DEF CR
  <2>4. pc \in DeletePCs => obj'.ex
    <3> SUFFICES ASSUME pc \in DeletePCs PROVE obj'.ex
      OBVIOUS
    <3>1. obj.ex /\ obj.del
      BY DEF EditedNetInv, FinalizerInv, CopyInv, RunInv
    <3> QED
      BY <1>1, <1>2, <1>11, <3>1
         DEF EnvStep, CacheSync, UserDelete, UserKeep, SetOwner, EditNetwork, CR
  <2> QED
    BY <2>1, <2>3, <2>4 DEF EditedNetInv, OwnNetOnly, workerVars
<1>12. CASE UNCHANGED vars
  BY <1>12 DEF vars, kubeVars, workerVars, netVars, EditedNetInv
<1> QED
  BY <1>2, <1>3, <1>4, <1>5, <1>6, <1>7, <1>8, <1>9, <1>10, <1>11, <1>12, NextSplit
     DEF NetworkStep

\* The user's network is never deleted: for a spec that is not edited through every
\* crash, stale read and failure, and for one that gets its network later as long as
\* a status that was written is read back whole.
THEOREM UserNetworkStays ==
    ASSUME \/ "edit" \notin FaultKinds
           \/ {"stale", "crash", "patch", "vanish"} \intersect FaultKinds = {}
    PROVE  Spec => []UserNetworkKept
<1>1. Init => FixedNetInv /\ EditedNetInv
  <2> SUFFICES ASSUME Init PROVE FixedNetInv /\ EditedNetInv
    OBVIOUS
  <2>1. nets[UserNet] = "ACTIVE" /\ \A n \in Nets : nets[n] # "gone"
    BY ConstantsAssumption DEF Init
  <2> QED
    BY <2>1, NewFixedNet DEF Init, FixedNetInv, EditedNetInv, OwnNetOnly, NewCR, DeletePCs
<1>2. TypeInv /\ FinalizerInv /\ HeldInv /\ [Next]_vars => HeldInv'
  BY HeldStep
<1>3. CASE "edit" \notin FaultKinds
  <2>1. TypeInv /\ FixedNetInv /\ [Next]_vars => FixedNetInv'
    BY <1>3, FixedNetStep
  <2>2. FixedNetInv => UserNetworkKept
    BY DEF FixedNetInv, UserNetworkKept
  <2> QED
    BY <1>1, <2>1, <2>2, BaseCorrect, PTL DEF Spec
<1>4. CASE {"stale", "crash", "patch", "vanish"} \intersect FaultKinds = {}
  <2>1. TypeInv /\ FinalizerInv /\ HeldInv /\ EditedNetInv /\ [Next]_vars => EditedNetInv'
    BY <1>4, EditedNetStep
  <2>2. EditedNetInv => UserNetworkKept
    BY DEF EditedNetInv, UserNetworkKept
  <2> QED
    BY <1>1, <1>2, <2>1, <2>2, BaseCorrect, HeldInit, PTL DEF Spec
<1> QED
  BY <1>3, <1>4

-----------------------------------------------------------------------------
(* Ready.  The endpoint is in memory by the time the cluster is declared     *)
(* Ready, and the patch writes the spec before the status.                   *)

EndpointInv ==
    /\ obj.ready => obj.host # None
    /\ cache.host # None => obj.host # None
    /\ base.host # None => obj.host # None /\ mem.host # None
    /\ pc \in {"dns", "expose"} => mem.host # None
    /\ pc \in {"exposeKnown", "fipGet"} => mem.fip # None
    /\ mem.ready /\ ~base.ready => pc \in PatchPCs /\ mem.host # None
    /\ obj.ex /\ pc = "patchStatus" /\ mem.host # None => obj.host # None
    \* without a floating IP the address is the load balancer's, which it has by then
    /\ ~FloatingNetwork =>
         /\ \A l \in LBs : lbs[l] = "ACTIVE" => l \in vips
         /\ pc \in {"listener", "pool", "monitor"} => "VIPAddress" \in lbRead

LEMMA EndpointInit == Init => EndpointInv
<1> SUFFICES ASSUME Init PROVE EndpointInv
  OBVIOUS
<1>1. \A l \in LBs : lbs[l] = "ACTIVE" => l \in vips
  BY DEF Init
<1> QED
  BY <1>1 DEF Init, EndpointInv, NewCR, NoCR, PatchPCs

\* Only OVH makes a load balancer ACTIVE, and gives or takes its address.
LEMMA OnlyOVHActivates ==
    ASSUME TypeInv,
           Start \/ NormalStep \/ DeleteStep \/ PatchStep \/ EnvStep \/ UNCHANGED vars
    PROVE  vips' = vips /\ \A l \in LBs : lbs'[l] = "ACTIVE" => lbs[l] = "ACTIVE"
<1>1. lbs \in [LBs -> LBStatuses]
  BY DEF TypeInv, TypeOK
<1>2. CASE Start \/ PatchStep \/ EnvStep \/ UNCHANGED vars
  BY <1>2
     DEF Start, ReconcileStops, AddFinalizer, ReconcileNormal, ReconcileDeleteKeep,
         ReconcileDelete, Begin, PatchStep, PatchConditions, PatchObject, PatchStatus, inPatch,
         EnvStep, CacheSync, Crash, UserDelete, UserKeep, SetOwner, EditNetwork, cloudStays,
         vars, lbVars
<1>3. CASE NormalStep
  <2>1. CASE CreateLoadBalancer \/ RepostLoadBalancer
    BY <1>1, <2>1 DEF CreateLoadBalancer, RepostLoadBalancer, NewLB
  <2>2. CASE EnsureListener \/ EnsurePool \/ EnsurePoolHealthMonitor
    BY <1>1, <2>2 DEF EnsureListener, EnsurePool, EnsurePoolHealthMonitor, PostListener,
       PostPool, PostMonitor, Touch
  <2>3. CASE ~(\/ CreateLoadBalancer \/ RepostLoadBalancer
               \/ EnsureListener \/ EnsurePool \/ EnsurePoolHealthMonitor)
    BY <1>3, <2>3
       DEF NormalStep, UseKnownNetwork, CreatePrivateNetwork, GetPrivateNetwork, EnsureSubnet,
           ReconcileSecurityGroups, ReconcileLoadBalancer, PollLoadBalancer,
           FloatingIPOnLB, FloatingIPNotOnLB, GetFloatingIP, ListFloatingIPs,
           CreateLoadBalancerFloatingIP, EnsureGatewayExposed, RefreshFloatingIP,
           ReconcileDNS, CallFails, lbVars
  <2> QED
    BY <2>1, <2>2, <2>3
<1>4. CASE DeleteStep
  <2>1. CASE DeletePool \/ DeleteListener
    BY <1>1, <2>1 DEF DeletePool, DeleteListener, DropPool, DropListener, Touch
  <2>2. CASE DeleteLoadBalancer \/ DeleteOrphans
    BY <1>1, <2>2 DEF DeleteLoadBalancer, DeleteOrphans, Doom
  <2>3. CASE ~(DeletePool \/ DeleteListener \/ DeleteLoadBalancer \/ DeleteOrphans)
    BY <1>4, <2>3
       DEF DeleteStep, DeleteDNSRecord, DeleteSecurityGroup, CaptureFloatingIPs,
           CleanupFloatingIP, CleanupFloatingIPsDone, DeleteGateway, DeletePrivateNetwork,
           lbVars
  <2> QED
    BY <2>1, <2>2, <2>3
<1> QED
  BY <1>2, <1>3, <1>4

\* ReconcileDelete touches neither the endpoint nor Ready.
LEMMA DeleteMeta ==
    ASSUME TypeInv, DeleteStep
    PROVE  mem'.host = mem.host /\ mem'.ready = mem.ready
<1>1. mem \in CR
  BY DEF TypeInv, TypeOK
<1>2. CASE DeleteDNSRecord \/ DeleteSecurityGroup \/ DeletePrivateNetwork
  BY <1>1, <1>2 DEF DeleteDNSRecord, DeleteSecurityGroup, DeletePrivateNetwork, CR
<1>3. CASE ~(DeleteDNSRecord \/ DeleteSecurityGroup \/ DeletePrivateNetwork)
  BY <1>3 DEF DeleteStep, CaptureFloatingIPs, DeletePool, DeleteListener, DeleteLoadBalancer,
     DeleteOrphans, CleanupFloatingIP, CleanupFloatingIPsDone, DeleteGateway
<1> QED
  BY <1>2, <1>3

\* Every way to "dns" and to "expose" passes where the endpoint is set.
LEMMA NormalEndpoint ==
    ASSUME TypeInv, EndpointInv, NormalStep
    PROVE  /\ pc' \in {"dns", "expose"} => mem'.host # None
           /\ pc' \in {"exposeKnown", "fipGet"} => mem'.fip # None
           /\ ~FloatingNetwork /\ pc' \in {"listener", "pool", "monitor"} => "VIPAddress" \in lbRead'
<1>1. mem \in CR /\ FloatingNetwork \in BOOLEAN
  BY ConstantsAssumption DEF TypeInv, TypeOK
<1>2. mem.lb \in FIPs \union {None} /\ mem.fip \in FIPs \union {None}
  BY <1>1, Fields
<1>3. CASE pc' \notin {"dns", "expose", "exposeKnown", "fipGet", "listener", "pool", "monitor"}
  BY <1>3
<1>4. CASE ReconcileLoadBalancer
  <2>1. pc' = "listener" => lbRead' \in LBAnswers(mem'.lb) /\ lbs[mem'.lb] = "ACTIVE"
    BY <1>4 DEF ReconcileLoadBalancer, Go
  <2>2. pc' = "listener" => mem'.lb \in LBs
    <3>1. mem' \in CR
      BY <1>1, <1>4, AdoptType DEF ReconcileLoadBalancer
    <3>2. pc' = "listener" => mem'.lb # None
      BY <1>4 DEF ReconcileLoadBalancer, Go
    <3> QED
      BY <3>1, <3>2, Fields
  <2>3. pc' \in {"listener", "lbpost", "patchConditions"}
    BY <1>4 DEF ReconcileLoadBalancer, Go
  <2> QED
    BY <2>1, <2>2, <2>3 DEF EndpointInv, LBAnswers
<1>5. CASE EnsureListener \/ EnsurePool
  <2>1. pc' \in {"pool", "monitor", "patchConditions"} /\ lbRead' = lbRead /\ pc \in {"listener", "pool"}
    BY <1>5 DEF EnsureListener, EnsurePool, Go, Return, aside
  <2> QED
    BY <2>1 DEF EndpointInv
<1>6. CASE EnsurePoolHealthMonitor
  <2>1. pc = "monitor" /\ lbRead' = lbRead /\ pc' = AfterMonitor /\ mem.lb # None
    BY <1>6 DEF EnsurePoolHealthMonitor, Go, TypeInv, Knows, OnLBPCs
  <2>2. pc' \in {"listener", "fip", "dns"} /\ (pc' = "dns" => ~FloatingNetwork)
    BY <2>1 DEF AfterMonitor
  <2>3. pc' = "dns" => mem' = WithEndpoint(mem, IF "VIPAddress" \in lbRead THEN mem.lb ELSE None)
    BY <1>6, <2>1 DEF EnsurePoolHealthMonitor
  <2>4. pc' = "dns" => mem'.host # None
    BY <1>1, <2>1, <2>2, <2>3, EndpointKeeps DEF EndpointInv
  <2> QED
    BY <2>1, <2>2, <2>4 DEF EndpointInv
<1>7. CASE FloatingIPOnLB \/ ListFloatingIPs \/ RefreshFloatingIP
  <2>1. PICK r \in CR : r = [mem EXCEPT !.fip = mem.lb]
    BY <1>1, <1>2, CopyType
  <2>2. mem.lb # None
    BY <1>7 DEF FloatingIPOnLB, ListFloatingIPs, RefreshFloatingIP, TypeInv, Knows, OnLBPCs
  <2>3. pc' \in {"expose", "dns", "patchConditions", "fipPost"}
    BY <1>7 DEF FloatingIPOnLB, ListFloatingIPs, RefreshFloatingIP, Go, Return
  <2>4. pc' \in {"expose", "dns"} => mem' = WithEndpoint(r, mem.lb)
    BY <1>7, <2>1 DEF FloatingIPOnLB, ListFloatingIPs, RefreshFloatingIP, Go, Return
  <2> QED
    BY <2>1, <2>2, <2>3, <2>4, EndpointKeeps
<1>8. CASE FloatingIPNotOnLB
  BY <1>8 DEF FloatingIPNotOnLB, Go
<1>9. CASE GetFloatingIP
  <2>1. pc = "fipGet" /\ pc' \in {"dns", "patchConditions", "fipList"}
    BY <1>9 DEF GetFloatingIP, Go, Return
  <2>2. pc' = "dns" => mem' = WithEndpoint(mem, mem.fip)
    BY <1>9 DEF GetFloatingIP, Go, Return
  <2> QED
    BY <1>1, <2>1, <2>2, EndpointKeeps DEF EndpointInv
<1>10. CASE EnsureGatewayExposed
  <2>1. \/ pc = "expose" /\ pc' = "dns"
        \/ pc = "exposeKnown" /\ pc' = "fipGet"
        \/ pc = "exposeNew" /\ pc' = "fipRefresh"
    BY <1>10 DEF EnsureGatewayExposed, Go
  <2>2. mem'.host = mem.host /\ mem'.fip = mem.fip
    BY <1>1, <1>10 DEF EnsureGatewayExposed, CR
  <2> QED
    BY <2>1, <2>2 DEF EndpointInv
<1>11. CASE \/ UseKnownNetwork \/ CreatePrivateNetwork \/ GetPrivateNetwork \/ EnsureSubnet
            \/ ReconcileSecurityGroups \/ CreateLoadBalancer \/ RepostLoadBalancer
            \/ PollLoadBalancer \/ CreateLoadBalancerFloatingIP \/ ReconcileDNS \/ CallFails
  BY <1>3, <1>11 DEF UseKnownNetwork, CreatePrivateNetwork, GetPrivateNetwork, EnsureSubnet,
     ReconcileSecurityGroups, CreateLoadBalancer, RepostLoadBalancer, PollLoadBalancer,
     CreateLoadBalancerFloatingIP, ReconcileDNS, CallFails, Go, Return
<1> QED
  BY <1>4, <1>5, <1>6, <1>7, <1>8, <1>9, <1>10, <1>11 DEF NormalStep

\* The endpoint and Ready in what the patch writes.
LEMMA PatchReady ==
    ASSUME TypeInv, PatchStep
    PROVE  /\ obj'.host = obj.host \/ (PatchObject /\ obj'.host = Merged("host"))
           /\ obj'.ready = obj.ready \/ (PatchStatus /\ obj.ex /\ obj'.ready = Merged("ready"))
<1>1. obj \in CR
  BY DEF TypeInv, TypeOK
<1>2. ConditionsWritten.host = obj.host /\ ConditionsWritten.ready = obj.ready
  BY <1>1 DEF ConditionsWritten, CR
<1>3. ObjectWritten.host = Merged("host") /\ ObjectWritten.ready = obj.ready
  BY <1>1 DEF ObjectWritten, CR
<1>4. StatusWritten.host = obj.host /\ StatusWritten.ready = Merged("ready")
  BY <1>1 DEF StatusWritten, CR
<1> QED
  BY <1>2, <1>3, <1>4, PatchWrites DEF PatchStep

LEMMA PatchEndpoint ==
    ASSUME "patch" \notin FaultKinds, TypeInv, FinalizerInv, EndpointInv, PatchStep
    PROVE  EndpointInv'
<1>1. obj \in CR /\ mem \in CR /\ base \in CR
  BY DEF TypeInv, TypeOK
<1>2. /\ Merged("host") = IF mem.host # base.host THEN mem.host ELSE obj.host
      /\ Merged("ready") = IF mem.ready # base.ready THEN mem.ready ELSE obj.ready
  BY DEF Merged
<1>3. obj.host # None => obj'.host # None
  BY <1>2, PatchReady DEF EndpointInv
<1>4. obj'.ready => obj'.host # None
  <2>1. CASE obj'.ready = obj.ready
    BY <1>3, <2>1 DEF EndpointInv
  <2>2. CASE PatchStatus /\ obj.ex /\ obj'.ready = Merged("ready")
    <3>1. pc = "patchStatus"
      BY <2>2 DEF PatchStatus
    <3>2. obj'.ready => obj.host # None
      BY <1>1, <1>2, <2>2, <3>1 DEF EndpointInv, CR
    <3> QED
      BY <1>3, <3>2
  <2> QED
    BY <2>1, <2>2, PatchReady
<1>5. obj'.ex => obj.ex
  BY <1>1, PatchMeta
<1>6. UNCHANGED <<cache, lbRead, lbs, vips>>
  BY DEF PatchStep, PatchConditions, PatchObject, PatchStatus, inPatch, lbVars
<1>7. CASE PatchConditions
  <2>1. pc' = "patch" /\ UNCHANGED <<base, mem>>
    BY <1>7 DEF PatchConditions, Go
  <2> QED
    BY <1>3, <1>4, <1>6, <2>1 DEF EndpointInv, PatchPCs
<1>8. CASE PatchObject
  <2>1. pc' = "patchStatus" /\ UNCHANGED <<base, mem>>
    BY <1>8 DEF PatchObject, Go
  <2>2. obj.ex /\ mem.host # None => obj'.host # None
    <3>1. CASE mem.host # base.host
      <4>1. obj.ex => obj' = ObjectWritten
        <5>1. ASSUME NEW w, NEW d, d, Apply(d, w), obj.ex PROVE obj' = w
          BY <5>1, Zenon DEF Apply, Fault
        <5> QED
          BY <1>8, <3>1, <5>1, Zenon DEF PatchObject, ObjectWritten
      <4>2. ObjectWritten.host = mem.host
        BY <1>1, <1>2, <3>1 DEF ObjectWritten, CR
      <4> QED
        BY <4>1, <4>2
    <3>2. CASE mem.host = base.host
      BY <1>3, <3>2 DEF EndpointInv
    <3> QED
      BY <3>1, <3>2
  <2> QED
    BY <1>3, <1>4, <1>5, <1>6, <2>1, <2>2 DEF EndpointInv, PatchPCs
<1>9. CASE PatchStatus
  <2>1. pc' = "idle" /\ base' = NoCR /\ mem' = NoCR
    BY <1>9 DEF PatchStatus, Go
  <2> QED
    BY <1>3, <1>4, <1>6, <2>1 DEF EndpointInv, NoCR, NewCR
<1> QED
  BY <1>7, <1>8, <1>9 DEF PatchStep

LEMMA EndpointStep ==
    ASSUME "patch" \notin FaultKinds, FloatingNetwork \/ "noVIP" \notin FaultKinds,
           TypeInv, FinalizerInv, EndpointInv, [Next]_vars
    PROVE  EndpointInv'
<1>1. obj \in CR /\ mem \in CR /\ cache \in CR /\ lbs \in [LBs -> LBStatuses]
  BY DEF TypeInv, TypeOK
<1>2. CASE Start
  <2>1. base' = cache /\ UNCHANGED <<obj, cache, lbs, vips>>
    BY <1>2 DEF Start, ReconcileStops, AddFinalizer, ReconcileNormal, ReconcileDeleteKeep,
       ReconcileDelete, Begin, kubeVars, lbVars
  <2>2. mem' \in {cache, [cache EXCEPT !.fin = TRUE], [cache EXCEPT !.fin = FALSE]}
    BY <1>2 DEF Start, ReconcileStops, AddFinalizer, ReconcileNormal, ReconcileDeleteKeep,
       ReconcileDelete, Begin
  <2>3. mem'.host = cache.host /\ mem'.ready = cache.ready
    BY <1>1, <2>2 DEF CR
  <2>4. pc' \in {"patchConditions", "net", "sg", "delDNS"}
    BY <1>2 DEF Start, ReconcileStops, AddFinalizer, ReconcileNormal, ReconcileDeleteKeep,
       ReconcileDelete, Go, Return
  <2> QED
    BY <2>1, <2>3, <2>4 DEF EndpointInv
<1>3. CASE NormalStep
  <2>1. UNCHANGED <<obj, cache, base>> /\ pc \in NormalPCs /\ pc' # "patchStatus"
    BY <1>3, NormalControl DEF kubeVars, NormalPCs
  <2>2. mem'.ready /\ ~base.ready => pc' \in PatchPCs /\ mem'.host # None
    <3> SUFFICES ASSUME mem'.ready, ~base.ready
                 PROVE  pc' \in PatchPCs /\ mem'.host # None
      OBVIOUS
    <3>1. ~mem.ready
      BY <2>1 DEF EndpointInv, NormalPCs, PatchPCs
    <3>2. pc = "dns"
      BY <1>3, <3>1, NormalMeta DEF MetaKept
    <3>3. mem.host # None /\ mem'.host = mem.host
      BY <1>3, <3>2, NormalMeta DEF EndpointInv, MetaKept
    <3>4. pc' = "patchConditions"
      BY <1>3, <3>2
         DEF NormalStep, UseKnownNetwork, CreatePrivateNetwork, GetPrivateNetwork, EnsureSubnet,
             ReconcileSecurityGroups, ReconcileLoadBalancer, CreateLoadBalancer,
             RepostLoadBalancer, PollLoadBalancer, EnsureListener, EnsurePool,
             EnsurePoolHealthMonitor, FloatingIPOnLB, FloatingIPNotOnLB, GetFloatingIP,
             ListFloatingIPs, CreateLoadBalancerFloatingIP, EnsureGatewayExposed,
             RefreshFloatingIP, ReconcileDNS, CallFails, Return
    <3> QED
      BY <3>3, <3>4 DEF PatchPCs
  <2> QED
    BY <1>3, <2>1, <2>2, NormalEndpoint, NormalMeta, OnlyOVHActivates
       DEF EndpointInv, MetaKept
<1>4. CASE DeleteStep
  <2>1. /\ UNCHANGED <<obj, cache, base>> /\ pc \in DeletePCs
        /\ pc' \in DeletePCs \union {"patchConditions"}
    BY <1>4, DeleteControl DEF kubeVars
  <2>2. pc' \notin OnLBPCs /\ pc' # "patchStatus" /\ (mem.ready => base.ready)
    BY <2>1 DEF DeletePCs, PatchPCs, OnLBPCs, EndpointInv
  <2> QED
    BY <1>4, <2>1, <2>2, DeleteMeta, OnlyOVHActivates DEF EndpointInv, OnLBPCs
<1>5. CASE PatchStep
  BY <1>5, PatchEndpoint
<1>6. CASE EnvStep
  <2>1. /\ obj' \in {obj, [obj EXCEPT !.del = TRUE, !.ex = obj.fin], [obj EXCEPT !.keep = TRUE],
                     [obj EXCEPT !.given = UserNet]}
        /\ obj' # obj => obj.ex
    BY <1>6 DEF EnvStep, CacheSync, Crash, UserDelete, UserKeep, SetOwner, EditNetwork
  <2>2. obj'.host = obj.host /\ obj'.ready = obj.ready /\ (obj'.ex => obj.ex)
    BY <1>1, <2>1 DEF CR
  <2>3. cache' \in {cache, obj}
    BY <1>6 DEF EnvStep, CacheSync, Crash, UserDelete, UserKeep, SetOwner, EditNetwork
  <2>4. CASE UNCHANGED workerVars
    BY <1>6, <2>2, <2>3, <2>4, OnlyOVHActivates DEF EndpointInv, workerVars
  <2>5. CASE Crash
    BY <1>6, <2>2, <2>3, <2>5, OnlyOVHActivates DEF Crash, Go, EndpointInv, NoCR, NewCR
  <2> QED
    BY <1>6, <2>4, <2>5 DEF EnvStep, CacheSync, UserDelete, UserKeep, SetOwner, EditNetwork
<1>7. CASE Cloud \/ Vanish
  <2>1. ASSUME ~FloatingNetwork PROVE \A l \in LBs : lbs'[l] = "ACTIVE" => l \in vips'
    <3>1. ~Fault("noVIP") /\ \A l \in LBs : lbs[l] = "ACTIVE" => l \in vips
      BY <2>1 DEF Fault, EndpointInv
    <3>2. ASSUME NEW l \in LBs, LBProgress(l)
          PROVE  \A k \in LBs : lbs'[k] = "ACTIVE" => k \in vips'
      BY <1>1, <3>1, <3>2 DEF LBProgress, LBGone
    <3>3. ASSUME Vanish PROVE \A k \in LBs : lbs'[k] = "ACTIVE" => k \in vips'
      BY <1>1, <3>1, <3>3 DEF Vanish, LBGone, lbVars
    <3> QED
      BY <1>7, <3>1, <3>2, <3>3 DEF Cloud, NetProgress, FIPProgress, lbVars
  <2> QED
    BY <1>7, <2>1, CloudLeavesKube DEF EndpointInv, kubeVars, workerVars
<1>8. CASE UNCHANGED vars
  BY <1>8 DEF vars, kubeVars, workerVars, lbVars, EndpointInv
<1> QED
  BY <1>2, <1>3, <1>4, <1>5, <1>6, <1>7, <1>8, NextSplit

\* A cluster that is Ready has its control plane endpoint, however the address came
\* (from the load balancer, from its floating IP, from one that was adopted), as long
\* as no request of a patch fails: the endpoint is in the second, Ready in the third.
\* Without a floating IP it also takes a load balancer that is ACTIVE with its address.
THEOREM ReadyWithEndpoint ==
    ASSUME "patch" \notin FaultKinds, FloatingNetwork \/ "noVIP" \notin FaultKinds
    PROVE  Spec => []ReadyHasEndpoint
<1>1. TypeInv /\ FinalizerInv /\ EndpointInv /\ [Next]_vars => EndpointInv'
  BY EndpointStep
<1>2. EndpointInv => ReadyHasEndpoint
  BY DEF EndpointInv, ReadyHasEndpoint
<1> QED
  BY <1>1, <1>2, EndpointInit, BaseCorrect, PTL DEF Spec

-----------------------------------------------------------------------------
(* Served.  As long as nothing of the cluster is deleted, the ids of a record *)
(* are those of one load balancer and of what is on it.                       *)

\* Nothing has been deleted yet: the cluster is not, or the reconcile that is
\* running has not seen it.
Live == ~obj.del \/ pc \in NormalPCs

\* The ids of a record lead to what they name.
Leads(r) ==
    /\ r.lb = None => r.fip = None /\ \A p \in Ports : r.lst[p] = None /\ r.pool[p] = None
    /\ r.lb # None => Listed(r.lb)
    /\ \A p \in Ports : /\ r.lst[p] # None => <<r.lb, p>> \in listeners
                        /\ r.pool[p] # None => <<r.lb, p>> \in pools
    /\ r.fip # None => r.fip = r.lb

SameIds(q, r) == q.lb = r.lb /\ q.lst = r.lst /\ q.pool = r.pool /\ q.fip = r.fip

PortDone(p) == mem.lst[p] # None /\ mem.pool[p] # None

\* The floating IP that the load balancer had when it was read is still on it.
ReadHolds ==
    pc \in {"listener", "pool", "monitor", "fip"} /\ "FloatingIP" \in lbRead =>
        fips[mem.lb] = "up"

\* How far reconcileLoadBalancer and handleExistingLB have come.
Progress ==
    /\ ReadHolds
    /\ pc \in NormalPCs \ OnLBPCs => port = "apiserver"
    /\ pc \in {"lbpost", "lbrepost", "lbpoll"} => mem.lb = None
    /\ pc = "pool" => mem.lst[port] # None
    /\ pc = "monitor" => PortDone(port)
    /\ pc \in OnLBPCs /\ port = "register" => PortDone("apiserver")
    /\ pc \in OnLBPCs \ {"listener", "pool", "monitor"} => \A p \in Ports : PortDone(p)
    /\ pc \in {"exposeKnown", "fipGet"} => mem.fip # None
    /\ pc \in {"expose", "dns"} /\ FloatingNetwork => fips[mem.lb] = "up"

\* Nothing is going or gone, and what a reconcile read is still what is written.
CloudLive ==
    /\ \A l \in LBs : lbs[l] \notin {"PENDING_DELETE", "gone"}
    /\ \A l \in LBs : fips[l] \in {"none", "pending", "up"}
    /\ ExistingLB # None => Listed(ExistingLB)

ServedInv ==
    /\ Live => /\ CloudLive /\ Leads(obj) /\ Leads(mem)
               /\ pc # "idle" => SameIds(base, obj)
    /\ Progress

\* Ids that lead somewhere go on doing so while nothing is removed.
LEMMA LeadsStays ==
    ASSUME TypeInv, NothingRemoved, NEW r \in CR, Leads(r)
    PROVE  Leads(r)'
<1>1. \A l \in LBs : Listed(l) => Listed(l)'
  BY DEF NothingRemoved, Listed
<1>2. listeners \subseteq listeners' /\ pools \subseteq pools'
  BY DEF NothingRemoved
<1>3. r.lb \in LBs \union {None}
  BY Fields
<1> QED
  BY <1>1, <1>2, <1>3 DEF Leads

\* They depend on the ids only.
LEMMA LeadsById ==
    ASSUME NEW q, NEW r, SameIds(q, r), Leads(r)'
    PROVE  Leads(q)'
BY DEF Leads, SameIds

\* A record with a load balancer and nothing else.
LEMMA LeadsFresh ==
    ASSUME NEW q, NEW r, Leads(r), r.lb = None, q.lb # None => Listed(q.lb)',
           q.lst = r.lst, q.pool = r.pool, q.fip = r.fip
    PROVE  Leads(q)'
BY DEF Leads

LEMMA NetworkServed ==
    ASSUME TypeInv, ServedInv, CloudLive, Leads(mem),
           \/ UseKnownNetwork \/ CreatePrivateNetwork \/ GetPrivateNetwork \/ EnsureSubnet
           \/ ReconcileSecurityGroups \/ CallFails \/ RepostLoadBalancer
    PROVE  Leads(mem)' /\ Progress'
<1>1. mem \in CR /\ mem' \in CR
  BY NetworkType, GroupType, CallFailsType, LoadBalancerType DEF TypeInv, TypeOK
<1>2. PICK m : m = mem
  OBVIOUS
<1>3. PICK n : n = mem'
  OBVIOUS
<1>4. SameIds(n, m)
  BY <1>1, <1>2, <1>3 DEF UseKnownNetwork, CreatePrivateNetwork, GetPrivateNetwork, EnsureSubnet,
     ReconcileSecurityGroups, CallFails, RepostLoadBalancer, SameIds, CR
<1>5. NormalStep
  BY DEF NormalStep
<1>6. Leads(mem)'
  BY <1>1, <1>2, <1>3, <1>4, <1>5, NormalRemovesNothing, LeadsStays, LeadsById
<1>7. /\ port' = port
      /\ pc' \in {"net", "netget", "subnet", "sg", "lb", "lbpoll", "patchConditions"}
      /\ pc' = "lbpoll" => pc = "lbrepost" /\ mem' = mem
  BY DEF UseKnownNetwork, CreatePrivateNetwork, GetPrivateNetwork, EnsureSubnet,
     ReconcileSecurityGroups, CallFails, RepostLoadBalancer, aside, Go, Return
<1>8. Progress'
  <2>1. pc' \in NormalPCs => port' = "apiserver"
    <3>1. CASE CallFails
      BY <3>1 DEF CallFails, Return, NormalPCs
    <3>2. CASE ~CallFails
      BY <1>7, <3>2 DEF UseKnownNetwork, CreatePrivateNetwork, GetPrivateNetwork, EnsureSubnet,
         ReconcileSecurityGroups, RepostLoadBalancer, ServedInv, Progress, NormalPCs, OnLBPCs
    <3> QED
      BY <3>1, <3>2
  <2> QED
    BY <1>7, <2>1 DEF ServedInv, Progress, ReadHolds, OnLBPCs
<1> QED
  BY <1>6, <1>8

LEMMA LoadBalancerServed ==
    ASSUME ExistingFIP = None, TypeInv, ServedInv, CloudLive, Leads(mem),
           ReconcileLoadBalancer \/ CreateLoadBalancer \/ PollLoadBalancer
    PROVE  Leads(mem)' /\ Progress'
<1>1. mem \in CR /\ NothingRemoved /\ port' = port /\ port = "apiserver"
  <2>1. NormalStep
    BY DEF NormalStep
  <2> QED
    BY <2>1, NormalRemovesNothing DEF TypeInv, TypeOK, ReconcileLoadBalancer, CreateLoadBalancer,
       PollLoadBalancer, aside, ServedInv, Progress, NormalPCs, OnLBPCs
<1>2. PICK m : m = mem
  OBVIOUS
<1>3. PICK n : n = mem'
  OBVIOUS
<1>4. \A l \in LBs : Listed(l) => Listed(l)'
  BY <1>1 DEF NothingRemoved, Listed
<1>5. CASE ReconcileLoadBalancer
  <2>1. PICK r : r = Adopt(mem)
    OBVIOUS
  <2>2. /\ r.lst = mem.lst /\ r.pool = mem.pool /\ r.fip = mem.fip
        /\ r.lb = IF mem.lb = None THEN ExistingLB ELSE mem.lb
    BY <1>1, <2>1 DEF Adopt, CR
  <2>3. r.lb \in LBs \union {None} /\ (r.lb # None => Listed(r.lb))
    BY <1>1, <2>2, Fields, ConstantsAssumption DEF Leads, CloudLive
  <2>4. mem' = r
    BY <1>5, <2>1, <2>3 DEF ReconcileLoadBalancer
  <2>5. /\ pc' \in {"listener", "lbpost", "patchConditions"}
        /\ pc' = "lbpost" => r.lb = None
    BY <1>5, <2>1, <2>3 DEF ReconcileLoadBalancer, Go
  <2>6. Leads(mem)'
    <3>1. CASE mem.lb = None
      BY <1>2, <1>3, <1>4, <2>2, <2>3, <2>4, <3>1, LeadsFresh
    <3>2. CASE mem.lb # None
      BY <1>1, <1>2, <1>3, <2>2, <2>4, <3>2, LeadsStays, LeadsById DEF SameIds
    <3> QED
      BY <3>1, <3>2
  <2>7. ReadHolds'
    <3>1. pc' = "listener" => lbRead' \in LBAnswers(mem'.lb) /\ fips' = fips
      BY <1>5, <2>1, <2>3, <2>4 DEF ReconcileLoadBalancer, Go, restVars
    <3> QED
      BY <2>5, <3>1 DEF ReadHolds, LBAnswers
  <2> QED
    BY <1>1, <2>4, <2>5, <2>6, <2>7 DEF Progress, OnLBPCs
<1>6. CASE CreateLoadBalancer \/ PollLoadBalancer
  <2>1. mem.lb = None /\ \A l \in FoundByName \union ListedOwn : l \in LBs /\ Listed(l)
    BY <1>6 DEF CreateLoadBalancer, PollLoadBalancer, ServedInv, Progress, FoundByName,
       ListedOwn, OwnLBs
  <2>2. mem' = mem \/ \E l \in LBs : Listed(l) /\ mem' = [mem EXCEPT !.lb = l]
    BY <1>6, <2>1 DEF CreateLoadBalancer, PollLoadBalancer
  <2>3. /\ n.lst = m.lst /\ n.pool = m.pool /\ n.fip = m.fip
        /\ n.lb # None => Listed(n.lb)'
    BY <1>1, <1>2, <1>3, <1>4, <2>1, <2>2 DEF CR
  <2>4. Leads(mem)'
    BY <1>2, <1>3, <2>1, <2>3, LeadsFresh
  <2>5. /\ pc' \in {"lbpoll", "lbrepost", "patchConditions"}
        /\ pc' # "patchConditions" => mem' = mem
    BY <1>6 DEF CreateLoadBalancer, PollLoadBalancer, Go, Return
  <2> QED
    BY <1>1, <2>1, <2>4, <2>5 DEF Progress, ReadHolds, OnLBPCs
<1> QED
  BY <1>5, <1>6

LEMMA PortServed ==
    ASSUME TypeInv, ServedInv, CloudLive, Leads(mem),
           EnsureListener \/ EnsurePool \/ EnsurePoolHealthMonitor
    PROVE  Leads(mem)' /\ Progress'
<1>1. mem \in CR /\ NothingRemoved /\ port \in Ports
  <2>1. NormalStep
    BY DEF NormalStep
  <2> QED
    BY <2>1, NormalRemovesNothing DEF TypeInv, TypeOK
<1>2. PICK m : m = mem
  OBVIOUS
<1>3. PICK n : n = mem'
  OBVIOUS
<1>4. Leads(m)' /\ m \in CR
  BY <1>1, <1>2, LeadsStays
<1>5. /\ mem.lb # None
      /\ port = "register" => PortDone("apiserver")
  BY DEF EnsureListener, EnsurePool, EnsurePoolHealthMonitor, TypeInv, Knows, OnLBPCs,
     ServedInv, Progress
<1>9. ASSUME mem'.lb = mem.lb PROVE ReadHolds'
  <2>1. UNCHANGED <<lbRead, fips>> /\ pc \in {"listener", "pool", "monitor"}
    BY DEF EnsureListener, EnsurePool, EnsurePoolHealthMonitor, aside, restVars
  <2> QED
    BY <1>9, <2>1 DEF ReadHolds, ServedInv, Progress
<1>6. CASE EnsureListener
  <2>1. \/ n = m /\ (pc' = "pool" => mem.lst[port] # None)
        \/ n = [m EXCEPT !.lst[port] = m.lb] /\ <<m.lb, port>> \in listeners'
    BY <1>2, <1>3, <1>6 DEF EnsureListener, ListenerNamed, PostListener, Go, Return
  <2>2. pc' \in {"pool", "patchConditions"} /\ port' = port
    BY <1>6 DEF EnsureListener, Go, Return, aside
  <2>3. CASE n = m /\ (pc' = "pool" => mem.lst[port] # None)
    <3>1. mem' = mem /\ Leads(mem)'
      BY <1>2, <1>3, <1>4, <2>3
    <3>2. pc' = "pool" => mem'.lst[port'] # None
      BY <2>2, <2>3, <3>1
    <3>3. port' = "register" => PortDone("apiserver")'
      BY <1>5, <2>2, <3>1 DEF PortDone
    <3> QED
      BY <1>9, <2>2, <3>1, <3>2, <3>3 DEF Progress, OnLBPCs, NormalPCs
  <2>4. CASE n = [m EXCEPT !.lst[port] = m.lb] /\ <<m.lb, port>> \in listeners'
    <3>1. /\ n.lb = m.lb /\ n.pool = m.pool /\ n.fip = m.fip
          /\ \A p \in Ports : n.lst[p] = IF p = port THEN m.lb ELSE m.lst[p]
      BY <1>1, <1>4, <2>4 DEF CR
    <3>2. Leads(n)'
      BY <1>2, <1>4, <1>5, <2>4, <3>1 DEF Leads
    <3>3. mem'.lst[port] # None /\ (port = "register" => PortDone("apiserver")')
      BY <1>1, <1>2, <1>3, <1>5, <3>1 DEF PortDone, Ports
    <3> QED
      BY <1>9, <1>2, <1>3, <2>2, <3>1, <3>2, <3>3 DEF Progress, OnLBPCs, NormalPCs
  <2> QED
    BY <2>1, <2>3, <2>4
<1>7. CASE EnsurePool
  <2>1. mem.lst[port] # None
    BY <1>7 DEF EnsurePool, ServedInv, Progress
  <2>2. \/ n = m /\ (pc' = "monitor" => mem.pool[port] # None)
        \/ n = [m EXCEPT !.pool[port] = m.lb] /\ <<m.lb, port>> \in pools'
    BY <1>2, <1>3, <1>7 DEF EnsurePool, PoolNamed, PostPool, Go, Return
  <2>3. pc' \in {"monitor", "patchConditions"} /\ port' = port
    BY <1>7 DEF EnsurePool, Go, Return, aside
  <2>4. CASE n = m /\ (pc' = "monitor" => mem.pool[port] # None)
    <3>1. mem' = mem /\ Leads(mem)'
      BY <1>2, <1>3, <1>4, <2>4
    <3>2. pc' = "monitor" => PortDone(port)'
      BY <2>1, <2>3, <2>4, <3>1 DEF PortDone
    <3>3. port' = "register" => PortDone("apiserver")'
      BY <1>5, <2>3, <3>1 DEF PortDone
    <3> QED
      BY <1>9, <2>3, <3>1, <3>2, <3>3 DEF Progress, OnLBPCs, NormalPCs
  <2>5. CASE n = [m EXCEPT !.pool[port] = m.lb] /\ <<m.lb, port>> \in pools'
    <3>1. /\ n.lb = m.lb /\ n.lst = m.lst /\ n.fip = m.fip
          /\ \A p \in Ports : n.pool[p] = IF p = port THEN m.lb ELSE m.pool[p]
      BY <1>1, <1>4, <2>5 DEF CR
    <3>2. Leads(n)'
      BY <1>2, <1>4, <1>5, <2>5, <3>1 DEF Leads
    <3>3. mem'.lst[port] # None /\ mem'.pool[port] # None /\ (port = "register" => PortDone("apiserver")')
      BY <1>1, <1>2, <1>3, <1>5, <2>1, <3>1 DEF PortDone, Ports
    <3> QED
      BY <1>9, <1>2, <1>3, <2>3, <3>1, <3>2, <3>3 DEF Progress, OnLBPCs, NormalPCs, PortDone
  <2> QED
    BY <2>2, <2>4, <2>5
<1>8. CASE EnsurePoolHealthMonitor
  <2>1. SameIds(n, m)
    BY <1>1, <1>2, <1>3, <1>8, EndpointKeeps DEF EnsurePoolHealthMonitor, SameIds
  <2>2. /\ port' = "register" /\ pc' \in {"listener", "fip", "dns"}
        /\ pc' # "listener" => port = "register"
        /\ pc' = "dns" => ~FloatingNetwork
    <3>1. port' = "register" /\ pc' = AfterMonitor
      BY <1>8 DEF EnsurePoolHealthMonitor, Go
    <3>2. CASE port = "apiserver"
      BY <3>1, <3>2 DEF AfterMonitor
    <3>3. CASE port # "apiserver" /\ FloatingNetwork
      BY <1>1, <3>1, <3>3 DEF AfterMonitor, Ports
    <3>4. CASE port # "apiserver" /\ ~FloatingNetwork
      BY <1>1, <3>1, <3>4 DEF AfterMonitor, Ports
    <3> QED
      BY <3>2, <3>3, <3>4
  <2>3. PortDone(port) /\ PortDone("apiserver")
    BY <1>1, <1>5, <1>8 DEF EnsurePoolHealthMonitor, ServedInv, Progress, Ports
  <2>4. Leads(mem)'
    BY <1>3, <1>4, <2>1, LeadsById
  <2>5. PortDone("apiserver")' /\ (pc' # "listener" => PortDone("register")')
    BY <1>2, <1>3, <2>1, <2>2, <2>3 DEF PortDone, SameIds
  <2>6. ReadHolds'
    BY <1>9, <1>2, <1>3, <2>1 DEF SameIds
  <2> QED
    BY <2>2, <2>4, <2>5, <2>6 DEF Progress, OnLBPCs, NormalPCs, Ports
<1> QED
  BY <1>6, <1>7, <1>8

LEMMA FloatingIPServed ==
    ASSUME ExistingFIP = None, TypeInv, ServedInv, CloudLive, Leads(mem),
           \/ FloatingIPOnLB \/ FloatingIPNotOnLB \/ GetFloatingIP \/ ListFloatingIPs
           \/ CreateLoadBalancerFloatingIP \/ EnsureGatewayExposed \/ RefreshFloatingIP
           \/ ReconcileDNS
    PROVE  Leads(mem)' /\ Progress'
<1>1. mem \in CR /\ NothingRemoved
  <2>1. NormalStep
    BY DEF NormalStep
  <2> QED
    BY <2>1, NormalRemovesNothing DEF TypeInv, TypeOK
<1>2. PICK m : m = mem
  OBVIOUS
<1>3. PICK n : n = mem'
  OBVIOUS
<1>4. Leads(m)' /\ m \in CR
  BY <1>1, <1>2, LeadsStays
<1>5. /\ pc \in OnLBPCs \ {"listener", "pool", "monitor"}
      /\ port' = port
  BY DEF FloatingIPOnLB, FloatingIPNotOnLB, GetFloatingIP, ListFloatingIPs,
     CreateLoadBalancerFloatingIP, EnsureGatewayExposed, RefreshFloatingIP, ReconcileDNS,
     inFloatingIP, aside, OnLBPCs
<1>6. mem.lb \in LBs /\ mem.lb # None /\ \A p \in Ports : PortDone(p)
  BY <1>1, <1>5, Fields, ConstantsAssumption DEF TypeInv, Knows, ServedInv, Progress
<1>7. n.lb = m.lb /\ n.lst = m.lst /\ n.pool = m.pool /\ n.fip \in {m.fip, m.lb, None}
  <2>1. PICK r \in CR : r = [mem EXCEPT !.fip = mem.lb]
    BY <1>1, Fields, CopyType
  <2>2. SameIds(r, [m EXCEPT !.fip = m.lb]) /\ r.lb = m.lb /\ r.lst = m.lst /\ r.pool = m.pool
        /\ r.fip = m.lb
    BY <1>1, <1>2, <2>1 DEF CR, SameIds
  <2>3. CASE \/ FloatingIPOnLB \/ GetFloatingIP \/ ListFloatingIPs \/ RefreshFloatingIP
    <3>1. \/ mem' = WithEndpoint(r, mem.lb) \/ mem' = WithEndpoint(mem, mem.fip)
          \/ mem' = r \/ mem' = [mem EXCEPT !.fip = None] \/ mem' = mem
      BY <2>1, <2>3, Zenon
         DEF FloatingIPOnLB, GetFloatingIP, ListFloatingIPs, RefreshFloatingIP
    <3>2. CASE mem' = WithEndpoint(r, mem.lb) \/ mem' = WithEndpoint(mem, mem.fip)
      BY <1>1, <1>2, <1>3, <2>2, <3>2, EndpointKeeps
    <3>3. CASE mem' = r \/ mem' = [mem EXCEPT !.fip = None] \/ mem' = mem
      BY <1>1, <1>2, <1>3, <2>2, <3>3 DEF CR
    <3> QED
      BY <3>1, <3>2, <3>3
  <2>4. CASE EnsureGatewayExposed \/ ReconcileDNS
    BY <1>1, <1>2, <1>3, <2>4 DEF EnsureGatewayExposed, ReconcileDNS, CR
  <2>5. CASE FloatingIPNotOnLB \/ CreateLoadBalancerFloatingIP
    BY <1>2, <1>3, <2>5 DEF FloatingIPNotOnLB, CreateLoadBalancerFloatingIP
  <2> QED
    BY <2>3, <2>4, <2>5
<1>8. Leads(mem)'
  BY <1>2, <1>3, <1>4, <1>6, <1>7 DEF Leads
<1>9. \A p \in Ports : PortDone(p)'
  BY <1>2, <1>3, <1>6, <1>7 DEF PortDone
<1>10. /\ pc' \notin {"lbpost", "lbrepost", "lbpoll"} /\ pc' \notin NormalPCs \ OnLBPCs
       /\ pc' \notin {"listener", "pool", "monitor"}
  BY DEF FloatingIPOnLB, FloatingIPNotOnLB, GetFloatingIP, ListFloatingIPs,
     CreateLoadBalancerFloatingIP, EnsureGatewayExposed, RefreshFloatingIP, ReconcileDNS,
     Go, Return, NormalPCs, OnLBPCs
<1>11. pc' \in {"exposeKnown", "fipGet"} => mem'.fip # None
  <2>1. CASE FloatingIPNotOnLB
    BY <2>1 DEF FloatingIPNotOnLB, Go
  <2>2. CASE EnsureGatewayExposed
    <3>1. mem'.fip = mem.fip /\ (pc' = "fipGet" => pc = "exposeKnown") /\ pc' # "exposeKnown"
      BY <1>1, <2>2 DEF EnsureGatewayExposed, Go, CR
    <3> QED
      BY <3>1 DEF ServedInv, Progress
  <2>3. CASE ~FloatingIPNotOnLB /\ ~EnsureGatewayExposed
    BY <2>3 DEF FloatingIPOnLB, GetFloatingIP, ListFloatingIPs, CreateLoadBalancerFloatingIP,
       RefreshFloatingIP, ReconcileDNS, Go, Return
  <2> QED
    BY <2>1, <2>2, <2>3
<1>12. pc' \in {"expose", "dns"} /\ FloatingNetwork => fips'[mem'.lb] = "up"
  <2> SUFFICES ASSUME pc' \in {"expose", "dns"}, FloatingNetwork PROVE fips[mem.lb] = "up"
    <3>1. mem.lb \in FIPs
      BY <1>6 DEF FIPs
    <3> QED
      BY <1>1, <1>2, <1>3, <1>7, <3>1 DEF NothingRemoved
  <2>1. CASE FloatingIPOnLB
    BY <2>1 DEF FloatingIPOnLB, ServedInv, Progress, ReadHolds
  <2>5. CASE ListFloatingIPs \/ RefreshFloatingIP
    BY <2>5 DEF ListFloatingIPs, RefreshFloatingIP, Go, Return
  <2>2. CASE GetFloatingIP
    <3>1. mem.fip = mem.lb
      BY <2>2 DEF GetFloatingIP, ServedInv, Progress, Leads
    <3>2. fips[mem.fip] \in {"up", "down", "reaping"}
      BY <2>2 DEF GetFloatingIP, Go, Return
    <3> QED
      BY <1>6, <3>1, <3>2 DEF CloudLive
  <2>3. CASE EnsureGatewayExposed
    <3>1. pc = "expose"
      BY <2>3 DEF EnsureGatewayExposed, Go
    <3> QED
      BY <3>1 DEF ServedInv, Progress
  <2>4. CASE FloatingIPNotOnLB \/ CreateLoadBalancerFloatingIP \/ ReconcileDNS
    BY <2>4 DEF FloatingIPNotOnLB, CreateLoadBalancerFloatingIP, ReconcileDNS, Go, Return
  <2> QED
    BY <2>1, <2>2, <2>3, <2>4, <2>5
<1>13. pc' \notin {"listener", "pool", "monitor", "fip"}
  BY DEF FloatingIPOnLB, FloatingIPNotOnLB, GetFloatingIP, ListFloatingIPs,
     CreateLoadBalancerFloatingIP, EnsureGatewayExposed, RefreshFloatingIP, ReconcileDNS,
     Go, Return
<1> QED
  BY <1>8, <1>9, <1>10, <1>11, <1>12, <1>13 DEF Progress, ReadHolds, Ports

LEMMA NormalServed ==
    ASSUME ExistingFIP = None, TypeInv, ServedInv, NormalStep
    PROVE  Leads(mem)' /\ Progress'
<1>1. CloudLive /\ Leads(mem)
  BY NormalControl DEF ServedInv, Live
<1> QED
  BY <1>1, NetworkServed, LoadBalancerServed, PortServed, FloatingIPServed DEF NormalStep

\* While the cluster is live no step takes anything away.
LEMMA LiveKeeps ==
    ASSUME ExistingFIP = None, "vanish" \notin FaultKinds,
           TypeInv, FinalizerInv, ServedInv, Live, [Next]_vars
    PROVE  NothingRemoved
<1>1. CloudLive /\ FIPs = LBs /\ ~Vanish
  BY DEF ServedInv, FIPs, Vanish, Fault
<1>2. ~DeleteStep
  BY DeleteControl DEF FinalizerInv, CopyInv, RunInv, Live, NormalPCs, DeletePCs
<1>3. /\ lbs \in [LBs -> LBStatuses] /\ fips \in [FIPs -> FIPStatuses]
      /\ nets \in [Nets -> NetStatuses] /\ records \in Nat
  BY ConstantsAssumption DEF TypeInv, TypeOK
<1>4. CASE Start \/ PatchStep \/ EnvStep \/ UNCHANGED vars
  <2>1. UNCHANGED <<netVars, lbVars, restVars>>
    BY <1>4 DEF Start, ReconcileStops, AddFinalizer, ReconcileNormal, ReconcileDeleteKeep,
       ReconcileDelete, Begin, PatchStep, PatchConditions, PatchObject, PatchStatus, inPatch,
       EnvStep, CacheSync, Crash, UserDelete, UserKeep, SetOwner, EditNetwork, cloudStays,
       vars
  <2> QED
    BY <2>1, CloudUnchanged
<1>5. CASE NormalStep
  BY <1>5, NormalRemovesNothing
<1>6. CASE Cloud
  <2>1. ASSUME NEW n \in Nets, NetProgress(n) PROVE NothingRemoved
    BY <1>3, <2>1 DEF NetProgress, NothingRemoved, lbVars, restVars
  <2>2. ASSUME NEW l \in LBs, LBProgress(l) PROVE NothingRemoved
    <3>1. lbs[l] # "PENDING_DELETE"
      BY <1>1 DEF CloudLive
    <3>2. UNCHANGED <<netVars, listeners, pools, fips, gateway, sgroup, records>>
      BY <2>2, <3>1 DEF LBProgress
    <3>3. /\ \A k \in LBs : lbs'[k] \in {"PENDING_DELETE", "gone"} => lbs'[k] = lbs[k]
          /\ \A k \in LBs : lbs'[k] \in {"none", "hidden"} => lbs[k] \in {"none", "hidden"}
      BY <1>3, <2>2, <3>1 DEF LBProgress
    <3> QED
      BY <1>3, <3>2, <3>3 DEF NothingRemoved, netVars
  <2>3. ASSUME NEW f \in FIPs, FIPProgress(f) PROVE NothingRemoved
    <3>1. fips[f] # "reaping"
      BY <1>1 DEF CloudLive
    <3> QED
      BY <1>3, <2>3, <3>1 DEF FIPProgress, NothingRemoved, netVars, lbVars
  <2> QED
    BY <1>6, <2>1, <2>2, <2>3 DEF Cloud
<1> QED
  BY <1>1, <1>2, <1>4, <1>5, <1>6, NextSplit

\* A cluster that is live was live before: without a stale cache a reconcile takes the
\* normal path only when the object was not deleted as it began.
LEMMA LiveBefore ==
    ASSUME "stale" \notin FaultKinds, TypeInv, FinalizerInv, [Next]_vars, Live'
    PROVE  Live
<1>1. obj \in CR
  BY DEF TypeInv, TypeOK
<1>2. CASE Start
  <2>1. UNCHANGED obj /\ cache = obj
    BY <1>2 DEF Start, ReconcileStops, AddFinalizer, ReconcileNormal, ReconcileDeleteKeep,
       ReconcileDelete, Begin, kubeVars
  <2>2. pc' \in NormalPCs => ~cache.del
    BY <1>2 DEF Start, ReconcileStops, AddFinalizer, ReconcileNormal, ReconcileDeleteKeep,
       ReconcileDelete, Go, Return, NormalPCs
  <2> QED
    BY <2>1, <2>2 DEF Live
<1>3. CASE NormalStep
  BY <1>3, NormalControl DEF Live
<1>4. CASE DeleteStep
  BY <1>4, DeleteControl DEF Live, kubeVars, NormalPCs, DeletePCs
<1>5. CASE PatchStep
  BY <1>5, PatchMeta DEF Live, NormalPCs, PatchPCs
<1>6. CASE EnvStep
  <2>1. obj'.del = obj.del \/ obj'.del
    BY <1>1, <1>6 DEF EnvStep, CacheSync, Crash, UserDelete, UserKeep, SetOwner, EditNetwork, CR
  <2>2. pc' = pc \/ pc' = "idle"
    BY <1>6 DEF EnvStep, CacheSync, Crash, UserDelete, UserKeep, SetOwner, EditNetwork,
       workerVars, Go
  <2> QED
    BY <1>1, <2>1, <2>2 DEF Live, NormalPCs, CR
<1>7. CASE Cloud \/ Vanish \/ UNCHANGED vars
  BY <1>7, CloudLeavesKube DEF Live, vars, kubeVars, workerVars
<1> QED
  BY <1>2, <1>3, <1>4, <1>5, <1>6, <1>7, NextSplit

LEMMA CloudLiveStays ==
    ASSUME TypeInv, TypeInv', NothingRemoved, CloudLive
    PROVE  CloudLive'
<1>1. \A l \in LBs : lbs'[l] \notin {"PENDING_DELETE", "gone"}
  BY DEF NothingRemoved, CloudLive
<1>2. \A l \in LBs : fips'[l] \in {"none", "pending", "up"}
  BY DEF NothingRemoved, CloudLive, TypeInv, TypeOK, FIPStatuses, FIPs
<1>3. ExistingLB # None => Listed(ExistingLB)'
  BY ConstantsAssumption DEF NothingRemoved, CloudLive, Listed
<1> QED
  BY <1>1, <1>2, <1>3 DEF CloudLive

\* The progress of a reconcile is unaffected by what happens to others.
LEMMA ProgressStays ==
    ASSUME TypeInv, ServedInv, Progress, pc \in NormalPCs => NothingRemoved,
           UNCHANGED workerVars
    PROVE  Progress'
<1>1. mem' = mem /\ pc' = pc /\ port' = port
  BY DEF workerVars
<1>2. pc \in {"expose", "dns"} => mem.lb \in FIPs
  BY Fields DEF TypeInv, TypeOK, Knows, OnLBPCs, FIPs
<1>3. pc \in {"expose", "dns"} /\ FloatingNetwork => fips'[mem.lb] = "up"
  BY <1>2 DEF Progress, NothingRemoved, NormalPCs
<1>4. ReadHolds'
  <2>1. pc \in {"listener", "pool", "monitor", "fip"} => mem.lb \in FIPs
    BY Fields DEF TypeInv, TypeOK, Knows, OnLBPCs, FIPs
  <2> QED
    BY <2>1 DEF ReadHolds, Progress, NothingRemoved, NormalPCs, workerVars
<1> QED
  BY <1>1, <1>3, <1>4 DEF Progress, PortDone

\* Outside of ReconcileNormal there is no progress to speak of.
LEMMA NoProgress ==
    ASSUME pc' \notin NormalPCs
    PROVE  Progress'
BY DEF Progress, ReadHolds, NormalPCs, OnLBPCs

\* A patch over ids that nobody else has changed leaves those of the object or
\* writes those of the reconcile, all together.
LEMMA PatchIds ==
    ASSUME TypeInv, PatchStep, SameIds(base, obj)
    PROVE  /\ PatchConditions \/ PatchObject => SameIds(obj', obj)
           /\ PatchStatus => SameIds(obj', obj) \/ SameIds(obj', mem)
<1>1. obj \in CR /\ base \in CR /\ mem \in CR
  BY DEF TypeInv, TypeOK
<1>2. PatchConditions \/ PatchObject => SameIds(obj', obj)
  <2>1. ConditionsWritten.lb = obj.lb /\ ConditionsWritten.lst = obj.lst
        /\ ConditionsWritten.pool = obj.pool /\ ConditionsWritten.fip = obj.fip
    BY <1>1 DEF ConditionsWritten, CR
  <2>2. ObjectWritten.lb = obj.lb /\ ObjectWritten.lst = obj.lst
        /\ ObjectWritten.pool = obj.pool /\ ObjectWritten.fip = obj.fip
    BY <1>1 DEF ObjectWritten, CR
  <2> QED
    BY <2>1, <2>2, PatchWrites DEF SameIds
<1>3. SameIds(StatusWritten, mem)
  <2>1. /\ StatusWritten.lb = Merged("lb") /\ StatusWritten.fip = Merged("fip")
        /\ StatusWritten.lst = MergedPorts("lst") /\ StatusWritten.pool = MergedPorts("pool")
    BY <1>1 DEF StatusWritten, CR
  <2>2. Merged("lb") = mem.lb /\ Merged("fip") = mem.fip
    BY DEF Merged, SameIds
  <2>3. /\ mem.lst \in [Ports -> LBs \union {None}] /\ mem.pool \in [Ports -> LBs \union {None}]
    BY <1>1 DEF CR
  <2>4. MergedPorts("lst") = mem.lst
    <3>1. MergedPorts("lst") = [p \in Ports |-> mem.lst[p]]
      BY DEF MergedPorts, SameIds
    <3> QED
      BY <2>3, <3>1
  <2>5. MergedPorts("pool") = mem.pool
    <3>1. MergedPorts("pool") = [p \in Ports |-> mem.pool[p]]
      BY DEF MergedPorts, SameIds
    <3> QED
      BY <2>3, <3>1
  <2> QED
    BY <2>1, <2>2, <2>4, <2>5 DEF SameIds
<1>4. SameIds(obj, obj)
  BY DEF SameIds
<1> QED
  BY <1>2, <1>3, <1>4, PatchWrites

\* A record without ids.
LEMMA LeadsNowhere == Leads(NoCR) /\ Leads(NoCR)' /\ Leads(NewCR)
<1>1. /\ NoCR.lb = None /\ NoCR.fip = None /\ NewCR.lb = None /\ NewCR.fip = None
      /\ \A p \in Ports : /\ NoCR.lst[p] = None /\ NoCR.pool[p] = None
                          /\ NewCR.lst[p] = None /\ NewCR.pool[p] = None
  BY DEF NoCR, NewCR, NoPorts
<1> QED
  BY <1>1 DEF Leads

LEMMA ServedInit == ExistingFIP = None /\ Init => ServedInv
<1> SUFFICES ASSUME ExistingFIP = None, Init PROVE ServedInv
  OBVIOUS
<1>1. CloudLive
  BY ConstantsAssumption DEF Init, CloudLive, Listed, FIPs
<1>2. Leads(obj) /\ Leads(mem) /\ pc = "idle"
  BY LeadsNowhere DEF Init
<1> QED
  BY <1>1, <1>2 DEF ServedInv, Progress, ReadHolds, NormalPCs, OnLBPCs

LEMMA ServedStep ==
    ASSUME ExistingFIP = None, {"stale", "vanish"} \intersect FaultKinds = {},
           TypeInv, TypeInv', FinalizerInv, ServedInv, [Next]_vars
    PROVE  ServedInv'
<1>1. obj \in CR /\ base \in CR /\ mem \in CR /\ Progress
  BY DEF TypeInv, TypeOK, ServedInv
<1>2. Live' => Live
  BY LiveBefore
<1>3. Live => /\ NothingRemoved /\ CloudLive' /\ Leads(obj) /\ Leads(mem)
              /\ pc # "idle" => SameIds(base, obj)
  BY LiveKeeps, CloudLiveStays DEF ServedInv
<1>4. PICK o : o = obj
  OBVIOUS
<1>5. PICK q : q = obj'
  OBVIOUS
<1>6. PICK m : m = mem
  OBVIOUS
<1>7. PICK n : n = mem'
  OBVIOUS
<1>8. Live => Leads(o)' /\ Leads(m)'
  BY <1>1, <1>3, <1>4, <1>6, LeadsStays
<1>9. pc \in NormalPCs => Live
  BY DEF Live
<1>10. CASE Start
  <2>1. /\ UNCHANGED obj /\ cache = obj /\ base' = cache /\ port' = "apiserver"
    BY <1>10 DEF Start, ReconcileStops, AddFinalizer, ReconcileNormal, ReconcileDeleteKeep,
       ReconcileDelete, Begin, kubeVars
  <2>2. mem' \in {cache, [cache EXCEPT !.fin = TRUE], [cache EXCEPT !.fin = FALSE]}
    BY <1>10 DEF Start, ReconcileStops, AddFinalizer, ReconcileNormal, ReconcileDeleteKeep,
       ReconcileDelete, Begin
  <2>3. SameIds(n, o) /\ SameIds(base', obj')
    BY <1>1, <1>4, <1>7, <2>1, <2>2 DEF CR, SameIds
  <2>4. Live => Leads(n)'
    BY <1>8, <2>3, LeadsById
  <2>5. pc' \in {"patchConditions", "net", "sg", "delDNS"}
    BY <1>10 DEF Start, ReconcileStops, AddFinalizer, ReconcileNormal, ReconcileDeleteKeep,
       ReconcileDelete, Go, Return
  <2>6. Progress'
    BY <2>1, <2>5 DEF Progress, ReadHolds, OnLBPCs
  <2>7. Live => Leads(mem)' /\ Leads(obj)'
    BY <1>4, <1>7, <1>8, <2>1, <2>4
  <2> QED
    BY <1>2, <1>3, <2>3, <2>6, <2>7 DEF ServedInv
<1>11. CASE NormalStep
  <2>1. UNCHANGED <<obj, base>> /\ pc \in NormalPCs
    BY <1>11, NormalControl DEF kubeVars
  <2>2. Leads(mem)' /\ Progress'
    BY <1>11, NormalServed
  <2>3. Leads(obj)' /\ SameIds(base', obj')
    BY <1>3, <1>4, <1>8, <1>9, <2>1 DEF NormalPCs
  <2> QED
    BY <1>3, <1>9, <2>1, <2>2, <2>3 DEF ServedInv
<1>12. CASE DeleteStep
  <2>1. pc \in DeletePCs /\ pc' \notin NormalPCs
    BY <1>12, DeleteControl DEF DeletePCs, NormalPCs
  <2>2. ~Live
    BY <2>1 DEF FinalizerInv, CopyInv, RunInv, Live, NormalPCs, DeletePCs
  <2> QED
    BY <1>2, <2>1, <2>2, NoProgress DEF ServedInv
<1>13. CASE PatchStep
  <2>1. pc # "idle" /\ pc' \notin NormalPCs
    BY <1>13, PatchMeta DEF PatchPCs, NormalPCs
  <2>2. CASE PatchConditions \/ PatchObject
    <3>1. UNCHANGED <<base, mem>>
      BY <2>2 DEF PatchConditions, PatchObject
    <3>2. Live => SameIds(q, o)
      BY <1>3, <1>4, <1>5, <1>13, <2>1, <2>2, PatchIds
    <3>3. Live => Leads(q)' /\ SameIds(base', obj')
      BY <1>3, <1>4, <1>5, <1>8, <2>1, <3>1, <3>2, LeadsById DEF SameIds
    <3>4. Live => Leads(mem)' /\ Leads(obj)'
      BY <1>5, <1>6, <1>8, <3>1, <3>3
    <3> QED
      BY <1>2, <1>3, <2>1, <3>3, <3>4, NoProgress DEF ServedInv
  <2>3. CASE PatchStatus
    <3>1. mem' = NoCR /\ pc' = "idle"
      BY <2>3 DEF PatchStatus, Go
    <3>2. Live => SameIds(q, o) \/ SameIds(q, m)
      BY <1>3, <1>4, <1>5, <1>6, <1>13, <2>1, <2>3, PatchIds
    <3>3. Live => Leads(q)'
      BY <1>8, <3>2, LeadsById
    <3>4. Live => Leads(mem)' /\ Leads(obj)'
      BY <1>5, <3>1, <3>3, LeadsNowhere
    <3> QED
      BY <1>2, <1>3, <2>1, <3>1, <3>4, NoProgress DEF ServedInv
  <2> QED
    BY <1>13, <2>2, <2>3 DEF PatchStep
<1>14. CASE EnvStep
  <2>1. obj' \in {obj, [obj EXCEPT !.del = TRUE, !.ex = obj.fin], [obj EXCEPT !.keep = TRUE],
                  [obj EXCEPT !.given = UserNet]}
    BY <1>14 DEF EnvStep, CacheSync, Crash, UserDelete, UserKeep, SetOwner, EditNetwork
  <2>2. SameIds(q, o)
    BY <1>1, <1>4, <1>5, <2>1 DEF CR, SameIds
  <2>3. Live => Leads(q)'
    BY <1>8, <2>2, LeadsById
  <2>4. Live => Leads(obj)'
    BY <1>5, <2>3
  <2>5. CASE UNCHANGED workerVars
    <3>1. UNCHANGED <<pc, base, mem>>
      BY <2>5 DEF workerVars
    <3>2. Live /\ pc' # "idle" => SameIds(base', obj')
      BY <1>3, <1>4, <1>5, <2>2, <3>1 DEF SameIds
    <3>3. Live => Leads(mem)'
      BY <1>6, <1>8, <3>1
    <3>4. Progress'
      BY <1>1, <1>3, <1>9, <2>5, ProgressStays
    <3> QED
      BY <1>2, <1>3, <2>4, <3>2, <3>3, <3>4 DEF ServedInv
  <2>6. CASE Crash
    <3>1. mem' = NoCR /\ pc' = "idle" /\ pc' \notin NormalPCs
      BY <2>6 DEF Crash, Go, NormalPCs
    <3>2. Leads(mem)'
      BY <3>1, LeadsNowhere
    <3> QED
      BY <1>2, <1>3, <2>4, <3>1, <3>2, NoProgress DEF ServedInv
  <2> QED
    BY <1>14, <2>5, <2>6 DEF EnvStep, CacheSync, UserDelete, UserKeep, SetOwner, EditNetwork
<1>15. CASE Cloud \/ Vanish \/ UNCHANGED vars
  <2>1. UNCHANGED <<obj, pc, base, mem>> /\ UNCHANGED workerVars
    BY <1>15, CloudLeavesKube DEF vars, kubeVars, workerVars
  <2>2. Live => Leads(obj)' /\ Leads(mem)'
    BY <1>4, <1>6, <1>8, <2>1
  <2>3. Progress'
    BY <1>1, <1>3, <1>9, <2>1, ProgressStays
  <2> QED
    BY <1>2, <1>3, <2>1, <2>2, <2>3 DEF ServedInv
<1> QED
  BY <1>10, <1>11, <1>12, <1>13, <1>14, <1>15, NextSplit

\* A cluster is declared Ready only when the load balancer it records has both listeners
\* and pools and, if one is wanted, its floating IP, whatever answers are lost, searches
\* fail, patches fail or processes crash, as long as the cache is not stale, nobody else
\* deletes the load balancer and no floating IP is adopted, which nothing attaches.
THEOREM ReadyMeansServed ==
    ASSUME ExistingFIP = None, {"stale", "vanish"} \intersect FaultKinds = {}
    PROVE  Spec => []ReadyIsServed
<1>1. Init => ServedInv
  BY ServedInit
<1>2. TypeInv /\ TypeInv' /\ FinalizerInv /\ ServedInv /\ [Next]_vars => ServedInv'
  BY ServedStep
<1>3. ServedInv => ReadyIsServed
  <2> SUFFICES ASSUME ServedInv, pc = "dns"
               PROVE  /\ \A p \in Ports : <<mem.lb, p>> \in listeners \intersect pools
                      /\ FloatingNetwork => fips[mem.lb] = "up"
    BY DEF ReadyIsServed
  <2>1. Leads(mem) /\ \A p \in Ports : PortDone(p)
    BY DEF ServedInv, Live, NormalPCs, OnLBPCs, Progress
  <2>2. FloatingNetwork => fips[mem.lb] = "up"
    BY DEF ServedInv, Progress
  <2> QED
    BY <2>1, <2>2 DEF Leads, PortDone
<1> QED
  BY <1>1, <1>2, <1>3, BaseCorrect, PTL DEF Spec

=============================================================================
