------------------------- MODULE OVHCluster_proofs -------------------------
(***************************************************************************)
(* Proofs about the OVHCluster controller, for any numbers of load         *)
(* balancers, networks, records and faults, and for every setting of the   *)
(* spec: type correctness, that OVH resources are created only under the   *)
(* finalizer, and that a deletion with the keep annotation removes nothing.*)
(***************************************************************************)
EXTENDS OVHCluster, TLAPS

-----------------------------------------------------------------------------
(* Type correctness.  TypeOK alone is not inductive: a subnet, a listener   *)
(* and a pool are added with the id in memory, which must be one by then.   *)

OnLBPCs == {"listener", "pool", "monitor", "fip", "fipGet", "fipList",
            "fipPost", "fipRefresh", "expose", "exposeKnown", "exposeNew", "dns"}

Knows ==
    /\ pc \in {"netget", "subnet"} => mem.net # None
    /\ pc \in OnLBPCs => mem.lb # None

TypeInv == TypeOK /\ Knows

\* What OVH holds has its type.
CloudOK ==
    /\ nets \in [Nets -> NetStatuses] /\ subnets \subseteq Nets
    /\ lbs \in [LBs -> LBStatuses] /\ vips \subseteq LBs
    /\ listeners \subseteq LBs \X Ports /\ pools \subseteq LBs \X Ports
    /\ monitors \subseteq LBs \X Ports /\ fips \in [FIPs -> FIPStatuses]
    /\ gateway \in {"none", "up", "exposed"} /\ sgroup \in {"none", "bare", "ruled"}
    /\ records \in 0 .. MaxRecords

\* A fault stays within the bound.
LEMMA FaultType ==
    ASSUME NEW k, faults \in 0 .. MaxFaults, Fault(k)
    PROVE  faults' \in 0 .. MaxFaults
BY ConstantsAssumption DEF Fault

LEMMA NewType == NewCR \in CR /\ NoCR \in CR
BY ConstantsAssumption DEF CR, NewCR, NoCR, NoPorts

LEMMA TypeInit == Init => TypeInv
<1> SUFFICES ASSUME Init PROVE TypeInv
  OBVIOUS
<1>1. pc = "idle" /\ pc \in PCs /\ port \in Ports
  BY DEF Init, PCs, Ports
<1>2. nets \in [Nets -> NetStatuses] /\ subnets \subseteq Nets
  BY ConstantsAssumption DEF Init, NetStatuses
<1>3. lbs \in [LBs -> LBStatuses] /\ vips \subseteq LBs
  BY ConstantsAssumption DEF Init, LBStatuses
<1>4. /\ listeners \subseteq LBs \X Ports /\ pools \subseteq LBs \X Ports
      /\ monitors \subseteq LBs \X Ports
  BY ConstantsAssumption DEF Init
<1>5. fips \in [FIPs -> FIPStatuses]
  BY DEF Init, FIPStatuses
<1>6. records \in 0 .. MaxRecords /\ faults \in 0 .. MaxFaults
  BY ConstantsAssumption DEF Init
<1>7. obj \in CR /\ cache \in CR /\ base \in CR /\ mem \in CR
  BY NewType DEF Init
<1> QED
  BY <1>1, <1>2, <1>3, <1>4, <1>5, <1>6, <1>7 DEF Init, TypeInv, TypeOK, Knows, OnLBPCs

\* A reconcile begins.
LEMMA BeginType ==
    ASSUME TypeInv, NEW copy \in CR, Begin(copy),
           pc' \in {"patchConditions", "net", "sg", "delDNS"},
           faults' \in 0 .. MaxFaults
    PROVE  TypeInv'
BY DEF TypeInv, TypeOK, Knows, OnLBPCs, Begin, PCs, Ports, kubeVars, netVars,
       lbVars, restVars

LEMMA StartType ==
    ASSUME TypeInv, Start
    PROVE  TypeInv'
<1>1. cache \in CR /\ faults \in 0 .. MaxFaults
  BY DEF TypeInv, TypeOK
<1>2. [cache EXCEPT !.fin = TRUE] \in CR /\ [cache EXCEPT !.fin = FALSE] \in CR
  BY <1>1 DEF CR
<1>3. CASE ReconcileStops
  BY <1>1, <1>3, BeginType, FaultType DEF ReconcileStops, Return
<1>4. CASE AddFinalizer
  BY <1>1, <1>2, <1>4, BeginType DEF AddFinalizer, Return
<1>5. CASE ReconcileNormal
  BY <1>1, <1>5, BeginType DEF ReconcileNormal, Go
<1>6. CASE ReconcileDeleteKeep
  BY <1>1, <1>2, <1>6, BeginType DEF ReconcileDeleteKeep, Return
<1>7. CASE ReconcileDelete
  BY <1>1, <1>7, BeginType DEF ReconcileDelete, Go
<1> QED
  BY <1>3, <1>4, <1>5, <1>6, <1>7 DEF Start

\* A step of a running reconcile.
LEMMA StepType ==
    ASSUME TypeInv, inReconcile, pc' \in PCs, mem' \in CR, port' \in Ports,
           lbRead' \subseteq {"VIPAddress", "FloatingIP"}, fipsLeft' \subseteq FIPs, fipStuck' \in BOOLEAN,
           CloudOK', faults' \in 0 .. MaxFaults, Knows'
    PROVE  TypeInv'
BY DEF TypeInv, TypeOK, CloudOK, inReconcile, kubeVars

\* Such a step that works on the record in memory only.
LEMMA RecordStepType ==
    ASSUME TypeInv, inReconcile, aside, pc' \in PCs, mem' \in CR,
           UNCHANGED <<netVars, lbVars, restVars>>,
           faults' \in 0 .. MaxFaults, Knows'
    PROVE  TypeInv'
BY DEF TypeInv, TypeOK, inReconcile, kubeVars, aside, netVars, lbVars, restVars

\* The fields of a record.
LEMMA Fields ==
    ASSUME NEW r \in CR
    PROVE  /\ r.net \in Nets \union {None} /\ r.lb \in LBs \union {None}
           /\ r.fip \in FIPs \union {None} /\ r.given \in Nets \union {None}
           /\ r.host \in FIPs \union {None}
           /\ \A p \in Ports : /\ r.lst[p] \in LBs \union {None}
                              /\ r.pool[p] \in LBs \union {None}
           /\ r.lb \in FIPs \union {None}
           /\ {r.ex, r.del, r.keep, r.fin, r.mine, r.sg, r.dns, r.ready} \subseteq BOOLEAN
<1>1. UserNet \in Nets /\ LBs \subseteq FIPs
  BY ConstantsAssumption DEF FIPs
<1> QED
  BY <1>1 DEF CR

\* The changes a reconcile makes to its record.
LEMMA CopyType ==
    ASSUME NEW r \in CR, NEW n \in Nets \union {None}, NEW l \in LBs \union {None},
           NEW f \in FIPs \union {None}, NEW b \in BOOLEAN
    PROVE  /\ [r EXCEPT !.net = n] \in CR
           /\ [r EXCEPT !.net = n, !.mine = TRUE] \in CR
           /\ [r EXCEPT !.net = None, !.subnet = None] \in CR
           /\ [r EXCEPT !.subnet = n] \in CR
           /\ [r EXCEPT !.sg = b] \in CR
           /\ [r EXCEPT !.lb = l] \in CR
           /\ [r EXCEPT !.fip = f] \in CR
           /\ [r EXCEPT !.host = f] \in CR
           /\ [r EXCEPT !.gw = "exposed"] \in CR
           /\ [r EXCEPT !.gw = "known"] \in CR
           /\ [r EXCEPT !.ready = TRUE] \in CR
           /\ [r EXCEPT !.ready = TRUE, !.dns = TRUE] \in CR
           /\ [r EXCEPT !.dns = b] \in CR
           /\ [r EXCEPT !.fin = b] \in CR
<1>1. [r EXCEPT !.net = n] \in CR
  BY DEF CR
<1>2. [r EXCEPT !.net = n, !.mine = TRUE] \in CR
  BY DEF CR
<1>3. [r EXCEPT !.net = None, !.subnet = None] \in CR
  BY DEF CR
<1>4. [r EXCEPT !.subnet = n] \in CR
  BY DEF CR
<1>5. [r EXCEPT !.sg = b] \in CR
  BY DEF CR
<1>6. [r EXCEPT !.lb = l] \in CR
  BY DEF CR
<1>7. [r EXCEPT !.fip = f] \in CR
  BY DEF CR
<1>8. [r EXCEPT !.host = f] \in CR
  BY DEF CR
<1>9. [r EXCEPT !.gw = "exposed"] \in CR
  BY DEF CR
<1>10. [r EXCEPT !.gw = "known"] \in CR
  BY DEF CR
<1>11. [r EXCEPT !.ready = TRUE] \in CR
  BY DEF CR
<1>12. [r EXCEPT !.ready = TRUE, !.dns = TRUE] \in CR
  BY DEF CR
<1>13. [r EXCEPT !.dns = b] \in CR
  BY DEF CR
<1>14. [r EXCEPT !.fin = b] \in CR
  BY DEF CR
<1> QED
  BY <1>1, <1>2, <1>3, <1>4, <1>5, <1>6, <1>7, <1>8, <1>9, <1>10, <1>11, <1>12,
     <1>13, <1>14

\* The same for the ids kept by port.
LEMMA PortType ==
    ASSUME NEW r \in CR, NEW l \in LBs \union {None}, NEW p \in Ports
    PROVE  /\ [r EXCEPT !.lst[p] = l] \in CR
           /\ [r EXCEPT !.pool[p] = l] \in CR
BY DEF CR

LEMMA AdoptType ==
    ASSUME NEW r \in CR
    PROVE  /\ Adopt(r) \in CR
           /\ ForgetLB(Adopt(r)) \in CR
<1>1. ExistingLB \in LBs \union {None} /\ ExistingFIP \in FIPs \union {None}
  BY ConstantsAssumption DEF FIPs
<1>2. Adopt(r) \in CR
  <2>1. ASSUME NEW l \in LBs \union {None}, NEW f \in FIPs \union {None}
        PROVE  [r EXCEPT !.lb = l, !.fip = f] \in CR
    BY <2>1 DEF CR
  <2>2. r.lb \in LBs \union {None} /\ r.fip \in FIPs \union {None}
    BY DEF CR
  <2>3. PICK l \in LBs \union {None} : l = IF r.lb = None THEN ExistingLB ELSE r.lb
    BY <1>1, <2>2
  <2>4. PICK f \in FIPs \union {None} : f = IF r.fip = None THEN ExistingFIP ELSE r.fip
    BY <1>1, <2>2
  <2>5. Adopt(r) = [r EXCEPT !.lb = l, !.fip = f]
    BY <2>3, <2>4, Zenon DEF Adopt
  <2> QED
    BY <2>1, <2>5
<1>3. ASSUME NEW q \in CR PROVE ForgetLB(q) \in CR
  BY <1>3 DEF CR, ForgetLB, Ports
<1> QED
  BY <1>2, <1>3

LEMMA EndpointType ==
    ASSUME NEW r \in CR, NEW f \in FIPs \union {None}
    PROVE  /\ WithEndpoint(r, f) \in CR
           /\ WithEndpoint(r, f).lb = r.lb
BY DEF WithEndpoint, CR

LEMMA NetworkType ==
    ASSUME TypeInv,
           UseKnownNetwork \/ CreatePrivateNetwork \/ GetPrivateNetwork \/ EnsureSubnet
    PROVE  TypeInv'
<1>1. mem \in CR /\ faults \in 0 .. MaxFaults /\ None \notin Nets
  BY ConstantsAssumption DEF TypeInv, TypeOK
<1>2. mem.net \in Nets \union {None} /\ mem.given \in Nets \union {None}
  BY <1>1, Fields
<1>3. CASE UseKnownNetwork
  <2>1. mem' \in CR
    BY <1>1, <1>2, <1>3, CopyType DEF UseKnownNetwork
  <2>2. mem'.net # None
    BY <1>1, <1>2, <1>3 DEF UseKnownNetwork, CR
  <2> QED
    BY <1>1, <1>3, <2>1, <2>2, RecordStepType DEF UseKnownNetwork, Go, PCs, Knows, OnLBPCs
<1>4. CASE CreatePrivateNetwork
  <2>1. nets' \in [Nets -> NetStatuses]
    BY <1>4 DEF CreatePrivateNetwork, NewNet, TypeInv, TypeOK, NetStatuses
  <2>2. /\ mem' \in CR /\ pc' \in PCs /\ faults' \in 0 .. MaxFaults
        /\ pc' \in {"net", "patchConditions", "netget"}
        /\ pc' = "netget" => mem'.net # None
    <3>1. CASE /\ \E n \in Nets : NewNet(n) /\ mem' = [mem EXCEPT !.net = n, !.mine = TRUE]
               /\ Go("netget") /\ UNCHANGED faults
      <4>1. PICK n \in Nets : mem' = [mem EXCEPT !.net = n, !.mine = TRUE]
        BY <3>1
      <4>2. mem' \in CR
        BY <1>1, <4>1, CopyType
      <4>3. mem'.net = n
        BY <1>1, <4>1 DEF CR
      <4> QED
        BY <1>1, <3>1, <4>2, <4>3 DEF Go, PCs
    <3>2. CASE Fault("lost") /\ pc' \in {"net", "patchConditions"} /\ UNCHANGED mem
      BY <1>1, <3>2, FaultType DEF PCs
    <3>3. CASE Return /\ UNCHANGED <<mem, nets, faults>>
      BY <1>1, <3>3 DEF Return, PCs
    <3> QED
      BY <1>4, <3>1, <3>2, <3>3 DEF CreatePrivateNetwork
  <2> QED
    BY <1>4, <2>1, <2>2 DEF CreatePrivateNetwork, TypeInv, TypeOK, Knows, OnLBPCs, aside,
                            inReconcile, kubeVars, lbVars, restVars
<1>5. CASE GetPrivateNetwork
  <2>1. mem.net # None
    BY <1>5 DEF GetPrivateNetwork, TypeInv, Knows
  <2>2. mem' \in CR /\ (pc' = "subnet" => mem'.net # None)
    BY <1>1, <1>5, <2>1, CopyType DEF GetPrivateNetwork, Return
  <2>3. pc' \in {"subnet", "sg", "patchConditions"}
    BY <1>5 DEF GetPrivateNetwork, Return, Go
  <2> QED
    BY <1>1, <1>5, <2>2, <2>3, RecordStepType DEF GetPrivateNetwork, PCs, Knows, OnLBPCs
<1>6. CASE EnsureSubnet
  <2>1. mem.net \in Nets
    BY <1>2, <1>6 DEF EnsureSubnet, TypeInv, Knows
  <2>2. subnets' \subseteq Nets
    BY <1>6, <2>1 DEF EnsureSubnet, WithSubnet, TypeInv, TypeOK
  <2>3. mem' \in CR
    BY <1>1, <1>6, <2>1, CopyType DEF EnsureSubnet
  <2>4. pc' \in {"sg", "patchConditions"}
    BY <1>6 DEF EnsureSubnet, Return, Go
  <2> QED
    BY <1>6, <2>2, <2>3, <2>4 DEF EnsureSubnet, TypeInv, TypeOK, Knows, OnLBPCs, PCs, aside,
                                 inReconcile, kubeVars, lbVars, restVars
<1> QED
  BY <1>3, <1>4, <1>5, <1>6

LEMMA GroupType ==
    ASSUME TypeInv, ReconcileSecurityGroups
    PROVE  TypeInv'
<1>1. mem \in CR /\ faults \in 0 .. MaxFaults
  BY DEF TypeInv, TypeOK
<1>2. mem' \in CR
  BY <1>1, CopyType DEF ReconcileSecurityGroups
<1>3. faults' \in 0 .. MaxFaults
  BY <1>1, FaultType DEF ReconcileSecurityGroups
<1>4. sgroup' \in {"none", "bare", "ruled"}
  BY DEF ReconcileSecurityGroups, MakeGroup, TypeInv, TypeOK
<1> QED
  BY <1>2, <1>3, <1>4 DEF ReconcileSecurityGroups, TypeInv, TypeOK, Knows, OnLBPCs, PCs, Go,
                          aside, inReconcile, kubeVars, lbVars, netVars

\* A new load balancer leaves the statuses what they are.
LEMMA NewLBType ==
    ASSUME lbs \in [LBs -> LBStatuses],
           NEW st \in {"hidden", "PENDING_CREATE"}, NewLB(st)
    PROVE  lbs' \in [LBs -> LBStatuses]
BY DEF NewLB, LBStatuses

LEMMA LoadBalancerType ==
    ASSUME TypeInv,
           ReconcileLoadBalancer \/ CreateLoadBalancer \/ RepostLoadBalancer
             \/ PollLoadBalancer
    PROVE  TypeInv'
<1>1. mem \in CR /\ faults \in 0 .. MaxFaults /\ lbs \in [LBs -> LBStatuses]
  BY DEF TypeInv, TypeOK
<1>2. CASE ReconcileLoadBalancer
  <2>1. mem' \in CR
    BY <1>1, <1>2, AdoptType DEF ReconcileLoadBalancer
  <2>2. pc' \in {"listener", "lbpost", "patchConditions"}
    BY <1>2 DEF ReconcileLoadBalancer, Go
  <2>3. pc' = "listener" => mem'.lb # None
    BY <1>2 DEF ReconcileLoadBalancer, Go
  <2>4. lbRead' \subseteq {"VIPAddress", "FloatingIP"}
    <3>1. lbRead' \in LBAnswers(mem'.lb) \/ lbRead' = lbRead
      BY <1>2, Zenon DEF ReconcileLoadBalancer
    <3> QED
      BY <3>1 DEF LBAnswers, TypeInv, TypeOK
  <2> QED
    BY <1>2, <2>1, <2>2, <2>3, <2>4
       DEF ReconcileLoadBalancer, TypeInv, TypeOK, Knows, OnLBPCs, PCs, inReconcile, kubeVars,
           lbVars, netVars, restVars
<1>3. CASE CreateLoadBalancer
  <2>1. mem' \in CR
    <3>1. FoundByName \subseteq LBs \union {None}
      BY DEF FoundByName, ListedOwn, OwnLBs
    <3> QED
      BY <1>1, <1>3, <3>1, CopyType DEF CreateLoadBalancer
  <2>2. pc' \in {"lbpoll", "lbrepost", "patchConditions"}
    BY <1>3 DEF CreateLoadBalancer, Go, Return
  <2>3. lbs' \in [LBs -> LBStatuses]
    BY <1>1, <1>3, NewLBType DEF CreateLoadBalancer
  <2>4. faults' \in 0 .. MaxFaults
    BY <1>1, <1>3, FaultType DEF CreateLoadBalancer
  <2> QED
    BY <1>3, <2>1, <2>2, <2>3, <2>4
       DEF CreateLoadBalancer, TypeInv, TypeOK, Knows, OnLBPCs, PCs, aside, inReconcile,
           kubeVars, netVars, restVars
<1>4. CASE RepostLoadBalancer
  <2>1. pc' \in {"lbpoll", "patchConditions"}
    BY <1>4 DEF RepostLoadBalancer, Go, Return
  <2>2. lbs' \in [LBs -> LBStatuses]
    BY <1>1, <1>4, NewLBType DEF RepostLoadBalancer
  <2> QED
    BY <1>4, <2>1, <2>2
       DEF RepostLoadBalancer, TypeInv, TypeOK, Knows, OnLBPCs, PCs, aside, inReconcile,
           kubeVars, netVars, restVars
<1>5. CASE PollLoadBalancer
  <2>1. ListedOwn \subseteq LBs \union {None}
    BY DEF ListedOwn, OwnLBs
  <2>2. mem' \in CR
    BY <1>1, <1>5, <2>1, CopyType DEF PollLoadBalancer
  <2> QED
    BY <1>1, <1>5, <2>2, RecordStepType DEF PollLoadBalancer, Return, Knows, OnLBPCs, PCs
<1> QED
  BY <1>2, <1>3, <1>4, <1>5

LEMMA PortStepType ==
    ASSUME TypeInv, EnsureListener \/ EnsurePool \/ EnsurePoolHealthMonitor
    PROVE  TypeInv'
<1>1. mem \in CR /\ faults \in 0 .. MaxFaults /\ port \in Ports
  BY DEF TypeInv, TypeOK
<1>2. mem.lb \in LBs
  BY <1>1, Fields DEF TypeInv, Knows, OnLBPCs, EnsureListener, EnsurePool, EnsurePoolHealthMonitor
<1>3. ASSUME NEW r \in CR, NEW l \in LBs
      PROVE  /\ [r EXCEPT !.lst[port] = l].lb = r.lb
             /\ [r EXCEPT !.pool[port] = l].lb = r.lb
  BY <1>3 DEF CR
<1>4. CASE EnsureListener
  <2>1. mem' \in CR
    <3>1. [mem EXCEPT !.lst[port] = mem.lb] \in CR
      BY <1>1, <1>2, PortType
    <3> QED
      BY <1>1, <1>4, <3>1 DEF EnsureListener
  <2>2. mem'.lb = mem.lb
    BY <1>1, <1>2, <1>3, <1>4 DEF EnsureListener
  <2>3. lbs' \in [LBs -> LBStatuses] /\ listeners' \subseteq LBs \X Ports
    BY <1>1, <1>2, <1>4 DEF EnsureListener, PostListener, Touch, TypeInv, TypeOK, LBStatuses
  <2>4. faults' \in 0 .. MaxFaults
    BY <1>1, <1>4, FaultType DEF EnsureListener
  <2>5. pc' \in {"pool", "patchConditions"}
    BY <1>4 DEF EnsureListener, Go, Return
  <2> QED
    BY <1>4, <2>1, <2>2, <2>3, <2>4, <2>5
       DEF EnsureListener, TypeInv, TypeOK, Knows, OnLBPCs, PCs, aside, inReconcile,
           kubeVars, netVars, restVars
<1>5. CASE EnsurePool
  <2>1. mem' \in CR
    <3>1. [mem EXCEPT !.pool[port] = mem.lb] \in CR
      BY <1>1, <1>2, PortType
    <3> QED
      BY <1>1, <1>5, <3>1 DEF EnsurePool
  <2>2. mem'.lb = mem.lb
    BY <1>1, <1>2, <1>3, <1>5 DEF EnsurePool
  <2>3. lbs' \in [LBs -> LBStatuses] /\ pools' \subseteq LBs \X Ports
    BY <1>1, <1>2, <1>5 DEF EnsurePool, PostPool, Touch, TypeInv, TypeOK, LBStatuses
  <2>4. faults' \in 0 .. MaxFaults
    BY <1>1, <1>5, FaultType DEF EnsurePool
  <2>5. pc' \in {"monitor", "patchConditions"}
    BY <1>5 DEF EnsurePool, Go, Return
  <2> QED
    BY <1>5, <2>1, <2>2, <2>3, <2>4, <2>5
       DEF EnsurePool, TypeInv, TypeOK, Knows, OnLBPCs, PCs, aside, inReconcile,
           kubeVars, netVars, restVars
<1>6. CASE EnsurePoolHealthMonitor
  <2>1. mem' \in CR /\ mem'.lb = mem.lb
    <3>1. PICK f \in FIPs \union {None} : f = IF "VIPAddress" \in lbRead THEN mem.lb ELSE None
      BY <1>2 DEF FIPs
    <3> QED
      BY <1>1, <1>6, <3>1, EndpointType DEF EnsurePoolHealthMonitor
  <2>2. lbs' \in [LBs -> LBStatuses] /\ monitors' \subseteq LBs \X Ports
    BY <1>6 DEF EnsurePoolHealthMonitor, PostMonitor, Touch, TypeInv, TypeOK, LBStatuses
  <2>3. faults' \in 0 .. MaxFaults
    BY <1>1, <1>6, FaultType DEF EnsurePoolHealthMonitor
  <2>4. pc' \in {"listener", "fip", "dns"} /\ port' \in Ports
    BY <1>6 DEF EnsurePoolHealthMonitor, AfterMonitor, Go, Ports
  <2> QED
    BY <1>2, <1>6, <2>1, <2>2, <2>3, <2>4, ConstantsAssumption
       DEF EnsurePoolHealthMonitor, TypeInv, TypeOK, Knows, OnLBPCs, PCs, inReconcile,
           kubeVars, netVars, restVars
<1> QED
  BY <1>4, <1>5, <1>6

LEMMA FloatingIPType ==
    ASSUME TypeInv,
           FloatingIPOnLB \/ FloatingIPNotOnLB \/ GetFloatingIP \/ ListFloatingIPs
             \/ CreateLoadBalancerFloatingIP \/ EnsureGatewayExposed \/ RefreshFloatingIP
    PROVE  TypeInv'
<1>1. mem \in CR /\ faults \in 0 .. MaxFaults /\ None \notin LBs
  BY ConstantsAssumption DEF TypeInv, TypeOK
<1>2. mem.lb \in LBs /\ mem.lb # None
  BY <1>1, Fields DEF TypeInv, Knows, OnLBPCs, FloatingIPOnLB, FloatingIPNotOnLB,
     GetFloatingIP, ListFloatingIPs, CreateLoadBalancerFloatingIP, EnsureGatewayExposed,
     RefreshFloatingIP
<1>3. mem.lb \in FIPs \union {None} /\ mem.fip \in FIPs \union {None}
  BY <1>1, Fields
<1>4. /\ [mem EXCEPT !.fip = mem.lb] \in CR /\ [mem EXCEPT !.fip = None] \in CR
      /\ WithEndpoint([mem EXCEPT !.fip = mem.lb], mem.lb) \in CR
      /\ WithEndpoint(mem, mem.fip) \in CR
  BY <1>1, <1>3, CopyType, EndpointType
<1>5. /\ [mem EXCEPT !.fip = mem.lb].lb = mem.lb
      /\ [mem EXCEPT !.fip = None].lb = mem.lb
      /\ [mem EXCEPT !.gw = "exposed"].lb = mem.lb
      /\ [mem EXCEPT !.gw = "known"].lb = mem.lb
  BY <1>1 DEF CR
<1>6. /\ WithEndpoint([mem EXCEPT !.fip = mem.lb], mem.lb).lb = mem.lb
      /\ WithEndpoint(mem, mem.fip).lb = mem.lb
  BY <1>1, <1>3, <1>4, <1>5, EndpointType
<1>7. CASE FloatingIPOnLB
  BY <1>1, <1>2, <1>4, <1>6, <1>7, RecordStepType
     DEF FloatingIPOnLB, inFloatingIP, Knows, OnLBPCs, PCs, Go
<1>8. CASE FloatingIPNotOnLB
  <2>1. pc' \in {"exposeKnown", "fipList"}
    BY <1>8 DEF FloatingIPNotOnLB, Go
  <2> QED
    BY <1>1, <1>2, <1>8, <2>1, RecordStepType DEF FloatingIPNotOnLB, inFloatingIP, Knows, PCs
<1>9. CASE GetFloatingIP
  <2>1. mem' \in CR /\ mem'.lb = mem.lb
    BY <1>1, <1>4, <1>5, <1>6, <1>9 DEF GetFloatingIP
  <2>2. pc' \in {"dns", "patchConditions", "fipList"}
    BY <1>9 DEF GetFloatingIP, Go, Return
  <2> QED
    BY <1>1, <1>2, <1>9, <2>1, <2>2, RecordStepType DEF GetFloatingIP, inFloatingIP, Knows, PCs
<1>10. CASE ListFloatingIPs
  <2>1. mem' \in CR /\ mem'.lb = mem.lb
    BY <1>1, <1>4, <1>5, <1>6, <1>10 DEF ListFloatingIPs
  <2>2. pc' \in {"expose", "patchConditions", "fipPost"}
    BY <1>10 DEF ListFloatingIPs, Go, Return
  <2>3. faults' \in 0 .. MaxFaults
    BY <1>1, <1>10, FaultType DEF ListFloatingIPs
  <2> QED
    BY <1>2, <1>10, <2>1, <2>2, <2>3, RecordStepType
       DEF ListFloatingIPs, inFloatingIP, Knows, PCs
<1>11. CASE CreateLoadBalancerFloatingIP
  <2>1. pc' \in {"exposeNew", "patchConditions"}
    BY <1>11 DEF CreateLoadBalancerFloatingIP, Go, Return
  <2>2. fips' \in [FIPs -> FIPStatuses] /\ gateway' \in {"none", "up", "exposed"}
    BY <1>11 DEF CreateLoadBalancerFloatingIP, AllocateFloatingIP, TypeInv, TypeOK, FIPStatuses
  <2>3. faults' \in 0 .. MaxFaults
    BY <1>1, <1>11, FaultType DEF CreateLoadBalancerFloatingIP
  <2> QED
    BY <1>2, <1>11, <2>1, <2>2, <2>3
       DEF CreateLoadBalancerFloatingIP, inFloatingIP, TypeInv, TypeOK, Knows, PCs, aside,
           inReconcile, kubeVars, netVars, lbVars
<1>12. CASE EnsureGatewayExposed
  <2>1. mem' \in CR /\ mem'.lb = mem.lb
    BY <1>1, <1>5, <1>12, CopyType DEF EnsureGatewayExposed
  <2>2. pc' \in {"dns", "fipGet", "fipRefresh"}
    BY <1>12 DEF EnsureGatewayExposed, Go
  <2>3. gateway' \in {"none", "up", "exposed"}
    BY <1>12 DEF EnsureGatewayExposed, ExposeGateway, TypeInv, TypeOK
  <2>4. faults' \in 0 .. MaxFaults
    BY <1>1, <1>12, FaultType DEF EnsureGatewayExposed
  <2> QED
    BY <1>2, <1>12, <2>1, <2>2, <2>3, <2>4
       DEF EnsureGatewayExposed, inFloatingIP, TypeInv, TypeOK, Knows, PCs, aside,
           inReconcile, kubeVars, netVars, lbVars
<1>13. CASE RefreshFloatingIP
  <2>1. mem' \in CR /\ mem'.lb = mem.lb
    BY <1>1, <1>4, <1>5, <1>6, <1>13 DEF RefreshFloatingIP
  <2>2. pc' \in {"dns", "patchConditions"}
    BY <1>13 DEF RefreshFloatingIP, Go, Return
  <2> QED
    BY <1>1, <1>2, <1>13, <2>1, <2>2, RecordStepType DEF RefreshFloatingIP, Knows, PCs
<1> QED
  BY <1>7, <1>8, <1>9, <1>10, <1>11, <1>12, <1>13

LEMMA DNSType ==
    ASSUME TypeInv, ReconcileDNS
    PROVE  TypeInv'
<1>1. mem \in CR /\ faults \in 0 .. MaxFaults /\ records \in 0 .. MaxRecords
  BY DEF TypeInv, TypeOK
<1>2. mem' \in CR
  BY <1>1, CopyType DEF ReconcileDNS
<1>3. records' \in 0 .. MaxRecords
  BY <1>1, ConstantsAssumption DEF ReconcileDNS, AddRecord
<1>4. faults' \in 0 .. MaxFaults
  BY <1>1, FaultType DEF ReconcileDNS
<1> QED
  BY <1>2, <1>3, <1>4
     DEF ReconcileDNS, TypeInv, TypeOK, Knows, OnLBPCs, PCs, Return, aside, inReconcile,
         kubeVars, netVars, lbVars

\* The client's DELETE of load balancers leaves the statuses what they are.
LEMMA DoomType ==
    ASSUME NEW ls, lbs \in [LBs -> LBStatuses]
    PROVE  Doom(ls) \in [LBs -> LBStatuses]
BY DEF Doom, LBStatuses

LEMMA DeleteType ==
    ASSUME TypeInv,
           \/ DeleteDNSRecord \/ DeleteSecurityGroup \/ CaptureFloatingIPs
           \/ DeletePool \/ DeleteListener \/ DeleteLoadBalancer \/ DeleteOrphans
    PROVE  TypeInv'
<1>1. /\ mem \in CR /\ faults \in 0 .. MaxFaults /\ records \in 0 .. MaxRecords
      /\ lbs \in [LBs -> LBStatuses]
  BY DEF TypeInv, TypeOK
<1>2. mem.fip \in FIPs \union {None} /\ mem.lb \in FIPs \union {None}
  BY <1>1, Fields
<1>3. CASE DeleteDNSRecord
  <2>1. mem' \in CR
    BY <1>1, <1>3, CopyType DEF DeleteDNSRecord
  <2>2. records' \in 0 .. MaxRecords
    BY <1>1, <1>3, ConstantsAssumption DEF DeleteDNSRecord, DropRecord
  <2>3. faults' \in 0 .. MaxFaults
    BY <1>1, <1>3, FaultType DEF DeleteDNSRecord
  <2> QED
    BY <1>3, <2>1, <2>2, <2>3
       DEF DeleteDNSRecord, TypeInv, TypeOK, Knows, OnLBPCs, PCs, Go, aside, inReconcile,
           kubeVars, netVars, lbVars
<1>4. CASE DeleteSecurityGroup
  <2>1. mem' \in CR
    BY <1>1, <1>4, CopyType DEF DeleteSecurityGroup
  <2>2. faults' \in 0 .. MaxFaults /\ sgroup' \in {"none", "bare", "ruled"}
    BY <1>1, <1>4, FaultType DEF DeleteSecurityGroup, DropGroup, TypeInv, TypeOK
  <2> QED
    BY <1>4, <2>1, <2>2
       DEF DeleteSecurityGroup, TypeInv, TypeOK, Knows, OnLBPCs, PCs, Go, aside, inReconcile,
           kubeVars, netVars, lbVars
<1>5. CASE CaptureFloatingIPs
  <2>1. fipsLeft' \subseteq FIPs
    BY <1>2, <1>5 DEF CaptureFloatingIPs
  <2>2. faults' \in 0 .. MaxFaults
    BY <1>1, <1>5, FaultType DEF CaptureFloatingIPs
  <2> QED
    BY <1>5, <2>1, <2>2
       DEF CaptureFloatingIPs, TypeInv, TypeOK, Knows, OnLBPCs, PCs, Go, inReconcile,
           kubeVars, netVars, lbVars, restVars
<1>6. CASE DeletePool
  <2>1. /\ lbs' \in [LBs -> LBStatuses] /\ pools' \subseteq LBs \X Ports
        /\ monitors' \subseteq LBs \X Ports
    BY <1>6 DEF DeletePool, DropPool, Touch, TypeInv, TypeOK, LBStatuses
  <2>2. faults' \in 0 .. MaxFaults
    BY <1>1, <1>6, FaultType DEF DeletePool
  <2> QED
    BY <1>6, <2>1, <2>2
       DEF DeletePool, TypeInv, TypeOK, Knows, OnLBPCs, PCs, Go, aside, inReconcile,
           kubeVars, netVars, restVars
<1>7. CASE DeleteListener
  <2>1. lbs' \in [LBs -> LBStatuses] /\ listeners' \subseteq LBs \X Ports
    BY <1>7 DEF DeleteListener, DropListener, Touch, TypeInv, TypeOK, LBStatuses
  <2>2. faults' \in 0 .. MaxFaults
    BY <1>1, <1>7, FaultType DEF DeleteListener
  <2> QED
    BY <1>7, <2>1, <2>2
       DEF DeleteListener, TypeInv, TypeOK, Knows, OnLBPCs, PCs, Go, aside, inReconcile,
           kubeVars, netVars, restVars
<1>8. CASE DeleteLoadBalancer
  <2>1. lbs' \in [LBs -> LBStatuses]
    BY <1>1, <1>8, DoomType DEF DeleteLoadBalancer
  <2>2. faults' \in 0 .. MaxFaults /\ pc' \in {"delOrphans", "patchConditions"}
    BY <1>1, <1>8, FaultType DEF DeleteLoadBalancer, Go, Return
  <2> QED
    BY <1>8, <2>1, <2>2
       DEF DeleteLoadBalancer, TypeInv, TypeOK, Knows, OnLBPCs, PCs, aside, inReconcile,
           kubeVars, netVars, restVars
<1>9. CASE DeleteOrphans
  <2>1. lbs' \in [LBs -> LBStatuses]
    BY <1>1, <1>9, DoomType DEF DeleteOrphans
  <2>2. faults' \in 0 .. MaxFaults
    BY <1>1, <1>9, FaultType DEF DeleteOrphans
  <2> QED
    BY <1>9, <2>1, <2>2
       DEF DeleteOrphans, TypeInv, TypeOK, Knows, OnLBPCs, PCs, Go, aside, inReconcile,
           kubeVars, netVars, restVars
<1> QED
  BY <1>3, <1>4, <1>5, <1>6, <1>7, <1>8, <1>9

LEMMA CleanupType ==
    ASSUME TypeInv,
           \/ \E f \in FIPs : CleanupFloatingIP(f)
           \/ CleanupFloatingIPsDone \/ DeleteGateway \/ DeletePrivateNetwork
    PROVE  TypeInv'
<1>1. mem \in CR /\ faults \in 0 .. MaxFaults
  BY DEF TypeInv, TypeOK
<1>2. ASSUME NEW f \in FIPs, CleanupFloatingIP(f) PROVE TypeInv'
  <2>1. fips' \in [FIPs -> FIPStatuses]
    BY <1>2 DEF CleanupFloatingIP, DropFloatingIP, TypeInv, TypeOK, FIPStatuses
  <2>2. faults' \in 0 .. MaxFaults /\ fipStuck' \in BOOLEAN
    BY <1>1, <1>2, FaultType DEF CleanupFloatingIP, TypeInv, TypeOK
  <2> QED
    BY <1>2, <2>1, <2>2
       DEF CleanupFloatingIP, TypeInv, TypeOK, Knows, OnLBPCs, inReconcile,
           kubeVars, netVars, lbVars
<1>3. CASE CleanupFloatingIPsDone
  <2>1. pc' \in {"delGateway", "patchConditions"}
    BY <1>3 DEF CleanupFloatingIPsDone, Go
  <2> QED
    BY <1>1, <1>3, <2>1, RecordStepType DEF CleanupFloatingIPsDone, Knows, OnLBPCs, PCs
<1>4. CASE DeleteGateway
  <2>1. faults' \in 0 .. MaxFaults /\ gateway' \in {"none", "up", "exposed"}
    BY <1>1, <1>4, FaultType DEF DeleteGateway, DropGateway, TypeInv, TypeOK
  <2> QED
    BY <1>4, <2>1
       DEF DeleteGateway, TypeInv, TypeOK, Knows, OnLBPCs, PCs, Go, aside, inReconcile,
           kubeVars, netVars, lbVars
<1>5. CASE DeletePrivateNetwork
  <2>1. mem' \in CR
    BY <1>1, <1>5, CopyType DEF DeletePrivateNetwork
  <2>2. nets' \in [Nets -> NetStatuses] /\ subnets' \subseteq Nets
    BY <1>5 DEF DeletePrivateNetwork, DropNet, netVars, TypeInv, TypeOK, NetStatuses
  <2>3. faults' \in 0 .. MaxFaults
    BY <1>1, <1>5, FaultType DEF DeletePrivateNetwork
  <2> QED
    BY <1>5, <2>1, <2>2, <2>3
       DEF DeletePrivateNetwork, TypeInv, TypeOK, Knows, OnLBPCs, PCs, Return, aside,
           inReconcile, kubeVars, lbVars, restVars
<1> QED
  BY <1>2, <1>3, <1>4, <1>5

\* What the three requests of the deferred patch write.
ConditionsWritten == [obj EXCEPT !.mine = Merged("mine")]
ObjectWritten == [obj EXCEPT !.fin = Merged("fin"), !.host = Merged("host"),
                             !.ex = ~obj.del \/ Merged("fin")]
StatusWritten ==
    [obj EXCEPT !.net = Merged("net"), !.subnet = Merged("subnet"),
                !.lb = Merged("lb"), !.lst = MergedPorts("lst"),
                !.pool = MergedPorts("pool"), !.fip = Merged("fip"),
                !.gw = Merged("gw"), !.sg = Merged("sg"),
                !.dns = Merged("dns"), !.ready = Merged("ready")]

LEMMA WrittenType ==
    ASSUME obj \in CR, base \in CR, mem \in CR
    PROVE  ConditionsWritten \in CR /\ ObjectWritten \in CR /\ StatusWritten \in CR
<1>1. /\ Merged("mine") \in BOOLEAN /\ Merged("fin") \in BOOLEAN
      /\ Merged("host") \in FIPs \union {None}
      /\ Merged("net") \in Nets \union {None} /\ Merged("subnet") \in Nets \union {None}
  BY DEF Merged, CR
<1>2. /\ Merged("lb") \in LBs \union {None} /\ Merged("fip") \in FIPs \union {None}
      /\ Merged("gw") \in {"none", "known", "exposed"}
      /\ Merged("sg") \in BOOLEAN /\ Merged("dns") \in BOOLEAN /\ Merged("ready") \in BOOLEAN
  BY DEF Merged, CR
<1>3. /\ MergedPorts("lst") \in [Ports -> LBs \union {None}]
      /\ MergedPorts("pool") \in [Ports -> LBs \union {None}]
  BY DEF MergedPorts, CR
<1>4. ConditionsWritten \in CR
  BY <1>1 DEF ConditionsWritten, CR
<1>5. ObjectWritten \in CR
  <2>1. ASSUME NEW b \in BOOLEAN, NEW e \in BOOLEAN, NEW f \in FIPs \union {None}
        PROVE  [obj EXCEPT !.fin = b, !.host = f, !.ex = e] \in CR
    BY <2>1 DEF CR
  <2>2. (~obj.del \/ Merged("fin")) \in BOOLEAN
    BY <1>1 DEF CR
  <2> QED
    BY <1>1, <2>1, <2>2 DEF ObjectWritten
<1>6. StatusWritten \in CR
  <2>1. PICK q1 : q1 = [obj EXCEPT !.net = Merged("net"), !.subnet = Merged("subnet")]
    OBVIOUS
  <2>2. PICK q2 : q2 = [q1 EXCEPT !.lb = Merged("lb"), !.lst = MergedPorts("lst")]
    OBVIOUS
  <2>3. PICK q3 : q3 = [q2 EXCEPT !.pool = MergedPorts("pool"), !.fip = Merged("fip")]
    OBVIOUS
  <2>4. PICK q4 : q4 = [q3 EXCEPT !.gw = Merged("gw"), !.sg = Merged("sg")]
    OBVIOUS
  <2>5. PICK q5 : q5 = [q4 EXCEPT !.dns = Merged("dns"), !.ready = Merged("ready")]
    OBVIOUS
  <2>6. StatusWritten = q5
    BY <2>1, <2>2, <2>3, <2>4, <2>5 DEF StatusWritten, CR
  <2>7. q1 \in CR
    BY <1>1, <2>1 DEF CR
  <2>8. q2 \in CR
    BY <1>2, <1>3, <2>2, <2>7 DEF CR
  <2>9. q3 \in CR
    BY <1>2, <1>3, <2>3, <2>8 DEF CR
  <2>10. q4 \in CR
    BY <1>2, <2>4, <2>9 DEF CR
  <2>11. q5 \in CR
    <3>1. ASSUME NEW r \in CR, NEW x \in BOOLEAN PROVE [r EXCEPT !.ready = x] \in CR
      BY <3>1 DEF CR
    <3>2. [q4 EXCEPT !.dns = Merged("dns")] \in CR
      BY <1>2, <2>10, CopyType
    <3>3. q5 = [[q4 EXCEPT !.dns = Merged("dns")] EXCEPT !.ready = Merged("ready")]
      BY <2>5, <2>10 DEF CR
    <3> QED
      BY <1>2, <3>1, <3>2, <3>3
  <2> QED
    BY <2>6, <2>11
<1> QED
  BY <1>4, <1>5, <1>6

\* A request of the patch writes that or nothing, and nothing when the object is gone.
LEMMA PatchWrites ==
    /\ PatchConditions => obj' = obj \/ (obj.ex /\ obj' = ConditionsWritten)
    /\ PatchObject => obj' = obj \/ (obj.ex /\ obj' = ObjectWritten)
    /\ PatchStatus => obj' = obj \/ (obj.ex /\ obj' = StatusWritten)
<1>1. PatchConditions => obj' = obj \/ (obj.ex /\ obj' = ConditionsWritten)
  BY DEF PatchConditions, Apply, ConditionsWritten
<1>2. PatchObject => obj' = obj \/ (obj.ex /\ obj' = ObjectWritten)
  <2>1. ASSUME NEW d, NEW w, Apply(d, w) PROVE obj' = obj \/ (obj.ex /\ obj' = w)
    BY <2>1, Zenon DEF Apply
  <2> QED
    BY <2>1, Zenon DEF PatchObject, ObjectWritten
<1>3. PatchStatus => obj' = obj \/ (obj.ex /\ obj' = StatusWritten)
  <2>1. ASSUME NEW d, NEW w, Apply(d, w) PROVE obj' = obj \/ (obj.ex /\ obj' = w)
    BY <2>1, Zenon DEF Apply
  <2> QED
    BY <2>1, Zenon DEF PatchStatus, StatusWritten
<1> QED
  BY <1>1, <1>2, <1>3

LEMMA PatchType ==
    ASSUME TypeInv, PatchConditions \/ PatchObject \/ PatchStatus
    PROVE  TypeInv'
<1>1. obj \in CR /\ base \in CR /\ mem \in CR /\ faults \in 0 .. MaxFaults
  BY DEF TypeInv, TypeOK
<1>2. obj' \in CR
  BY <1>1, PatchWrites, WrittenType
<1>3. faults' \in 0 .. MaxFaults
  BY <1>1, FaultType DEF PatchConditions, PatchObject, PatchStatus, Apply
<1>4. pc' \in {"patch", "patchStatus", "idle"} /\ base' \in CR /\ mem' \in CR
  BY <1>1, NewType DEF PatchConditions, PatchObject, PatchStatus, Go
<1>5. inPatch
  BY DEF PatchConditions, PatchObject, PatchStatus
<1> QED
  BY <1>2, <1>3, <1>4, <1>5 DEF inPatch, TypeInv, TypeOK, Knows, OnLBPCs, PCs, netVars, lbVars, restVars

LEMMA CallFailsType ==
    ASSUME TypeInv, CallFails
    PROVE  TypeInv'
<1>1. mem \in CR /\ faults \in 0 .. MaxFaults
  BY DEF TypeInv, TypeOK
<1> QED
  BY <1>1, RecordStepType, FaultType DEF CallFails, Return, Knows, OnLBPCs, PCs

LEMMA ProceedType ==
    ASSUME TypeInv, Proceed
    PROVE  TypeInv'
BY NetworkType, GroupType, LoadBalancerType, PortStepType, FloatingIPType, DNSType,
   DeleteType, CleanupType, PatchType, CallFailsType, Zenon
   DEF Proceed

LEMMA LBGoneType ==
    ASSUME TypeInv, NEW l \in LBs, LBGone(l)
    PROVE  /\ lbs' \in [LBs -> LBStatuses] /\ vips' \subseteq LBs
           /\ listeners' \subseteq LBs \X Ports /\ pools' \subseteq LBs \X Ports
           /\ monitors' \subseteq LBs \X Ports /\ fips' \in [FIPs -> FIPStatuses]
<1>1. lbs' \in [LBs -> LBStatuses] /\ vips' \subseteq LBs
  BY DEF LBGone, TypeInv, TypeOK, LBStatuses
<1>2. /\ listeners' \subseteq LBs \X Ports /\ pools' \subseteq LBs \X Ports
      /\ monitors' \subseteq LBs \X Ports
  BY DEF LBGone, TypeInv, TypeOK
<1>3. fips' \in [FIPs -> FIPStatuses]
  BY DEF LBGone, TypeInv, TypeOK, FIPStatuses
<1> QED
  BY <1>1, <1>2, <1>3

LEMMA CloudType ==
    ASSUME TypeInv, Cloud \/ Vanish
    PROVE  TypeInv'
<1>1. faults \in 0 .. MaxFaults
  BY DEF TypeInv, TypeOK
<1>2. ASSUME NEW n \in Nets, NetProgress(n) PROVE TypeInv'
  <2>1. nets' \in [Nets -> NetStatuses]
    BY <1>2 DEF NetProgress, TypeInv, TypeOK, NetStatuses
  <2> QED
    BY <1>2, <2>1 DEF NetProgress, TypeInv, TypeOK, Knows, cloudStep, kubeVars, workerVars,
                      lbVars, restVars
<1>3. ASSUME NEW l \in LBs, LBProgress(l) PROVE TypeInv'
  <2>1. /\ lbs' \in [LBs -> LBStatuses] /\ vips' \subseteq LBs
        /\ listeners' \subseteq LBs \X Ports /\ pools' \subseteq LBs \X Ports
        /\ monitors' \subseteq LBs \X Ports /\ fips' \in [FIPs -> FIPStatuses]
    <3>1. CASE LBGone(l)
      BY <3>1, LBGoneType
    <3>2. CASE ~LBGone(l)
      BY <1>3, <3>2 DEF LBProgress, TypeInv, TypeOK, LBStatuses
    <3> QED
      BY <3>1, <3>2
  <2>2. faults' \in 0 .. MaxFaults
    BY <1>1, <1>3, FaultType DEF LBProgress
  <2> QED
    BY <1>3, <2>1, <2>2 DEF LBProgress, TypeInv, TypeOK, Knows, cloudStep, kubeVars, workerVars,
                           netVars
<1>4. ASSUME NEW f \in FIPs, FIPProgress(f) PROVE TypeInv'
  <2>1. fips' \in [FIPs -> FIPStatuses]
    BY <1>4 DEF FIPProgress, TypeInv, TypeOK, FIPStatuses
  <2> QED
    BY <1>4, <2>1 DEF FIPProgress, TypeInv, TypeOK, Knows, cloudStep, kubeVars, workerVars,
                      netVars, lbVars
<1>5. CASE Vanish
  <2>1. faults' \in 0 .. MaxFaults
    BY <1>1, <1>5, FaultType DEF Vanish
  <2>2. CASE \E l \in OwnLBs : lbs[l] = "ACTIVE" /\ LBGone(l) /\ UNCHANGED netVars
    <3>1. PICK l \in LBs : LBGone(l) /\ UNCHANGED netVars
      BY <2>2 DEF OwnLBs
    <3> QED
      BY <1>5, <2>1, <3>1, LBGoneType
         DEF Vanish, TypeInv, TypeOK, Knows, cloudStep, kubeVars, workerVars, netVars
  <2>3. CASE \E n \in Nets \ {UserNet} :
               /\ nets[n] \in {"BUILDING", "ACTIVE"} /\ ~NetInUse(n)
               /\ DropNet(n) /\ UNCHANGED <<lbVars, fips>>
    <3>1. nets' \in [Nets -> NetStatuses] /\ subnets' \subseteq Nets
      BY <2>3 DEF DropNet, TypeInv, TypeOK, NetStatuses
    <3> QED
      BY <1>5, <2>1, <2>3, <3>1
         DEF Vanish, TypeInv, TypeOK, Knows, cloudStep, kubeVars, workerVars, lbVars
  <2> QED
    BY <1>5, <2>2, <2>3 DEF Vanish
<1> QED
  BY <1>2, <1>3, <1>4, <1>5 DEF Cloud

LEMMA EnvironmentType ==
    ASSUME TypeInv,
           CacheSync \/ Crash \/ UserDelete \/ UserKeep \/ SetOwner \/ EditNetwork
    PROVE  TypeInv'
<1>1. obj \in CR /\ faults \in 0 .. MaxFaults /\ obj.keep \in BOOLEAN
  BY DEF TypeInv, TypeOK, CR
<1>2. /\ [obj EXCEPT !.del = TRUE, !.ex = obj.fin] \in CR
      /\ [obj EXCEPT !.keep = TRUE] \in CR
      /\ [obj EXCEPT !.given = UserNet] \in CR
  <2>1. [obj EXCEPT !.del = TRUE, !.ex = obj.fin] \in CR
    BY <1>1 DEF CR
  <2>2. [obj EXCEPT !.keep = TRUE] \in CR
    BY <1>1 DEF CR
  <2>3. [obj EXCEPT !.given = UserNet] \in CR
    BY <1>1 DEF CR
  <2> QED
    BY <2>1, <2>2, <2>3
<1>3. /\ obj' \in CR /\ cache' \in CR /\ kept' \in BOOLEAN /\ owned' \in BOOLEAN
      /\ faults' \in 0 .. MaxFaults
  BY <1>1, <1>2, FaultType
     DEF CacheSync, Crash, UserDelete, UserKeep, SetOwner, EditNetwork, TypeInv, TypeOK
<1>4. cloudStays
  BY DEF CacheSync, Crash, UserDelete, UserKeep, SetOwner, EditNetwork
<1>5. CASE Crash
  BY <1>3, <1>4, <1>5, NewType
     DEF Crash, TypeInv, TypeOK, Knows, OnLBPCs, PCs, Go, cloudStays, netVars, lbVars, restVars
<1>6. CASE ~Crash
  <2>1. UNCHANGED workerVars
    BY <1>6 DEF CacheSync, UserDelete, UserKeep, SetOwner, EditNetwork
  <2> QED
    BY <1>3, <1>4, <2>1
       DEF TypeInv, TypeOK, Knows, cloudStays, workerVars, netVars, lbVars, restVars
<1> QED
  BY <1>5, <1>6

LEMMA TypeStutter ==
    ASSUME TypeInv, UNCHANGED vars
    PROVE  TypeInv'
BY DEF TypeInv, TypeOK, Knows, vars, kubeVars, workerVars, netVars, lbVars, restVars

LEMMA TypeStep ==
    ASSUME TypeInv, [Next]_vars
    PROVE  TypeInv'
BY StartType, ProceedType, CloudType, EnvironmentType, TypeStutter, Zenon DEF Next

\* Every variable of the controller and of OVH has its type in every reachable
\* state, whatever fails: in particular a listener or a subnet is only ever
\* attached to an id that a load balancer or a network has.
THEOREM TypeCorrect == Spec => []TypeOK
<1>1. Spec => []TypeInv
  BY TypeInit, TypeStep, PTL DEF Spec
<1>2. TypeInv => TypeOK
  BY DEF TypeInv
<1> QED
  BY <1>1, <1>2, PTL

-----------------------------------------------------------------------------
(* The steps of a reconcile by what they may do.  ReconcileNormal adds and   *)
(* removes nothing, ReconcileDelete only removes, the patch only writes the  *)
(* object.                                                                   *)

NormalPCs == {"net", "netget", "subnet", "sg", "lb", "lbpost", "lbrepost", "lbpoll",
              "listener", "pool", "monitor", "fip", "fipGet", "fipList", "fipPost",
              "fipRefresh", "expose", "exposeKnown", "exposeNew", "dns"}
DeletePCs == {"delDNS", "delSG", "delFIPs", "delPool", "delListener", "delLB",
              "delOrphans", "cleanFIPs", "delGateway", "delNet"}
PatchPCs  == {"patchConditions", "patch", "patchStatus"}

NormalStep ==
    \/ UseKnownNetwork \/ CreatePrivateNetwork \/ GetPrivateNetwork \/ EnsureSubnet
    \/ ReconcileSecurityGroups
    \/ ReconcileLoadBalancer \/ CreateLoadBalancer \/ RepostLoadBalancer
    \/ PollLoadBalancer
    \/ EnsureListener \/ EnsurePool \/ EnsurePoolHealthMonitor
    \/ FloatingIPOnLB \/ FloatingIPNotOnLB \/ GetFloatingIP \/ ListFloatingIPs
    \/ CreateLoadBalancerFloatingIP \/ EnsureGatewayExposed \/ RefreshFloatingIP
    \/ ReconcileDNS \/ CallFails

DeleteStep ==
    \/ DeleteDNSRecord \/ DeleteSecurityGroup \/ CaptureFloatingIPs
    \/ DeletePool \/ DeleteListener \/ DeleteLoadBalancer \/ DeleteOrphans
    \/ (\E f \in FIPs : CleanupFloatingIP(f)) \/ CleanupFloatingIPsDone
    \/ DeleteGateway \/ DeletePrivateNetwork

PatchStep == PatchConditions \/ PatchObject \/ PatchStatus

EnvStep == CacheSync \/ Crash \/ UserDelete \/ UserKeep \/ SetOwner \/ EditNetwork

\* A step takes nothing away in OVH.
NothingRemoved ==
    /\ \A l \in LBs : lbs'[l] \in {"PENDING_DELETE", "gone"} => lbs'[l] = lbs[l]
    /\ \A l \in LBs : lbs'[l] \in {"none", "hidden"} => lbs[l] \in {"none", "hidden"}
    /\ \A f \in FIPs : fips'[f] \in {"down", "reaping", "gone"} => fips'[f] = fips[f]
    /\ \A f \in FIPs : fips[f] = "up" => fips'[f] = "up"
    /\ \A n \in Nets : nets'[n] = "gone" => nets[n] = "gone"
    /\ listeners \subseteq listeners' /\ pools \subseteq pools'
    /\ gateway' = "none" => gateway = "none"
    /\ sgroup' = "none" => sgroup = "none"
    /\ records' >= records

\* A step of ReconcileNormal keeps the metadata and the spec in memory, but for the
\* endpoint, which it may set; only the last one sets Ready.
MetaKept ==
    /\ mem'.fin = mem.fin /\ mem'.given = mem.given
    /\ mem.host # None => mem'.host = mem.host
    /\ mem'.ready # mem.ready => pc = "dns"

LEMMA NextSplit ==
    Next <=> \/ Start \/ NormalStep \/ DeleteStep \/ PatchStep \/ Cloud \/ Vanish
             \/ EnvStep
BY DEF Next, Proceed, NormalStep, DeleteStep, PatchStep, EnvStep

LEMMA CloudUnchanged ==
    ASSUME TypeInv, UNCHANGED <<netVars, lbVars, restVars>>
    PROVE  NothingRemoved
BY DEF NothingRemoved, netVars, lbVars, restVars, TypeInv, TypeOK

LEMMA EndpointKeeps ==
    ASSUME NEW r \in CR, NEW a
    PROVE  /\ WithEndpoint(r, a).fin = r.fin /\ WithEndpoint(r, a).given = r.given
           /\ r.host # None => WithEndpoint(r, a).host = r.host
           /\ a # None => WithEndpoint(r, a).host # None
           /\ WithEndpoint(r, a).mine = r.mine /\ WithEndpoint(r, a).net = r.net
           /\ WithEndpoint(r, a).lb = r.lb /\ WithEndpoint(r, a).fip = r.fip
           /\ WithEndpoint(r, a).lst = r.lst /\ WithEndpoint(r, a).pool = r.pool
           /\ WithEndpoint(r, a).ready = r.ready
BY DEF WithEndpoint, CR

\* A step of ReconcileNormal leaves the object alone and stays in ReconcileNormal.
LEMMA NormalControl ==
    ASSUME NormalStep
    PROVE  /\ UNCHANGED <<kubeVars, base>>
           /\ pc \in NormalPCs /\ pc' \in NormalPCs \union {"patchConditions"}
<1>1. CASE \/ UseKnownNetwork \/ CreatePrivateNetwork \/ GetPrivateNetwork \/ EnsureSubnet
           \/ ReconcileSecurityGroups \/ CallFails
  BY <1>1 DEF UseKnownNetwork, CreatePrivateNetwork, GetPrivateNetwork, EnsureSubnet,
     ReconcileSecurityGroups, CallFails, inReconcile, NormalPCs, Go, Return
<1>2. CASE \/ ReconcileLoadBalancer \/ CreateLoadBalancer \/ RepostLoadBalancer
           \/ PollLoadBalancer
  BY <1>2 DEF ReconcileLoadBalancer, CreateLoadBalancer, RepostLoadBalancer,
     PollLoadBalancer, inReconcile, NormalPCs, Go, Return
<1>3. CASE EnsureListener \/ EnsurePool \/ EnsurePoolHealthMonitor
  BY <1>3 DEF EnsureListener, EnsurePool, EnsurePoolHealthMonitor, AfterMonitor, inReconcile,
     NormalPCs, Go, Return
<1>4. CASE \/ FloatingIPOnLB \/ FloatingIPNotOnLB \/ GetFloatingIP \/ ListFloatingIPs
           \/ CreateLoadBalancerFloatingIP \/ EnsureGatewayExposed \/ RefreshFloatingIP
           \/ ReconcileDNS
  BY <1>4 DEF FloatingIPOnLB, FloatingIPNotOnLB, GetFloatingIP, ListFloatingIPs,
     CreateLoadBalancerFloatingIP, EnsureGatewayExposed, RefreshFloatingIP, ReconcileDNS,
     inFloatingIP, inReconcile, NormalPCs, Go, Return
<1> QED
  BY <1>1, <1>2, <1>3, <1>4 DEF NormalStep

LEMMA NormalMeta ==
    ASSUME TypeInv, NormalStep
    PROVE  MetaKept
<1>1. mem \in CR
  BY DEF TypeInv, TypeOK
<1>2. CASE UNCHANGED mem
  BY <1>2 DEF MetaKept
<1>3. CASE UseKnownNetwork \/ CreatePrivateNetwork \/ GetPrivateNetwork \/ EnsureSubnet
  BY <1>1, <1>3 DEF MetaKept, CR, UseKnownNetwork, CreatePrivateNetwork, GetPrivateNetwork,
     EnsureSubnet
<1>4. CASE ReconcileSecurityGroups \/ CreateLoadBalancer \/ PollLoadBalancer
  BY <1>1, <1>4 DEF MetaKept, CR, ReconcileSecurityGroups, CreateLoadBalancer,
     PollLoadBalancer
<1>5. CASE ReconcileLoadBalancer
  BY <1>1, <1>5 DEF MetaKept, CR, ReconcileLoadBalancer, Adopt, ForgetLB
<1>6. CASE EnsureListener \/ EnsurePool
  BY <1>1, <1>6 DEF MetaKept, CR, EnsureListener, EnsurePool
<1>7. CASE EnsurePoolHealthMonitor
  BY <1>1, <1>2, <1>7, EndpointKeeps DEF MetaKept, EnsurePoolHealthMonitor
<1>8. CASE FloatingIPOnLB \/ GetFloatingIP \/ ListFloatingIPs \/ RefreshFloatingIP
  <2>1. PICK r \in CR : r = [mem EXCEPT !.fip = mem.lb]
    BY <1>1, Fields, CopyType
  <2>2. /\ r.fin = mem.fin /\ r.given = mem.given /\ r.host = mem.host
        /\ r.ready = mem.ready
    BY <1>1, <2>1 DEF CR
  <2>3. PICK q : q = [mem EXCEPT !.fip = None]
    OBVIOUS
  <2>4. /\ q.fin = mem.fin /\ q.given = mem.given /\ q.host = mem.host
        /\ q.ready = mem.ready
    BY <1>1, <2>3 DEF CR
  <2>5. \/ mem' = WithEndpoint(r, mem.lb) \/ mem' = WithEndpoint(mem, mem.fip)
        \/ mem' = r \/ mem' = q \/ mem' = mem
    BY <1>8, <2>1, <2>3, Zenon
       DEF FloatingIPOnLB, GetFloatingIP, ListFloatingIPs, RefreshFloatingIP
  <2> QED
    BY <1>1, <2>2, <2>4, <2>5, EndpointKeeps DEF MetaKept
<1>9. CASE EnsureGatewayExposed
  BY <1>1, <1>9 DEF MetaKept, CR, EnsureGatewayExposed
<1>10. CASE ReconcileDNS
  BY <1>1, <1>10 DEF MetaKept, CR, ReconcileDNS
<1>11. CASE RepostLoadBalancer \/ FloatingIPNotOnLB \/ CreateLoadBalancerFloatingIP \/ CallFails
  BY <1>2, <1>11 DEF RepostLoadBalancer, FloatingIPNotOnLB, CreateLoadBalancerFloatingIP,
     CallFails
<1> QED
  BY <1>3, <1>4, <1>5, <1>6, <1>7, <1>8, <1>9, <1>10, <1>11 DEF NormalStep

LEMMA NormalRemovesNothing ==
    ASSUME TypeInv, NormalStep
    PROVE  NothingRemoved
<1>1. /\ lbs \in [LBs -> LBStatuses] /\ nets \in [Nets -> NetStatuses]
      /\ fips \in [FIPs -> FIPStatuses] /\ records \in Nat
  BY ConstantsAssumption DEF TypeInv, TypeOK
<1>2. CASE UNCHANGED <<netVars, lbVars, restVars>>
  BY <1>2, CloudUnchanged
<1>3. CASE CreatePrivateNetwork \/ EnsureSubnet
  <2>1. \A n \in Nets : nets'[n] = "gone" => nets[n] = "gone"
    BY <1>1, <1>3 DEF CreatePrivateNetwork, NewNet, EnsureSubnet
  <2>2. UNCHANGED <<lbVars, restVars>>
    BY <1>3 DEF CreatePrivateNetwork, EnsureSubnet
  <2> QED
    BY <1>1, <2>1, <2>2 DEF NothingRemoved, lbVars, restVars
<1>4. CASE ReconcileSecurityGroups
  BY <1>1, <1>4 DEF NothingRemoved, ReconcileSecurityGroups, MakeGroup, netVars, lbVars
<1>5. CASE CreateLoadBalancer \/ RepostLoadBalancer
  BY <1>1, <1>5 DEF NothingRemoved, CreateLoadBalancer, RepostLoadBalancer, NewLB, netVars,
     restVars
<1>6. CASE EnsureListener \/ EnsurePool
  BY <1>1, <1>6 DEF NothingRemoved, EnsureListener, EnsurePool, PostListener, PostPool, Touch,
     netVars, restVars
<1>7. CASE EnsurePoolHealthMonitor
  BY <1>1, <1>7 DEF NothingRemoved, EnsurePoolHealthMonitor, PostMonitor, Touch, netVars,
     restVars
<1>8. CASE CreateLoadBalancerFloatingIP
  BY <1>1, <1>8 DEF NothingRemoved, CreateLoadBalancerFloatingIP, AllocateFloatingIP,
     TakesFloatingIP, netVars, lbVars
<1>9. CASE EnsureGatewayExposed
  BY <1>1, <1>9 DEF NothingRemoved, EnsureGatewayExposed, ExposeGateway, netVars, lbVars
<1>10. CASE ReconcileDNS
  BY <1>1, <1>10 DEF NothingRemoved, ReconcileDNS, AddRecord, netVars, lbVars
<1>11. CASE \/ UseKnownNetwork \/ GetPrivateNetwork \/ ReconcileLoadBalancer
            \/ PollLoadBalancer \/ FloatingIPOnLB \/ FloatingIPNotOnLB \/ GetFloatingIP
            \/ ListFloatingIPs \/ RefreshFloatingIP \/ CallFails
  BY <1>2, <1>11 DEF UseKnownNetwork, GetPrivateNetwork, ReconcileLoadBalancer,
     PollLoadBalancer, FloatingIPOnLB, FloatingIPNotOnLB, GetFloatingIP, ListFloatingIPs,
     RefreshFloatingIP, CallFails
<1> QED
  BY <1>3, <1>4, <1>5, <1>6, <1>7, <1>8, <1>9, <1>10, <1>11 DEF NormalStep

\* A step of ReconcileDelete stays in it and only the last one drops the finalizer.
LEMMA DeleteControl ==
    ASSUME DeleteStep
    PROVE  /\ UNCHANGED <<kubeVars, base>>
           /\ pc \in DeletePCs /\ pc' \in DeletePCs \union {"patchConditions"}
<1>1. CASE \/ DeleteDNSRecord \/ DeleteSecurityGroup \/ CaptureFloatingIPs
           \/ DeletePool \/ DeleteListener \/ DeleteLoadBalancer \/ DeleteOrphans
  BY <1>1 DEF DeleteDNSRecord, DeleteSecurityGroup, CaptureFloatingIPs, DeletePool,
     DeleteListener, DeleteLoadBalancer, DeleteOrphans, inReconcile, DeletePCs, Go, Return
<1>2. CASE (\E f \in FIPs : CleanupFloatingIP(f)) \/ CleanupFloatingIPsDone
  BY <1>2 DEF CleanupFloatingIP, CleanupFloatingIPsDone, inReconcile, DeletePCs, Go
<1>3. CASE DeleteGateway \/ DeletePrivateNetwork
  BY <1>3 DEF DeleteGateway, DeletePrivateNetwork, inReconcile, DeletePCs, Go, Return
<1> QED
  BY <1>1, <1>2, <1>3 DEF DeleteStep

-----------------------------------------------------------------------------
(* The finalizer.  Only a reconcile that read the deletion removes it, and   *)
(* the cache never goes back, so a copy that shows the finalizer and no      *)
(* deletion, however old, is one of an object that is still there.           *)

\* How the copies are related to the object in the API server.
CopyInv ==
    /\ ~obj.del => obj.ex
    /\ cache.del => obj.del
    /\ cache.fin /\ ~cache.del => obj.ex /\ obj.fin
    /\ base.del => cache.del
    /\ kept => obj.del /\ obj.keep
    /\ kept /\ cache.del => cache.keep
    /\ kept /\ base.del => base.keep

\* What the reconcile that is running knows by what it is doing.
RunInv ==
    /\ pc \in NormalPCs => /\ obj.ex /\ obj.fin
                           /\ base.fin /\ mem.fin /\ ~base.del
    /\ pc \in DeletePCs => base.del /\ ~base.keep
    /\ base.fin /\ ~mem.fin => base.del

FinalizerInv == CopyInv /\ RunInv

LEMMA FinalizerInit == Init => FinalizerInv
BY DEF Init, FinalizerInv, CopyInv, RunInv, NewCR, NoCR, NormalPCs, DeletePCs

LEMMA StartFinalizer ==
    ASSUME TypeInv, FinalizerInv, Start
    PROVE  FinalizerInv'
<1>1. cache \in CR
  BY DEF TypeInv, TypeOK
<1>2. base' = cache /\ UNCHANGED kubeVars
  BY DEF Start, ReconcileStops, AddFinalizer, ReconcileNormal, ReconcileDeleteKeep,
     ReconcileDelete, Begin
<1>3. CopyInv'
  BY <1>2 DEF FinalizerInv, CopyInv, kubeVars
<1>4. RunInv'
  <2>1. CASE ReconcileStops
    BY <1>2, <2>1 DEF ReconcileStops, Begin, Return, RunInv, NormalPCs, DeletePCs
  <2>2. CASE AddFinalizer
    BY <1>1, <1>2, <2>2 DEF AddFinalizer, Begin, Return, RunInv, NormalPCs, DeletePCs, CR
  <2>3. CASE ReconcileNormal
    BY <1>2, <2>3 DEF ReconcileNormal, Begin, Go, FinalizerInv, CopyInv, RunInv, NormalPCs,
       DeletePCs, kubeVars
  <2>4. CASE ReconcileDeleteKeep
    BY <1>1, <1>2, <2>4 DEF ReconcileDeleteKeep, Begin, Return, RunInv, NormalPCs, DeletePCs, CR
  <2>5. CASE ReconcileDelete
    BY <1>2, <2>5 DEF ReconcileDelete, Begin, Go, RunInv, NormalPCs, DeletePCs
  <2> QED
    BY <2>1, <2>2, <2>3, <2>4, <2>5 DEF Start
<1> QED
  BY <1>3, <1>4 DEF FinalizerInv

LEMMA RunningFinalizer ==
    ASSUME TypeInv, FinalizerInv, NormalStep \/ DeleteStep
    PROVE  FinalizerInv'
<1>1. UNCHANGED <<kubeVars, base>>
  BY NormalControl, DeleteControl
<1>2. CopyInv'
  BY <1>1 DEF FinalizerInv, CopyInv, kubeVars
<1>3. CASE NormalStep
  BY <1>1, <1>2, <1>3, NormalControl, NormalMeta
     DEF FinalizerInv, RunInv, MetaKept, kubeVars, NormalPCs, DeletePCs
<1>4. CASE DeleteStep
  <2>1. base.del /\ ~base.keep /\ pc' \notin NormalPCs
    BY <1>4, DeleteControl DEF FinalizerInv, RunInv, NormalPCs, DeletePCs
  <2> QED
    BY <1>1, <1>2, <2>1 DEF FinalizerInv, RunInv
<1> QED
  BY <1>3, <1>4

\* What the patch leaves of the metadata.
LEMMA PatchMeta ==
    ASSUME TypeInv, PatchStep
    PROVE  /\ UNCHANGED <<cache, owned, kept>>
           /\ obj'.del = obj.del /\ obj'.keep = obj.keep /\ obj'.given = obj.given
           /\ \/ obj'.fin = obj.fin /\ obj'.ex = obj.ex
              \/ /\ obj.ex /\ obj'.fin = Merged("fin")
                 /\ obj'.ex = (~obj.del \/ Merged("fin"))
           /\ pc \in PatchPCs /\ pc' \in PatchPCs \union {"idle"}
<1>1. obj \in CR /\ Merged("fin") \in BOOLEAN
  BY DEF TypeInv, TypeOK, Merged, CR
<1>2. UNCHANGED <<cache, owned, kept>>
  BY DEF PatchStep, PatchConditions, PatchObject, PatchStatus, inPatch
<1>3. pc \in PatchPCs /\ pc' \in PatchPCs \union {"idle"}
  BY DEF PatchStep, PatchConditions, PatchObject, PatchStatus, PatchPCs, Go
<1>4. /\ ConditionsWritten.del = obj.del /\ ConditionsWritten.keep = obj.keep
      /\ ConditionsWritten.given = obj.given
      /\ ConditionsWritten.fin = obj.fin /\ ConditionsWritten.ex = obj.ex
  BY <1>1 DEF ConditionsWritten, CR
<1>5. /\ StatusWritten.del = obj.del /\ StatusWritten.keep = obj.keep
      /\ StatusWritten.given = obj.given
      /\ StatusWritten.fin = obj.fin /\ StatusWritten.ex = obj.ex
  BY <1>1 DEF StatusWritten, CR
<1>6. /\ ObjectWritten.del = obj.del /\ ObjectWritten.keep = obj.keep
      /\ ObjectWritten.given = obj.given
      /\ ObjectWritten.fin = Merged("fin")
      /\ ObjectWritten.ex = (~obj.del \/ Merged("fin"))
  BY <1>1 DEF ObjectWritten, CR
<1> QED
  BY <1>2, <1>3, <1>4, <1>5, <1>6, PatchWrites DEF PatchStep

LEMMA PatchFinalizer ==
    ASSUME TypeInv, FinalizerInv, PatchStep
    PROVE  FinalizerInv'
<1>1. /\ obj \in CR /\ base \in CR /\ mem \in CR
      /\ \/ base' = base /\ mem' = mem
         \/ base' = NoCR /\ mem' = NoCR
  BY DEF TypeInv, TypeOK, PatchStep, PatchConditions, PatchObject, PatchStatus
<1>2. Merged("fin") \/ ~obj.fin \/ base.del
  <2>1. Merged("fin") = IF mem.fin # base.fin THEN mem.fin ELSE obj.fin
    BY DEF Merged
  <2> QED
    BY <1>1, <2>1 DEF FinalizerInv, RunInv, CR
<1>3. CopyInv'
  <2>1. ~obj'.del => obj'.ex
    BY PatchMeta DEF FinalizerInv, CopyInv
  <2>2. cache.fin /\ ~cache.del => obj'.ex /\ obj'.fin
    BY <1>2, PatchMeta DEF FinalizerInv, CopyInv
  <2> QED
    BY <1>1, <2>1, <2>2, PatchMeta DEF FinalizerInv, CopyInv, NoCR, NewCR
<1>4. RunInv'
  BY <1>1, PatchMeta DEF FinalizerInv, RunInv, NoCR, NewCR, NormalPCs, DeletePCs, PatchPCs
<1> QED
  BY <1>3, <1>4 DEF FinalizerInv

LEMMA EnvFinalizer ==
    ASSUME TypeInv, FinalizerInv, EnvStep
    PROVE  FinalizerInv'
<1>1. obj \in CR
  BY DEF TypeInv, TypeOK
<1>2. CASE CacheSync
  BY <1>2 DEF CacheSync, FinalizerInv, CopyInv, RunInv, workerVars
<1>3. CASE Crash
  BY <1>3 DEF Crash, FinalizerInv, CopyInv, RunInv, NoCR, NewCR, Go, NormalPCs, DeletePCs
<1>4. CASE UserDelete
  <2>1. /\ obj'.del /\ obj'.ex = obj.fin /\ obj'.fin = obj.fin /\ obj'.keep = obj.keep
        /\ ~cache.del /\ ~base.del /\ kept' = obj.keep
    BY <1>1, <1>4 DEF UserDelete, FinalizerInv, CopyInv, CR
  <2> QED
    BY <1>4, <2>1 DEF UserDelete, FinalizerInv, CopyInv, RunInv, workerVars
<1>5. CASE UserKeep
  <2>1. /\ obj'.del = obj.del /\ obj'.ex = obj.ex /\ obj'.fin = obj.fin
        /\ obj'.keep
    BY <1>1, <1>5 DEF UserKeep, CR
  <2> QED
    BY <1>5, <2>1 DEF UserKeep, FinalizerInv, CopyInv, RunInv, workerVars
<1>6. CASE SetOwner
  BY <1>6 DEF SetOwner, FinalizerInv, CopyInv, RunInv, workerVars
<1>7. CASE EditNetwork
  <2>1. /\ obj'.del = obj.del /\ obj'.ex = obj.ex /\ obj'.fin = obj.fin
        /\ obj'.keep = obj.keep
    BY <1>1, <1>7 DEF EditNetwork, CR
  <2> QED
    BY <1>7, <2>1 DEF EditNetwork, FinalizerInv, CopyInv, RunInv, workerVars
<1> QED
  BY <1>2, <1>3, <1>4, <1>5, <1>6, <1>7 DEF EnvStep

\* OVH's own steps change neither the object nor the worker.
LEMMA CloudLeavesKube ==
    ASSUME Cloud \/ Vanish
    PROVE  UNCHANGED <<kubeVars, workerVars>>
BY DEF Cloud, Vanish, NetProgress, LBProgress, FIPProgress, cloudStep

LEMMA FinalizerStep ==
    ASSUME TypeInv, FinalizerInv, [Next]_vars
    PROVE  FinalizerInv'
<1>1. CASE Cloud \/ Vanish \/ UNCHANGED vars
  <2>1. UNCHANGED <<kubeVars, workerVars>>
    BY <1>1, CloudLeavesKube DEF vars
  <2> QED
    BY <2>1 DEF FinalizerInv, CopyInv, RunInv, kubeVars, workerVars
<1> QED
  BY <1>1, NextSplit, StartFinalizer, RunningFinalizer, PatchFinalizer, EnvFinalizer

LEMMA BaseCorrect == Spec => [](TypeInv /\ FinalizerInv)
<1>1. Init => TypeInv /\ FinalizerInv
  BY TypeInit, FinalizerInit
<1>2. TypeInv /\ FinalizerInv /\ [Next]_vars => TypeInv' /\ FinalizerInv'
  BY TypeStep, FinalizerStep
<1> QED
  BY <1>1, <1>2, PTL DEF Spec

\* No step of ReconcileNormal creates anything in OVH unless the API server holds
\* the object with its finalizer, for every cache lag, crash and failed call: the
\* deletion of the cluster will always get to clean it up.
THEOREM CreatesUnderFinalizer == Spec => []CreateUnderFinalizer
<1>1. TypeInv /\ FinalizerInv => CreateUnderFinalizer
  BY DEF FinalizerInv, RunInv, CreateUnderFinalizer, CreatingPCs, NormalPCs
<1> QED
  BY <1>1, BaseCorrect, PTL

\* A step that is not one of ReconcileDelete removes nothing, OVH's own progress on
\* what is already being deleted aside.
LEMMA KeptStep ==
    ASSUME TypeInv, FinalizerInv, [Next]_vars, kept, ~Vanish
    PROVE  /\ \A l \in LBs : lbs'[l] = "PENDING_DELETE" => lbs[l] = "PENDING_DELETE"
           /\ \A f \in FIPs : fips'[f] = "reaping" => fips[f] = "reaping"
           /\ \A n \in Nets : nets'[n] = "gone" => nets[n] = "gone"
           /\ gateway' = "none" => gateway = "none"
           /\ sgroup' = "none" => sgroup = "none"
           /\ records' >= records
<1>1. ~DeleteStep
  BY DeleteControl DEF FinalizerInv, CopyInv, RunInv
<1>2. records \in Nat /\ fips \in [FIPs -> FIPStatuses] /\ lbs \in [LBs -> LBStatuses]
      /\ nets \in [Nets -> NetStatuses]
  BY ConstantsAssumption DEF TypeInv, TypeOK
<1>3. CASE NothingRemoved
  BY <1>3 DEF NothingRemoved
<1>4. CASE Start \/ PatchStep \/ EnvStep \/ UNCHANGED vars
  <2>1. UNCHANGED <<netVars, lbVars, restVars>>
    BY <1>4 DEF Start, ReconcileStops, AddFinalizer, ReconcileNormal, ReconcileDeleteKeep,
       ReconcileDelete, Begin, PatchStep, PatchConditions, PatchObject, PatchStatus, inPatch,
       EnvStep, CacheSync, Crash, UserDelete, UserKeep, SetOwner, EditNetwork, cloudStays,
       vars
  <2> QED
    BY <1>3, <2>1, CloudUnchanged
<1>5. CASE NormalStep
  BY <1>3, <1>5, NormalRemovesNothing
<1>6. CASE Cloud
  <2>1. ASSUME NEW n \in Nets, NetProgress(n)
        PROVE  \A m \in Nets : nets'[m] = "gone" => nets[m] = "gone"
    BY <1>2, <2>1 DEF NetProgress
  <2>2. ASSUME NEW l \in LBs, LBProgress(l)
        PROVE  /\ \A k \in LBs : lbs'[k] = "PENDING_DELETE" => lbs[k] = "PENDING_DELETE"
               /\ \A f \in FIPs : fips'[f] = "reaping" => fips[f] = "reaping"
    BY <1>2, <2>2 DEF LBProgress, LBGone
  <2>3. ASSUME NEW f \in FIPs, FIPProgress(f)
        PROVE  \A g \in FIPs : fips'[g] = "reaping" => fips[g] = "reaping"
    BY <1>2, <2>3 DEF FIPProgress
  <2> QED
    BY <1>2, <1>6, <2>1, <2>2, <2>3
       DEF Cloud, NetProgress, LBProgress, FIPProgress, netVars, lbVars, restVars
<1> QED
  BY <1>1, <1>4, <1>5, <1>6, NextSplit

\* What a cluster has in OVH stays there when its deletion was asked for with the
\* keep annotation on, whenever the controller learns of it: every copy that shows
\* the deletion shows the annotation too.
THEOREM KeepIsHonoured == Spec => KeepHonoured
<1>1. TypeInv /\ FinalizerInv /\ [Next]_vars =>
        [kept /\ ~Vanish =>
           /\ \A l \in LBs : lbs'[l] = "PENDING_DELETE" => lbs[l] = "PENDING_DELETE"
           /\ \A f \in FIPs : fips'[f] = "reaping" => fips[f] = "reaping"
           /\ \A n \in Nets : nets'[n] = "gone" => nets[n] = "gone"
           /\ gateway' = "none" => gateway = "none"
           /\ sgroup' = "none" => sgroup = "none"
           /\ records' >= records]_vars
  BY KeptStep
<1> QED
  BY <1>1, BaseCorrect, PTL DEF Spec, KeepHonoured

=============================================================================
