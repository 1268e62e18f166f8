----------------------------- MODULE OVHCluster -----------------------------
(***************************************************************************)
(* The OVHCluster controller                                               *)
(* (internal/controller/ovhcluster_controller.go): one OVHCluster object,  *)
(* its private network, Octavia load balancer, floating IP, gateway,       *)
(* security group and DNS record.                                          *)
(*                                                                         *)
(* As in OVHMachine, a reconcile reads the cache, makes one OVH call per   *)
(* step and ends in the deferred patch: conditions first, then metadata    *)
(* and spec, then status.  Every return of this controller carries an      *)
(* error or RequeueAfter, or has changed the object (which brings an       *)
(* event), so there is no work queue here: a reconcile may begin whenever  *)
(* the worker is idle.                                                     *)
(*                                                                         *)
(* A subnet has the id of its network; a listener, a pool and an allocated *)
(* floating IP have the id of their load balancer, and an endpoint has the *)
(* id of the floating IP or load balancer whose address it is.             *)
(***************************************************************************)
EXTENDS Naturals, FiniteSets

CONSTANTS
    LBs,             \* load balancer ids, those not created yet included
    Nets,            \* private network ids
    UserNet,         \* a network of the user's, in Nets
    OtherLBs,        \* load balancers of a cluster whose name extends ours
    ExistingLB,      \* LoadBalancerConfig.ExistingLoadBalancerID, or None
    ExistingFIP,     \* LoadBalancerConfig.ExistingFloatingIPID, or None
    NetConfig,       \* Spec.NetworkConfig is set
    GivenNet,        \* NetworkConfig.PrivateNetworkID at first, or None
    SubnetCIDR,      \* NetworkConfig.SubnetCIDR is set
    SubnetGiven,     \* LoadBalancerConfig.SubnetID is set
    FloatingNetwork, \* LoadBalancerConfig.FloatingNetworkID is set
    SecurityGroups,  \* Spec.SecurityGroups is not empty
    DNSConfig,       \* Spec.DNSConfig is set
    MaxRecords,      \* bound on the DNS records of the name
    FaultKinds,      \* the kinds of fault that may happen ("stale" is not counted)
    MaxFaults,       \* how many faults may happen
    None             \* the empty string of an id field

AllFaultKinds ==
    {"crash", "stale", "api", "lost", "hide", "patch", "vanish", "noVIP", "edit"}

Ports == {"apiserver", "register"}

\* Those that are allocated on a load balancer, and the one to adopt, which is not
\* attached to anything.
FIPs == LBs \union ({ExistingFIP} \ {None})

ASSUME ConstantsAssumption ==
    /\ None \notin LBs /\ None \notin Nets
    /\ UserNet \in Nets /\ GivenNet \in {UserNet, None}
    /\ OtherLBs \subseteq LBs /\ ExistingLB \in (LBs \ OtherLBs) \union {None}
    /\ ExistingFIP \notin LBs
    /\ {NetConfig, SubnetCIDR, SubnetGiven, FloatingNetwork, SecurityGroups,
        DNSConfig} \subseteq BOOLEAN
    /\ MaxRecords \in Nat /\ MaxFaults \in Nat
    /\ FaultKinds \subseteq AllFaultKinds

VARIABLES
    obj, cache,      \* the object in the API server and in the informer cache
    owned,           \* CAPI has set the owner reference
    pc, base, mem,   \* the worker, the copy it read, the copy it changes
    port,            \* the port reconcileLBPort works on
    lbRead,          \* what GetLoadBalancer's answer had: VIPAddress, FloatingIP
    fipsLeft,        \* fipsToDelete, those not dealt with yet
    fipStuck,        \* cleanupFloatingIPs found one that is still there
    nets, subnets,   \* private networks and those with a subnet
    lbs, vips,       \* load balancers and those with an address
    listeners, pools, monitors,  \* sets of <<load balancer, port>>
    fips,            \* the floating IP of each load balancer, and ExistingFIP
    gateway, sgroup, records,    \* the gateway, the security group, DNS records
    faults,          \* faults so far
    kept             \* history: the deletion was asked for with "keep" on

workerVars == <<pc, base, mem, port, lbRead, fipsLeft, fipStuck>>
lbVars     == <<lbs, vips, listeners, pools, monitors>>
netVars    == <<nets, subnets>>
restVars   == <<fips, gateway, sgroup, records>>
kubeVars   == <<obj, cache, owned, kept>>
vars == <<kubeVars, workerVars, netVars, lbVars, restVars, faults>>

\* given: NetworkConfig.PrivateNetworkID; mine: condition
\* NetworkCreatedByController; host: Spec.ControlPlaneEndpoint;
\* lst, pool: (Register)ListenerID and (Register)PoolID; gw: GatewayID and
\* GatewayExposed; the rest as in OVHMachine.
CR == [ex : BOOLEAN, del : BOOLEAN, keep : BOOLEAN, fin : BOOLEAN,
       given : {UserNet, None}, host : FIPs \union {None}, mine : BOOLEAN,
       net : Nets \union {None}, subnet : Nets \union {None},
       lb : LBs \union {None}, lst : [Ports -> LBs \union {None}],
       pool : [Ports -> LBs \union {None}], fip : FIPs \union {None},
       gw : {"none", "known", "exposed"}, sg : BOOLEAN, dns : BOOLEAN,
       ready : BOOLEAN]

NoPorts == [p \in Ports |-> None]
NewCR == [ex |-> TRUE, del |-> FALSE, keep |-> FALSE, fin |-> FALSE,
          given |-> GivenNet, host |-> None, mine |-> FALSE, net |-> None, subnet |-> None,
          lb |-> None, lst |-> NoPorts, pool |-> NoPorts, fip |-> None,
          gw |-> "none", sg |-> FALSE, dns |-> FALSE, ready |-> FALSE]
NoCR == [NewCR EXCEPT !.ex = FALSE]

NetStatuses == {"none", "BUILDING", "ACTIVE", "gone"}
\* "hidden": accepted, but not in the lists yet
LBStatuses  == {"none", "hidden", "PENDING_CREATE", "ACTIVE", "PENDING_UPDATE",
                "PENDING_DELETE", "gone"}
\* "down": detached; "reaping": deleted too, and still there for a while
FIPStatuses == {"none", "pending", "up", "down", "reaping", "gone"}
PCs == {"idle", "net", "netget", "subnet", "sg", "lb", "lbpost", "lbrepost",
        "lbpoll", "listener", "pool", "monitor", "fip", "fipGet", "fipList",
        "fipPost", "fipRefresh", "expose", "exposeKnown", "exposeNew", "dns",
        "delDNS", "delSG", "delFIPs", "delPool", "delListener", "delLB",
        "delOrphans", "cleanFIPs", "delGateway", "delNet",
        "patchConditions", "patch", "patchStatus"}

Listed(l)  == lbs[l] \notin {"none", "hidden", "gone"}
LBExists(l) == lbs[l] \notin {"none", "gone"}
\* Load balancers that carry our name: all but adopted and other clusters'.
OwnLBs == LBs \ (OtherLBs \union {ExistingLB})

-----------------------------------------------------------------------------

\* The object is there and nothing is done yet; in OVH is what others made.
Init ==
    /\ obj = NewCR /\ cache = NewCR /\ owned = FALSE
    /\ kept = FALSE
    /\ pc = "idle" /\ base = NoCR /\ mem = NoCR /\ port = "apiserver"
    /\ lbRead = {} /\ fipsLeft = {} /\ fipStuck = FALSE
    /\ nets = [n \in Nets |-> IF n = UserNet THEN "ACTIVE" ELSE "none"]
    /\ subnets = {UserNet}
    /\ lbs = [l \in LBs |-> IF l \in OtherLBs \union {ExistingLB}
                              THEN "ACTIVE" ELSE "none"]
    /\ vips = OtherLBs \union ({ExistingLB} \intersect LBs)
    /\ listeners = OtherLBs \X Ports /\ pools = OtherLBs \X Ports
    /\ monitors = OtherLBs \X Ports
    /\ fips = [f \in FIPs |-> IF f \in LBs THEN "none" ELSE "down"]
    /\ gateway = "none" /\ sgroup = "none"
    /\ records = 0 /\ faults = 0

Fault(k) == k \in FaultKinds /\ faults < MaxFaults /\ faults' = faults + 1

Return == pc' = "patchConditions"
Go(p)  == pc' = p

\* What a step of a reconcile leaves alone, besides what it says itself.
inReconcile == UNCHANGED <<kubeVars, base>>
aside       == UNCHANGED <<port, lbRead, fipsLeft, fipStuck>>

-----------------------------------------------------------------------------
(* Reconcile, up to the first call that changes something.                  *)

Begin(copy) ==
    /\ pc = "idle" /\ cache.ex
    /\ cache = obj \/ "stale" \in FaultKinds
    /\ base' = cache /\ mem' = copy
    /\ port' = "apiserver" /\ lbRead' = {} /\ fipsLeft' = {} /\ fipStuck' = FALSE
    /\ UNCHANGED <<kubeVars, netVars, lbVars, restVars>>

\* No owner yet, or an error: no OVH client, invalid credentials.
ReconcileStops ==
    /\ Begin(cache) /\ Return
    /\ \/ ~owned /\ UNCHANGED faults
       \/ owned /\ Fault("api")

\* Mutant of AddFinalizer: the handler goes on instead of returning.
AddFinalizerAndGoOn ==
    /\ owned /\ ~cache.del /\ ~cache.fin
    /\ Begin([cache EXCEPT !.fin = TRUE]) /\ Go("net") /\ UNCHANGED faults

AddFinalizer ==
    /\ owned /\ ~cache.del /\ ~cache.fin
    /\ Begin([cache EXCEPT !.fin = TRUE]) /\ Return /\ UNCHANGED faults

ReconcileNormal ==
    /\ owned /\ ~cache.del /\ cache.fin
    /\ Begin(cache) /\ Go(IF NetConfig THEN "net" ELSE "sg") /\ UNCHANGED faults

ReconcileDeleteKeep ==
    /\ owned /\ cache.del /\ cache.keep
    /\ Begin([cache EXCEPT !.fin = FALSE]) /\ Return /\ UNCHANGED faults

\* Mutant of ReconcileDelete: the annotation is not read.
ReconcileDeleteAlways ==
    /\ owned /\ cache.del
    /\ Begin(cache) /\ Go("delDNS") /\ UNCHANGED faults

ReconcileDelete ==
    /\ owned /\ cache.del /\ ~cache.keep
    /\ Begin(cache) /\ Go("delDNS") /\ UNCHANGED faults

\* A call in reconcileNetwork or reconcileLoadBalancer fails for good and
\* ReconcileNormal returns the error.
CallFails ==
    /\ pc \in {"net", "netget", "subnet", "lb", "lbpost", "lbrepost", "lbpoll",
               "listener", "pool", "fipGet", "fipPost"}
    /\ Fault("api") /\ Return
    /\ inReconcile /\ aside /\ UNCHANGED <<mem, netVars, lbVars, restVars>>

-----------------------------------------------------------------------------
(* reconcileNetwork.                                                        *)

NewNet(n) ==
    /\ nets[n] = "none" /\ nets' = [nets EXCEPT ![n] = "BUILDING"]

UseKnownNetwork ==
    /\ pc = "net" /\ Go("netget")
    /\ mem.net # None \/ mem.given # None
    /\ mem' = IF mem.net = None THEN [mem EXCEPT !.net = mem.given] ELSE mem
    /\ inReconcile /\ aside /\ UNCHANGED <<netVars, lbVars, restVars, faults>>

CreatePrivateNetwork ==
    /\ pc = "net" /\ mem.net = None /\ mem.given = None
    /\ \/ /\ \E n \in Nets : NewNet(n) /\ mem' = [mem EXCEPT !.net = n, !.mine = TRUE]
          /\ Go("netget") /\ UNCHANGED faults
       \* the answer is lost: the client sends the POST again, or gives up
       \/ /\ Fault("lost") /\ \E n \in Nets : NewNet(n)
          /\ pc' \in {"net", "patchConditions"} /\ UNCHANGED mem
       \* no network left: Nets bounds the quota
       \/ /\ \A n \in Nets : nets[n] # "none"
          /\ Return /\ UNCHANGED <<mem, nets, faults>>
    /\ inReconcile /\ aside /\ UNCHANGED <<subnets, lbVars, restVars>>

\* Mutant of GetPrivateNetwork: a network that is not ACTIVE yet is forgotten.
GetPrivateNetworkImpatient ==
    /\ pc = "netget"
    /\ \/ /\ nets[mem.net] = "ACTIVE" /\ UNCHANGED mem
          /\ Go(IF mem.subnet = None THEN "subnet" ELSE "sg")
       \/ /\ nets[mem.net] # "ACTIVE" /\ Return
          /\ mem' = [mem EXCEPT !.net = None, !.subnet = None]
    /\ inReconcile /\ aside /\ UNCHANGED <<netVars, lbVars, restVars, faults>>

GetPrivateNetwork ==
    /\ pc = "netget"
    /\ \/ /\ nets[mem.net] = "ACTIVE" /\ UNCHANGED mem
          /\ Go(IF mem.subnet = None THEN "subnet" ELSE "sg")
       \/ nets[mem.net] = "BUILDING" /\ Return /\ UNCHANGED mem
       \/ /\ nets[mem.net] = "gone" /\ Return
          /\ mem' = [mem EXCEPT !.net = None, !.subnet = None]
    /\ inReconcile /\ aside /\ UNCHANGED <<netVars, lbVars, restVars, faults>>

\* CreateSubnet, or ListSubnets finds it.
WithSubnet(n) == nets[n] = "ACTIVE" /\ subnets' = subnets \union {n}

\* The listed subnet, or a new one; without a CIDR there is none.
EnsureSubnet ==
    /\ pc = "subnet"
    /\ \/ /\ mem.net \in subnets \/ SubnetCIDR
          /\ WithSubnet(mem.net)
          /\ mem' = [mem EXCEPT !.subnet = mem.net] /\ Go("sg")
       \/ /\ mem.net \notin subnets /\ ~SubnetCIDR
          /\ Go("sg") /\ UNCHANGED <<mem, subnets>>
       \/ /\ nets[mem.net] = "gone" /\ Return /\ UNCHANGED <<mem, subnets>>
    /\ inReconcile /\ aside /\ UNCHANGED <<nets, lbVars, restVars, faults>>

-----------------------------------------------------------------------------
(* reconcileSecurityGroups: failures are warnings.  The rules are created   *)
(* only right after the group, by the same reconcile.                       *)

\* CreateSecurityGroup, unless ListSecurityGroups has it, and its rules.
MakeGroup(rules) == sgroup' = IF sgroup = "none" THEN rules ELSE sgroup

ReconcileSecurityGroups ==
    /\ pc = "sg" /\ Go("lb")
    /\ \/ /\ ~SecurityGroups \/ mem.sg
          /\ UNCHANGED <<mem, sgroup, faults>>
       \/ /\ SecurityGroups /\ ~mem.sg
          /\ mem' = [mem EXCEPT !.sg = TRUE]
          /\ \/ MakeGroup("ruled") /\ UNCHANGED faults
             \/ sgroup = "none" /\ Fault("api") /\ MakeGroup("bare")
       \/ /\ SecurityGroups /\ ~mem.sg /\ Fault("api")
          /\ UNCHANGED <<mem, sgroup>>
       \* the group is made, without its rules, and the answer is lost
       \/ /\ SecurityGroups /\ ~mem.sg /\ sgroup = "none" /\ Fault("lost")
          /\ MakeGroup("bare") /\ UNCHANGED mem
    /\ inReconcile /\ aside /\ UNCHANGED <<netVars, lbVars, fips, gateway, records>>

-----------------------------------------------------------------------------
(* reconcileLoadBalancer and CreateLoadBalancer.                            *)

\* Status.LoadBalancerID and FloatingIPID, or those to adopt (which may be None).
Adopt(r) == [r EXCEPT !.lb = IF @ = None THEN ExistingLB ELSE @,
                      !.fip = IF @ = None THEN ExistingFIP ELSE @]

\* A 404 on the recorded load balancer: RegisterListenerID, RegisterPoolID and
\* FloatingIPID stay.
ForgetLB(r) == [r EXCEPT !.lb = None, !.lst["apiserver"] = None,
                         !.pool["apiserver"] = None]

SubnetForLB(r) == r.net # None /\ (SubnetGiven \/ r.subnet # None)

\* GetLoadBalancer: the address that is known, and a floating IP that has one of
\* its own; the latter may show a little later here than in the list.
LBAnswers(l) ==
    LET address == IF l \in vips THEN {"VIPAddress"} ELSE {}
    IN {address} \union (IF fips[l] = "up" THEN {address \union {"FloatingIP"}} ELSE {})

ReconcileLoadBalancer ==
    /\ pc = "lb"
    /\ LET r == Adopt(mem) IN
       \/ /\ r.lb # None /\ Listed(r.lb) /\ mem' = r
          /\ lbRead' \in LBAnswers(r.lb)
          /\ Go(IF lbs[r.lb] = "ACTIVE" THEN "listener" ELSE "patchConditions")
       \/ /\ r.lb # None /\ ~Listed(r.lb) /\ mem' = ForgetLB(r)
          /\ Go(IF SubnetForLB(r) THEN "lbpost" ELSE "patchConditions")
          /\ UNCHANGED lbRead
       \/ /\ r.lb = None /\ mem' = r
          /\ Go(IF SubnetForLB(r) THEN "lbpost" ELSE "patchConditions")
          /\ UNCHANGED lbRead
    /\ inReconcile
    /\ UNCHANGED <<port, fipsLeft, fipStuck, netVars, lbVars, restVars, faults>>

\* The POST is accepted; the new load balancer is listed, or not yet.
NewLB(st) ==
    \E l \in OwnLBs : lbs[l] = "none" /\ lbs' = [lbs EXCEPT ![l] = st]

ListedOwn == {l \in OwnLBs : Listed(l)}

\* Mutant of FoundByName: the search before the POST is left out.
NotSearched == {}

FoundByName == ListedOwn

\* A load balancer with our name is used; an error of the search is ignored.
CreateLoadBalancer ==
    /\ pc = "lbpost"
    /\ \/ /\ \E l \in FoundByName : mem' = [mem EXCEPT !.lb = l]
          /\ Return /\ UNCHANGED <<lbs, faults>>
       \/ /\ Go("lbpoll") /\ UNCHANGED mem
          /\ \/ FoundByName = {} /\ NewLB("PENDING_CREATE") /\ UNCHANGED faults
             \/ FoundByName = {} /\ NewLB("hidden") /\ Fault("hide")
             \/ NewLB("PENDING_CREATE") /\ Fault("api")
       \* the answer to the POST is lost: it is sent again, or given up
       \/ /\ FoundByName = {} /\ NewLB("PENDING_CREATE") /\ Fault("lost")
          /\ pc' \in {"lbrepost", "patchConditions"} /\ UNCHANGED mem
       \* no load balancer left: LBs bounds the quota
       \/ /\ FoundByName = {} /\ \A l \in OwnLBs : lbs[l] # "none"
          /\ Return /\ UNCHANGED <<mem, lbs, faults>>
    /\ inReconcile /\ aside
    /\ UNCHANGED <<netVars, vips, listeners, pools, monitors, restVars>>

\* retryWithBackoff repeats the POST, not the search before it.
RepostLoadBalancer ==
    /\ pc = "lbrepost"
    /\ \/ NewLB("PENDING_CREATE") /\ Go("lbpoll")
       \/ (\A l \in OwnLBs : lbs[l] # "none") /\ Return /\ UNCHANGED lbs
    /\ inReconcile /\ aside
    /\ UNCHANGED <<mem, netVars, vips, listeners, pools, monitors, restVars, faults>>

\* The poll ends with the load balancer, or gives up while it is not listed.
PollLoadBalancer ==
    /\ pc = "lbpoll" /\ Return
    /\ \/ \E l \in ListedOwn : mem' = [mem EXCEPT !.lb = l]
       \/ ListedOwn = {} /\ UNCHANGED mem
    /\ inReconcile /\ aside /\ UNCHANGED <<netVars, lbVars, restVars, faults>>

-----------------------------------------------------------------------------
(* handleExistingLB: reconcileLBPort for each port, then the floating IP,   *)
(* then the endpoint.  A load balancer takes a change only while ACTIVE     *)
(* and is PENDING_UPDATE after it; otherwise the call answers 409.          *)

Mutable(l) == lbs[l] = "ACTIVE"
Touch(l)   == lbs' = [lbs EXCEPT ![l] = "PENDING_UPDATE"]

\* FindListenerByName and FindPoolByName: those of one load balancer are listed.
ListenerNamed(l, p) == <<l, p>> \in listeners
PoolNamed(l, p)     == <<l, p>> \in pools

\* CreateListener and CreatePool, while the load balancer takes changes.
PostListener(l, p) ==
    Mutable(l) /\ Touch(l) /\ listeners' = listeners \union {<<l, p>>}
PostPool(l, p) ==
    Mutable(l) /\ Touch(l) /\ pools' = pools \union {<<l, p>>}

\* Mutant of EnsureListener: it is not looked for, so the POST is refused.
EnsureListenerAnew ==
    /\ pc = "listener"
    /\ \/ mem.lst[port] # None /\ Go("pool") /\ UNCHANGED <<mem, lbs, listeners, faults>>
       \/ /\ mem.lst[port] = None /\ ~ListenerNamed(mem.lb, port)
          /\ PostListener(mem.lb, port)
          /\ \/ /\ mem' = [mem EXCEPT !.lst[port] = mem.lb]
                /\ Go("pool") /\ UNCHANGED faults
             \/ Fault("lost") /\ Return /\ UNCHANGED mem
       \/ /\ mem.lst[port] = None
          /\ ListenerNamed(mem.lb, port) \/ ~Mutable(mem.lb)
          /\ Return /\ UNCHANGED <<mem, lbs, listeners, faults>>
    /\ inReconcile /\ aside
    /\ UNCHANGED <<netVars, vips, pools, monitors, restVars>>

\* Find the listener by name, or create it.
EnsureListener ==
    /\ pc = "listener"
    /\ \/ mem.lst[port] # None /\ Go("pool") /\ UNCHANGED <<mem, lbs, listeners, faults>>
       \/ /\ mem.lst[port] = None /\ ListenerNamed(mem.lb, port)
          /\ mem' = [mem EXCEPT !.lst[port] = mem.lb]
          /\ Go("pool") /\ UNCHANGED <<lbs, listeners, faults>>
       \/ /\ mem.lst[port] = None /\ ~ListenerNamed(mem.lb, port)
          /\ PostListener(mem.lb, port)
          /\ \/ /\ mem' = [mem EXCEPT !.lst[port] = mem.lb]
                /\ Go("pool") /\ UNCHANGED faults
             \/ Fault("lost") /\ Return /\ UNCHANGED mem
       \/ /\ mem.lst[port] = None /\ ~ListenerNamed(mem.lb, port)
          /\ ~Mutable(mem.lb) /\ Return /\ UNCHANGED <<mem, lbs, listeners, faults>>
    /\ inReconcile /\ aside
    /\ UNCHANGED <<netVars, vips, pools, monitors, restVars>>

EnsurePool ==
    /\ pc = "pool"
    /\ \/ mem.pool[port] # None /\ Go("monitor") /\ UNCHANGED <<mem, lbs, pools, faults>>
       \/ /\ mem.pool[port] = None /\ PoolNamed(mem.lb, port)
          /\ mem' = [mem EXCEPT !.pool[port] = mem.lb]
          /\ Go("monitor") /\ UNCHANGED <<lbs, pools, faults>>
       \/ /\ mem.pool[port] = None /\ ~PoolNamed(mem.lb, port)
          /\ PostPool(mem.lb, port)
          /\ \/ /\ mem' = [mem EXCEPT !.pool[port] = mem.lb]
                /\ Go("monitor") /\ UNCHANGED faults
             \/ Fault("lost") /\ Return /\ UNCHANGED mem
       \/ /\ mem.pool[port] = None /\ ~PoolNamed(mem.lb, port)
          /\ ~Mutable(mem.lb) /\ Return /\ UNCHANGED <<mem, lbs, pools, faults>>
    /\ inReconcile /\ aside
    /\ UNCHANGED <<netVars, vips, listeners, monitors, restVars>>

\* A monitor with the pool's name exists somewhere in the region.
MonitorNamed(p) == \E l \in LBs : <<l, p>> \in monitors

\* Mutant of AfterMonitor: the register port is left out.
AfterFirstMonitor == IF FloatingNetwork THEN "fip" ELSE "dns"

\* Where handleExistingLB goes after the health monitor of the port.
AfterMonitor ==
    IF port = "apiserver" THEN "listener"
    ELSE IF FloatingNetwork THEN "fip" ELSE "dns"

\* The endpoint is set once, from the address the load balancer had when it
\* was read.
WithEndpoint(r, address) ==
    IF address # None /\ r.host = None THEN [r EXCEPT !.host = address] ELSE r

\* Mutant of MonitorMissing: looks only in the reconcile that made the pool.
MonitorMissingAtFirst ==
    ~MonitorNamed(port) /\ mem.pool[port] # base.pool[port]

MonitorMissing == ~MonitorNamed(port)

\* CreateHealthMonitor.
PostMonitor(l, p) == Touch(l) /\ monitors' = monitors \union {<<l, p>>}

\* Best effort: a conflict (or a pool that is gone) is a warning, as any error.
EnsurePoolHealthMonitor ==
    /\ pc = "monitor" /\ Go(AfterMonitor)
    /\ LET q == mem.pool[port]
           attached == MonitorMissing /\ <<q, port>> \in pools /\ Mutable(q)
       IN \/ attached /\ PostMonitor(q, port) /\ UNCHANGED faults
          \/ ~attached /\ UNCHANGED <<lbs, monitors, faults>>
          \/ attached /\ Fault("api") /\ UNCHANGED <<lbs, monitors>>
    /\ port' = "register"
    /\ mem' = IF AfterMonitor = "dns"
                THEN WithEndpoint(mem, IF "VIPAddress" \in lbRead THEN mem.lb ELSE None)
                ELSE mem
    /\ inReconcile
    /\ UNCHANGED <<lbRead, fipsLeft, fipStuck, netVars, vips, listeners, pools, restVars>>

-----------------------------------------------------------------------------
(* reconcileFloatingIP.  The id that the allocation returns is a            *)
(* placeholder and is dropped: the real one is found through the load       *)
(* balancer or the list, and shows up there when its address does or a      *)
(* little earlier.                                                          *)

inFloatingIP == inReconcile /\ aside

\* The load balancer, as it was read before its ports were dealt with, carries the
\* floating IP and its address.
FloatingIPOnLB ==
    /\ pc = "fip" /\ "FloatingIP" \in lbRead
    /\ mem' = WithEndpoint([mem EXCEPT !.fip = mem.lb], mem.lb) /\ Go("expose")
    /\ inFloatingIP /\ UNCHANGED <<netVars, lbVars, restVars, faults>>

\* It did not, or not yet: the recorded floating IP is asked for, or the list.
FloatingIPNotOnLB ==
    /\ pc = "fip" /\ "FloatingIP" \notin lbRead
    /\ Go(IF mem.fip # None THEN "exposeKnown" ELSE "fipList")
    /\ inFloatingIP /\ UNCHANGED <<mem, netVars, lbVars, restVars, faults>>

\* Mutant of GetFloatingIP: goes on as if there were an address.
GetFloatingIPAnyway ==
    /\ pc = "fipGet"
    /\ \/ /\ fips[mem.fip] \in {"up", "down", "reaping"}
          /\ mem' = WithEndpoint(mem, mem.fip) /\ Go("dns")
       \/ fips[mem.fip] = "pending" /\ Go("dns") /\ UNCHANGED mem
       \/ fips[mem.fip] = "gone" /\ mem' = [mem EXCEPT !.fip = None] /\ Go("fipList")
    /\ inFloatingIP /\ UNCHANGED <<netVars, lbVars, restVars, faults>>

\* The recorded one, attached or not, has an address, has none yet, or is gone.
GetFloatingIP ==
    /\ pc = "fipGet"
    /\ \/ /\ fips[mem.fip] \in {"up", "down", "reaping"}
          /\ mem' = WithEndpoint(mem, mem.fip) /\ Go("dns")
       \/ fips[mem.fip] = "pending" /\ Return /\ UNCHANGED mem
       \/ fips[mem.fip] = "gone" /\ mem' = [mem EXCEPT !.fip = None] /\ Go("fipList")
    /\ inFloatingIP /\ UNCHANGED <<netVars, lbVars, restVars, faults>>

\* The list has the one attached to our load balancer, or an error is ignored.
ListFloatingIPs ==
    /\ pc = "fipList"
    /\ \/ /\ fips[mem.lb] = "up" /\ Go("expose") /\ UNCHANGED faults
          /\ mem' = WithEndpoint([mem EXCEPT !.fip = mem.lb], mem.lb)
       \/ /\ fips[mem.lb] = "pending" /\ Return /\ UNCHANGED faults
          /\ mem' = [mem EXCEPT !.fip = mem.lb]
       \/ /\ Go(IF "VIPAddress" \in lbRead THEN "fipPost" ELSE "patchConditions") /\ UNCHANGED mem
          /\ \/ fips[mem.lb] \notin {"pending", "up"} /\ UNCHANGED faults
             \/ fips[mem.lb] \in {"pending", "up"} /\ Fault("api")
    /\ inFloatingIP /\ UNCHANGED <<netVars, lbVars, restVars>>

\* Allocate and attach, which makes a gateway too; OVH refuses when the load
\* balancer is gone or has one.
TakesFloatingIP(l) == LBExists(l) /\ fips[l] \in {"none", "down", "gone"}
AllocateFloatingIP(l) ==
    /\ fips' = [fips EXCEPT ![l] = "pending"]
    /\ gateway' = IF gateway = "none" THEN "up" ELSE gateway

CreateLoadBalancerFloatingIP ==
    /\ pc = "fipPost"
    /\ \/ /\ TakesFloatingIP(mem.lb) /\ AllocateFloatingIP(mem.lb)
          /\ \/ Go("exposeNew") /\ UNCHANGED faults
             \/ Fault("lost") /\ Return
       \/ /\ ~TakesFloatingIP(mem.lb)
          /\ Return /\ UNCHANGED <<fips, gateway, faults>>
    /\ inFloatingIP /\ UNCHANGED <<mem, netVars, lbVars, sgroup, records>>

\* ExposeGateway: a gateway that is exposed already is fine.
ExposeGateway == gateway # "none" /\ gateway' = "exposed"

\* ensureGatewayExposed, best effort, on the three ways through.
EnsureGatewayExposed ==
    /\ pc \in {"expose", "exposeKnown", "exposeNew"}
    /\ Go(CASE pc = "expose" -> "dns"
            [] pc = "exposeKnown" -> "fipGet"
            [] pc = "exposeNew" -> "fipRefresh")
    /\ \/ /\ mem.gw = "exposed" \/ (mem.gw = "none" /\ gateway = "none")
          /\ UNCHANGED <<mem, gateway, faults>>
       \/ /\ mem.gw # "exposed" /\ ExposeGateway
          /\ mem' = [mem EXCEPT !.gw = "exposed"] /\ UNCHANGED faults
       \/ /\ mem.gw # "exposed" /\ UNCHANGED gateway
          /\ \/ Fault("api") /\ mem' \in {mem, [mem EXCEPT !.gw = "known"]}
             \/ mem.gw = "known" /\ gateway = "none" /\ UNCHANGED <<mem, faults>>
    /\ inFloatingIP
    /\ UNCHANGED <<netVars, lbVars, fips, sgroup, records>>

\* After the allocation the load balancer, or the list, is read once more: the
\* floating IP shows with its address, with its id only, or not yet.
RefreshFloatingIP ==
    /\ pc = "fipRefresh"
    /\ \/ /\ fips[mem.lb] = "up" /\ Go("dns")
          /\ mem' = WithEndpoint([mem EXCEPT !.fip = mem.lb], mem.lb)
       \/ /\ fips[mem.lb] = "pending" /\ Return
          /\ mem' = [mem EXCEPT !.fip = mem.lb]
       \/ Return /\ UNCHANGED mem
    /\ inReconcile /\ aside /\ UNCHANGED <<netVars, lbVars, restVars, faults>>

-----------------------------------------------------------------------------
(* reconcileDNS, a warning when it fails; then everything is ready.         *)

\* CreateDNSRecord and RefreshDNSZone; DeleteDNSRecord.
AddRecord  == records < MaxRecords /\ records' = records + 1
DropRecord == records' = IF records = 0 THEN 0 ELSE records - 1

ReconcileDNS ==
    /\ pc = "dns" /\ Return
    /\ \/ /\ ~DNSConfig \/ mem.dns \/ mem.host = None
          /\ mem' = [mem EXCEPT !.ready = TRUE] /\ UNCHANGED <<records, faults>>
       \/ /\ DNSConfig /\ ~mem.dns /\ mem.host # None /\ AddRecord
          /\ \/ mem' = [mem EXCEPT !.ready = TRUE, !.dns = TRUE] /\ UNCHANGED faults
             \/ mem' = [mem EXCEPT !.ready = TRUE] /\ Fault("lost")
       \/ /\ DNSConfig /\ ~mem.dns /\ mem.host # None /\ Fault("api")
          /\ mem' = [mem EXCEPT !.ready = TRUE] /\ UNCHANGED records
    /\ inReconcile /\ aside
    /\ UNCHANGED <<netVars, lbVars, fips, gateway, sgroup>>

-----------------------------------------------------------------------------
(* ReconcileDelete.                                                         *)

DeleteDNSRecord ==
    /\ pc = "delDNS" /\ Go("delSG")
    /\ \/ /\ mem.dns /\ DNSConfig /\ mem' = [mem EXCEPT !.dns = FALSE]
          /\ DropRecord /\ UNCHANGED faults
       \/ ~(mem.dns /\ DNSConfig) /\ UNCHANGED <<mem, records, faults>>
       \/ mem.dns /\ DNSConfig /\ Fault("api") /\ UNCHANGED <<mem, records>>
    /\ inReconcile /\ aside
    /\ UNCHANGED <<netVars, lbVars, fips, gateway, sgroup>>

\* The client's DeleteSecurityGroup: 404 is fine.
DropGroup == sgroup' = "none"

DeleteSecurityGroup ==
    /\ pc = "delSG" /\ Go("delFIPs")
    /\ \/ mem.sg /\ mem' = [mem EXCEPT !.sg = FALSE] /\ DropGroup
          /\ UNCHANGED faults
       \/ ~mem.sg /\ UNCHANGED <<mem, sgroup, faults>>
       \/ mem.sg /\ Fault("api") /\ UNCHANGED <<mem, sgroup>>
    /\ inReconcile /\ aside
    /\ UNCHANGED <<netVars, lbVars, fips, gateway, records>>

\* Mutant of CaptureFloatingIPs: an empty FloatingIPID is not skipped.
CaptureFloatingIPsUnchecked ==
    /\ pc = "delFIPs" /\ Go("delPool")
    /\ fipsLeft' = {mem.fip} \union
                     {l \in {mem.lb} \ {None} : fips[l] \in {"pending", "up"}}
    /\ inReconcile
    /\ UNCHANGED <<mem, port, lbRead, fipStuck, netVars, lbVars, restVars, faults>>

\* The floating IPs to delete are noted while the load balancer still has them.
CaptureFloatingIPs ==
    /\ pc = "delFIPs" /\ Go("delPool")
    /\ LET recorded == {mem.fip} \ {None}
           attached == {l \in {mem.lb} \ {None} : fips[l] \in {"pending", "up"}}
       IN \/ fipsLeft' = recorded \union attached /\ UNCHANGED faults
          \/ mem.lb # None /\ Fault("api") /\ fipsLeft' = recorded
    /\ inReconcile
    /\ UNCHANGED <<mem, port, lbRead, fipStuck, netVars, lbVars, restVars>>

\* What the client's DeletePool, with the pool's monitor, and DeleteListener do.
DropPool(l, p) ==
    /\ Mutable(l) /\ Touch(l)
    /\ pools' = pools \ {<<l, p>>} /\ monitors' = monitors \ {<<l, p>>}
DropListener(l, p) ==
    Mutable(l) /\ Touch(l) /\ listeners' = listeners \ {<<l, p>>}

\* DeletePool and DeleteListener of the API port: errors are logged.
DeletePool ==
    /\ pc = "delPool" /\ Go("delListener")
    /\ LET q == mem.pool["apiserver"] IN
       \/ /\ mem.lb # None /\ q # None /\ <<q, "apiserver">> \in pools
          /\ DropPool(q, "apiserver") /\ UNCHANGED faults
       \/ /\ ~(mem.lb # None /\ q # None /\ <<q, "apiserver">> \in pools
                 /\ Mutable(q))
          /\ UNCHANGED <<pools, monitors, lbs, faults>>
       \/ /\ mem.lb # None /\ q # None /\ Fault("api")
          /\ UNCHANGED <<pools, monitors, lbs>>
    /\ inReconcile /\ aside
    /\ UNCHANGED <<mem, netVars, vips, listeners, restVars>>

DeleteListener ==
    /\ pc = "delListener" /\ Go("delLB")
    /\ LET q == mem.lst["apiserver"] IN
       \/ /\ mem.lb # None /\ q # None
          /\ <<q, "apiserver">> \in listeners
          /\ DropListener(q, "apiserver") /\ UNCHANGED faults
       \/ /\ ~(mem.lb # None /\ q # None /\ <<q, "apiserver">> \in listeners
                 /\ Mutable(q))
          /\ UNCHANGED <<listeners, lbs, faults>>
       \/ /\ mem.lb # None /\ q # None /\ Fault("api")
          /\ UNCHANGED <<listeners, lbs>>
    /\ inReconcile /\ aside
    /\ UNCHANGED <<mem, netVars, vips, pools, monitors, restVars>>

\* IsNotFound and IsAlreadyDeleting: the client takes 404 and a 409 that says
\* PENDING_DELETE or PENDING_UPDATE for success.
TakenForDeleted(l) == lbs[l] # "PENDING_CREATE"

\* DeleteLoadBalancer: only an ACTIVE one begins to go.
Doom(ls) == [l \in LBs |-> IF l \in ls /\ lbs[l] = "ACTIVE"
                             THEN "PENDING_DELETE" ELSE lbs[l]]

\* Mutant of DeleteLoadBalancer: 404 is an error.
DeleteLoadBalancerMustExist ==
    /\ pc = "delLB"
    /\ \/ mem.lb = None /\ Go("delOrphans") /\ UNCHANGED <<lbs, faults>>
       \/ /\ mem.lb # None /\ lbs[mem.lb] \notin {"PENDING_CREATE", "gone"}
          /\ lbs' = Doom({mem.lb}) /\ Go("delOrphans") /\ UNCHANGED faults
       \/ /\ mem.lb # None /\ lbs[mem.lb] \in {"PENDING_CREATE", "gone"}
          /\ Return /\ UNCHANGED <<lbs, faults>>
       \/ mem.lb # None /\ Fault("api") /\ Return /\ UNCHANGED lbs
    /\ inReconcile /\ aside
    /\ UNCHANGED <<mem, netVars, vips, listeners, pools, monitors, restVars>>

DeleteLoadBalancer ==
    /\ pc = "delLB"
    /\ \/ mem.lb = None /\ Go("delOrphans") /\ UNCHANGED <<lbs, faults>>
       \/ /\ mem.lb # None /\ TakenForDeleted(mem.lb)
          /\ lbs' = Doom({mem.lb}) /\ Go("delOrphans") /\ UNCHANGED faults
       \/ /\ mem.lb # None /\ ~TakenForDeleted(mem.lb)
          /\ Return /\ UNCHANGED <<lbs, faults>>
       \/ mem.lb # None /\ Fault("api") /\ Return /\ UNCHANGED lbs
    /\ inReconcile /\ aside
    /\ UNCHANGED <<mem, netVars, vips, listeners, pools, monitors, restVars>>

\* Load balancers whose name starts with ours.
PrefixLBs == OwnLBs \union OtherLBs

DeleteOrphans ==
    /\ pc = "delOrphans" /\ Go("cleanFIPs")
    /\ \/ lbs' = Doom(PrefixLBs) /\ UNCHANGED faults
       \/ Fault("api") /\ UNCHANGED lbs
    /\ inReconcile /\ aside
    /\ UNCHANGED <<mem, netVars, vips, listeners, pools, monitors, restVars>>

\* DeleteFloatingIP: while the load balancer is PENDING_DELETE it only detaches.
DropFloatingIP(f) ==
    fips' = [fips EXCEPT ![f] =
               IF @ \in {"pending", "up"} /\ lbs[f] = "PENDING_DELETE" THEN "down"
               ELSE IF @ \in {"pending", "up", "down"} THEN "reaping" ELSE @]

\* cleanupFloatingIPs, one at a time: what GetFloatingIP shows as detached, or
\* does not show for whatever error, counts as deleted; one that is still
\* attached is tried again by the next reconcile.
CleanupFloatingIP(f) ==
    /\ pc = "cleanFIPs" /\ f \in fipsLeft
    /\ fipsLeft' = fipsLeft \ {f}
    /\ \/ DropFloatingIP(f) /\ UNCHANGED <<fipStuck, faults>>
       \/ /\ fips[f] \in {"pending", "up"} /\ LBExists(f) /\ fipStuck' = TRUE
          /\ UNCHANGED <<fips, faults>>
       \/ Fault("api") /\ UNCHANGED <<fips, fipStuck>>
    /\ inReconcile
    /\ UNCHANGED <<pc, mem, port, lbRead, netVars, lbVars, gateway, sgroup, records>>

CleanupFloatingIPsDone ==
    /\ pc = "cleanFIPs" /\ fipsLeft = {}
    /\ Go(IF fipStuck THEN "patchConditions" ELSE "delGateway")
    /\ inReconcile /\ aside /\ UNCHANGED <<mem, netVars, lbVars, restVars, faults>>

\* ListGateways and DeleteGateway: the one with our name.
DropGateway == gateway' = "none"

DeleteGateway ==
    /\ pc = "delGateway" /\ Go("delNet")
    /\ \/ DropGateway /\ UNCHANGED faults
       \/ Fault("api") /\ UNCHANGED gateway
    /\ inReconcile /\ aside
    /\ UNCHANGED <<mem, netVars, lbVars, fips, sgroup, records>>

\* A network is in use while a gateway or one of our load balancers is on it.
NetInUse(n) == gateway # "none" \/ \E l \in OwnLBs : LBExists(l)

\* Mutant of DeletesNetwork: every recorded network is deleted.
DeletesAnyNetwork(r) == r.net # None

DeletesNetwork(r) == r.mine /\ r.net # None

\* The client's DeletePrivateNetwork; the subnets go with the network.
DropNet(n) == nets' = [nets EXCEPT ![n] = "gone"] /\ subnets' = subnets \ {n}

\* Mutant of DeletePrivateNetwork: a network in use is only logged.
DeletePrivateNetworkBestEffort ==
    /\ pc = "delNet" /\ Return /\ mem' = [mem EXCEPT !.fin = FALSE]
    /\ IF DeletesNetwork(mem) /\ nets[mem.net] # "gone" /\ ~NetInUse(mem.net)
         THEN DropNet(mem.net) ELSE UNCHANGED netVars
    /\ inReconcile /\ aside /\ UNCHANGED <<lbVars, restVars, faults>>

\* A network that is in use, or an error: try again later.
DeletePrivateNetwork ==
    /\ pc = "delNet" /\ Return
    /\ \/ /\ DeletesNetwork(mem) => nets[mem.net] = "gone"
          /\ mem' = [mem EXCEPT !.fin = FALSE] /\ UNCHANGED <<netVars, faults>>
       \/ /\ DeletesNetwork(mem) /\ nets[mem.net] # "gone" /\ ~NetInUse(mem.net)
          /\ DropNet(mem.net)
          /\ mem' = [mem EXCEPT !.fin = FALSE] /\ UNCHANGED faults
       \/ /\ DeletesNetwork(mem) /\ nets[mem.net] # "gone"
          /\ NetInUse(mem.net) /\ UNCHANGED <<mem, netVars, faults>>
       \/ DeletesNetwork(mem) /\ Fault("api") /\ UNCHANGED <<mem, netVars>>
    /\ inReconcile /\ aside /\ UNCHANGED <<lbVars, restVars>>

-----------------------------------------------------------------------------
(* The deferred patch: three requests, each of which may fail.              *)

Merged(f) == IF mem[f] # base[f] THEN mem[f] ELSE obj[f]

inPatch == UNCHANGED <<cache, owned, kept, port, lbRead, fipsLeft, fipStuck,
                       netVars, lbVars, restVars>>

\* A request that changes nothing is not sent; one for an object that is gone
\* fails, which changes nothing.
Apply(dirty, new) ==
    \/ obj' = (IF dirty /\ obj.ex THEN new ELSE obj) /\ UNCHANGED faults
    \/ dirty /\ Fault("patch") /\ UNCHANGED obj

PatchConditions ==
    /\ pc = "patchConditions" /\ Go("patch")
    /\ Apply(mem.mine # base.mine, [obj EXCEPT !.mine = Merged("mine")])
    /\ inPatch /\ UNCHANGED <<base, mem>>

PatchObject ==
    /\ pc = "patch" /\ Go("patchStatus")
    /\ Apply(mem.fin # base.fin \/ mem.host # base.host,
             [obj EXCEPT !.fin = Merged("fin"), !.host = Merged("host"),
                         !.ex = ~obj.del \/ Merged("fin")])
    /\ inPatch /\ UNCHANGED <<base, mem>>

\* RegisterListenerID and the others are merged field by field.
MergedPorts(f) ==
    [p \in Ports |-> IF mem[f][p] # base[f][p] THEN mem[f][p] ELSE obj[f][p]]

PatchStatus ==
    /\ pc = "patchStatus" /\ Go("idle")
    /\ Apply(\E f \in {"net", "subnet", "lb", "lst", "pool", "fip", "gw", "sg",
                        "dns", "ready"} : mem[f] # base[f],
             [obj EXCEPT !.net = Merged("net"), !.subnet = Merged("subnet"),
                         !.lb = Merged("lb"), !.lst = MergedPorts("lst"),
                         !.pool = MergedPorts("pool"), !.fip = Merged("fip"),
                         !.gw = Merged("gw"), !.sg = Merged("sg"),
                         !.dns = Merged("dns"), !.ready = Merged("ready")])
    /\ base' = NoCR /\ mem' = NoCR
    /\ inPatch

-----------------------------------------------------------------------------
(* The environment.                                                         *)

cloudStays == UNCHANGED <<netVars, lbVars, restVars>>

CacheSync ==
    /\ cache # obj /\ cache' = obj
    /\ UNCHANGED <<obj, owned, kept, workerVars, faults>> /\ cloudStays

Crash ==
    /\ Fault("crash") /\ Go("idle") /\ base' = NoCR /\ mem' = NoCR
    /\ cache' = obj
    /\ UNCHANGED <<obj, owned, kept, port, lbRead, fipsLeft, fipStuck>>
    /\ cloudStays

UserDelete ==
    /\ obj.ex /\ ~obj.del
    /\ obj' = [obj EXCEPT !.del = TRUE, !.ex = obj.fin] /\ kept' = obj.keep
    /\ UNCHANGED <<cache, owned, workerVars, faults>> /\ cloudStays

UserKeep ==
    /\ obj.ex /\ ~obj.keep /\ obj' = [obj EXCEPT !.keep = TRUE]
    /\ UNCHANGED <<cache, owned, kept, workerVars, faults>> /\ cloudStays

SetOwner ==
    /\ ~owned /\ owned' = TRUE
    /\ UNCHANGED <<obj, cache, kept, workerVars, faults>> /\ cloudStays

\* The user names a network of his own in the spec; no webhook objects.
EditNetwork ==
    /\ NetConfig /\ obj.ex /\ obj.given = None /\ Fault("edit")
    /\ obj' = [obj EXCEPT !.given = UserNet]
    /\ UNCHANGED <<cache, owned, kept, workerVars>> /\ cloudStays

cloudStep == UNCHANGED <<kubeVars, workerVars>>

NetProgress(n) ==
    /\ nets[n] = "BUILDING" /\ nets' = [nets EXCEPT ![n] = "ACTIVE"]
    /\ cloudStep /\ UNCHANGED <<subnets, lbVars, restVars, faults>>

\* Listeners, pools, monitors and the floating IP's attachment go with the
\* load balancer.
LBGone(l) ==
    /\ lbs' = [lbs EXCEPT ![l] = "gone"] /\ vips' = vips \ {l}
    /\ listeners' = listeners \ ({l} \X Ports) /\ pools' = pools \ ({l} \X Ports)
    /\ monitors' = monitors \ ({l} \X Ports)
    /\ fips' = [fips EXCEPT ![l] = IF @ \in {"pending", "up"} THEN "down" ELSE @]

LBProgress(l) ==
    /\ \/ /\ lbs[l] = "hidden" /\ lbs' = [lbs EXCEPT ![l] = "PENDING_CREATE"]
          /\ UNCHANGED <<vips, listeners, pools, monitors, fips, faults>>
       \/ /\ lbs[l] \in {"PENDING_CREATE", "PENDING_UPDATE"}
          /\ lbs' = [lbs EXCEPT ![l] = "ACTIVE"] /\ vips' = vips \union {l}
          /\ UNCHANGED <<listeners, pools, monitors, fips, faults>>
       \* ACTIVE before its address is known
       \/ /\ lbs[l] = "PENDING_CREATE" /\ Fault("noVIP")
          /\ lbs' = [lbs EXCEPT ![l] = "ACTIVE"]
          /\ UNCHANGED <<vips, listeners, pools, monitors, fips>>
       \/ /\ lbs[l] = "ACTIVE" /\ l \notin vips /\ vips' = vips \union {l}
          /\ UNCHANGED <<lbs, listeners, pools, monitors, fips, faults>>
       \/ lbs[l] = "PENDING_DELETE" /\ LBGone(l) /\ UNCHANGED faults
    /\ cloudStep /\ UNCHANGED <<netVars, gateway, sgroup, records>>

FIPProgress(f) ==
    /\ \/ fips[f] = "pending" /\ fips' = [fips EXCEPT ![f] = "up"]
       \/ fips[f] = "reaping" /\ fips' = [fips EXCEPT ![f] = "gone"]
    /\ cloudStep /\ UNCHANGED <<netVars, lbVars, gateway, sgroup, records, faults>>

\* Somebody deletes a load balancer, or the network with nothing on it.
Vanish ==
    /\ Fault("vanish")
    /\ \/ \E l \in OwnLBs : lbs[l] = "ACTIVE" /\ LBGone(l) /\ UNCHANGED netVars
       \/ \E n \in Nets \ {UserNet} :
            /\ nets[n] \in {"BUILDING", "ACTIVE"} /\ ~NetInUse(n)
            /\ DropNet(n) /\ UNCHANGED <<lbVars, fips>>
    /\ cloudStep /\ UNCHANGED <<gateway, sgroup, records>>

-----------------------------------------------------------------------------

Start ==
    \/ ReconcileStops \/ AddFinalizer \/ ReconcileNormal
    \/ ReconcileDeleteKeep \/ ReconcileDelete

Proceed ==
    \/ UseKnownNetwork \/ CreatePrivateNetwork \/ GetPrivateNetwork \/ EnsureSubnet
    \/ ReconcileSecurityGroups
    \/ ReconcileLoadBalancer \/ CreateLoadBalancer \/ RepostLoadBalancer
    \/ PollLoadBalancer
    \/ EnsureListener \/ EnsurePool \/ EnsurePoolHealthMonitor
    \/ FloatingIPOnLB \/ FloatingIPNotOnLB \/ GetFloatingIP \/ ListFloatingIPs
    \/ CreateLoadBalancerFloatingIP \/ EnsureGatewayExposed \/ RefreshFloatingIP \/ ReconcileDNS
    \/ DeleteDNSRecord \/ DeleteSecurityGroup \/ CaptureFloatingIPs
    \/ DeletePool \/ DeleteListener \/ DeleteLoadBalancer \/ DeleteOrphans
    \/ (\E f \in FIPs : CleanupFloatingIP(f)) \/ CleanupFloatingIPsDone
    \/ DeleteGateway \/ DeletePrivateNetwork
    \/ PatchConditions \/ PatchObject \/ PatchStatus
    \/ CallFails

Cloud ==
    \/ \E n \in Nets : NetProgress(n)
    \/ \E l \in LBs : LBProgress(l)
    \/ \E f \in FIPs : FIPProgress(f)

Next ==
    \/ Start \/ Proceed \/ Cloud \/ Vanish
    \/ CacheSync \/ Crash \/ UserDelete \/ UserKeep \/ SetOwner \/ EditNetwork

Spec == Init /\ [][Next]_vars

-----------------------------------------------------------------------------
(* What the controller has to get right.                                    *)

\* Every variable has its type.
TypeOK ==
    /\ obj \in CR /\ cache \in CR /\ owned \in BOOLEAN
    /\ kept \in BOOLEAN /\ pc \in PCs /\ base \in CR /\ mem \in CR
    /\ port \in Ports /\ lbRead \subseteq {"VIPAddress", "FloatingIP"} /\ fipsLeft \subseteq FIPs
    /\ fipStuck \in BOOLEAN
    /\ nets \in [Nets -> NetStatuses] /\ subnets \subseteq Nets
    /\ lbs \in [LBs -> LBStatuses] /\ vips \subseteq LBs
    /\ listeners \subseteq LBs \X Ports /\ pools \subseteq LBs \X Ports
    /\ monitors \subseteq LBs \X Ports /\ fips \in [FIPs -> FIPStatuses]
    /\ gateway \in {"none", "up", "exposed"} /\ sgroup \in {"none", "bare", "ruled"}
    /\ records \in 0 .. MaxRecords /\ faults \in 0 .. MaxFaults

\* The steps of ReconcileNormal that create something in OVH.
CreatingPCs == {"net", "subnet", "sg", "lbpost", "lbrepost", "listener", "pool",
                "monitor", "fipPost", "dns"}

\* Nothing is created in OVH unless the API server holds the object with its
\* finalizer, whatever the cache said when the reconcile began.
CreateUnderFinalizer == pc \in CreatingPCs => obj.ex /\ obj.fin

\* A network the user brought is never deleted by ReconcileDelete, even when the
\* spec named it only after the controller had made one of its own.
UserNetworkKept == nets[UserNet] = "ACTIVE"

\* A cluster deleted with the keep annotation on keeps all it has in OVH, unless
\* somebody else deletes it there.
KeepHonoured ==
    [][kept /\ ~Vanish =>
         /\ \A l \in LBs : lbs'[l] = "PENDING_DELETE" => lbs[l] = "PENDING_DELETE"
         /\ \A f \in FIPs : fips'[f] = "reaping" => fips[f] = "reaping"
         /\ \A n \in Nets : nets'[n] = "gone" => nets[n] = "gone"
         /\ gateway' = "none" => gateway = "none"
         /\ sgroup' = "none" => sgroup = "none"
         /\ records' >= records]_vars

\* At most one load balancer carries the cluster's name, crashes included:
\* CreateLoadBalancer lists by name before it posts.
NoDuplicateLB == \A k, l \in OwnLBs : LBExists(k) /\ LBExists(l) => k = l

\* When a reconcile comes to declare the cluster Ready, the load balancer it
\* records has both listeners and pools, and a floating IP if one is wanted.
ReadyIsServed ==
    pc = "dns" =>
        /\ \A p \in Ports : <<mem.lb, p>> \in listeners \intersect pools
        /\ FloatingNetwork => fips[mem.lb] = "up"

\* A Ready cluster has its control plane endpoint (handleExistingLB sets it before
\* ReconcileNormal declares it Ready), however late the address came.
ReadyHasEndpoint == obj.ready => obj.host # None

\* Something of ours is left in OVH that nothing is going to remove.
Leftover ==
    \/ \E l \in OwnLBs : lbs[l] \notin {"none", "PENDING_DELETE", "gone"}
    \/ \E n \in Nets \ {UserNet} : nets[n] \notin {"none", "gone"}
    \/ \E l \in LBs : fips[l] \in {"pending", "up", "down"}
    \/ gateway # "none" \/ sgroup # "none" \/ records # 0

\* "0 OVH resources left": an object that is gone without keep leaves nothing.
NothingLeft == ~obj.ex /\ ~obj.keep => ~Leftover

\* At most one private network is made for the cluster at a time, and one record
\* for its name: the ids in the status keep a later reconcile from making another
\* although neither reconcileNetwork nor reconcileDNS searches by name.
MadeOnce ==
    /\ \A m, n \in Nets \ {UserNet} :
         nets[m] \in {"BUILDING", "ACTIVE"} /\ nets[n] \in {"BUILDING", "ACTIVE"} => m = n
    /\ records <= 1

\* The load balancer of another cluster is not deleted by the orphan cleanup.
OtherClustersKept == \A l \in OtherLBs : LBExists(l) /\ lbs[l] # "PENDING_DELETE"

\* Fairness: the worker, the watch, CAPI and OVH go on.
Fairness ==
    /\ WF_vars(Start) /\ WF_vars(Proceed) /\ WF_vars(CacheSync) /\ WF_vars(SetOwner)
    /\ \A n \in Nets : WF_vars(NetProgress(n))
    /\ \A l \in LBs : WF_vars(LBProgress(l))
    /\ \A f \in FIPs : WF_vars(FIPProgress(f))

FairSpec == Spec /\ Fairness

\* A cluster that is not deleted becomes Ready: whatever step of ReconcileNormal
\* failed or lost its answer, later reconciles get past it.
BecomesReady == <>(obj.ready \/ obj.del)

\* A deletion that was asked for completes: no step of ReconcileDelete waits for
\* ever on what is gone or was half deleted before.
DeletionCompletes == obj.del ~> ~obj.ex

\* Every pool of a cluster that stays gets its health monitor in the end, although
\* ensurePoolHealthMonitor is refused while the load balancer is PENDING_UPDATE.
MonitorsAttached ==
    <>[](obj.ex /\ ~obj.del => \A p \in Ports : <<obj.lb, p>> \in monitors)

-----------------------------------------------------------------------------
(* OVHCluster implements ManagedResources: the load balancers are the        *)
(* resources, and those under the cluster's name are known to it.            *)

LifeOf ==
    IF ~obj.ex THEN (IF kept THEN "left" ELSE "released")
    ELSE IF ~obj.fin THEN "new"
    ELSE IF ~obj.del THEN "held"
    ELSE IF kept THEN "kept"
    ELSE IF obj.keep THEN "spared" ELSE "doomed"

FateOf(l) ==
    CASE lbs[l] = "none" -> "none"
      [] lbs[l] = "PENDING_DELETE" -> "ending"
      [] lbs[l] = "gone" -> "ended"
      [] OTHER -> "running"

Contract == INSTANCE ManagedResources WITH
    Objects <- {"cluster"}, Resources <- LBs,
    life <- [c \in {"cluster"} |-> LifeOf], res <- [l \in LBs |-> FateOf(l)],
    title <- [l \in LBs |-> IF l \in OtherLBs THEN {} ELSE {"cluster"}],
    known <- [c \in {"cluster"} |-> {l \in OwnLBs : lbs[l] # "none"}]

\* The controller keeps the contract of ManagedResources for its load balancer: it
\* creates one under the finalizer only, deletes one only for a cluster deleted
\* without keep, and removes the finalizer only once all it made are going.
ImplementsContract == Contract!Spec

=============================================================================
