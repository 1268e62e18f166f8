---------------------------- MODULE WorkloadNode ----------------------------
(***************************************************************************)
(* The initialisation of a machine's Node in the workload cluster          *)
(* (util/node_init.go), which the OVHMachine controller calls at the end   *)
(* of every reconcile that finds the instance ACTIVE: the providerID is    *)
(* set, and the taint of uninitialised nodes is removed, by merge patches  *)
(* without a resourceVersion.  Everything is best effort: an error ends    *)
(* the pass and the next reconcile starts from the beginning.              *)
(*                                                                         *)
(* Around it are the other writers of the Node, none of them in this       *)
(* repository: the kubelet, which registers it, a cloud controller         *)
(* manager, the writers of other taints, and whoever deletes Nodes.        *)
(***************************************************************************)
EXTENDS Naturals, FiniteSets

CONSTANTS
    OtherTaints,   \* taints that other controllers and users set and remove
    Registers,     \* how the kubelet registers: a subset of {"bare", "own", "foreign"}
    Ccm,           \* a cloud controller manager runs in the workload cluster
    MaxInstances,  \* instances the machine may have, one after another
    MaxNodes,      \* how often the Node may be registered
    MaxFaults      \* how many calls may fail (or end in a crash)

ASSUME ConstantsAssumption ==
    /\ "uninitialized" \notin OtherTaints
    /\ Registers \subseteq {"bare", "own", "foreign"}
    /\ Ccm \in BOOLEAN
    /\ MaxInstances \in Nat \ {0} /\ MaxNodes \in Nat \ {0} /\ MaxFaults \in Nat

Taints == {"uninitialized"} \union OtherTaints

\* Provider ids: of the machine's n-th instance, of no instance of it
\* ("rke2://<hostname>", "openstack:///..."), and the empty string.
NoID    == 0
Foreign == MaxInstances + 1

VARIABLES
    node,         \* the Node object: uid (0: none), providerID, taints
    registered,   \* how many Nodes were registered so far
    live,         \* the machine's instance, which is ACTIVE
    kubeconfig,   \* the kubeconfig secret of the workload cluster exists
    pc,           \* where the pass is
    id,           \* its argument providerID
    needs,        \* needsProviderID and needsTaintRemoval
    newTaints,    \* the list that the taint patch will write
    faults,       \* faults so far
    uid,          \* history: the Node that the pass read first
    late          \* history: taints that others changed since the pass read them

passVars == <<pc, id, needs, newTaints, uid>>
vars == <<node, registered, live, kubeconfig, passVars, faults, late>>

NoNode == [uid |-> 0, pid |-> NoID, taints |-> {}]

Init ==
    /\ node = NoNode /\ registered = 0
    /\ live = 1 /\ kubeconfig = FALSE
    /\ pc = "idle" /\ id = NoID /\ needs = {} /\ newTaints = {}
    /\ faults = 0 /\ uid = 0 /\ late = {}

-----------------------------------------------------------------------------
(* The pass: one call to the workload cluster's API server per step.        *)

Finish == pc' = "idle" /\ id' = NoID /\ needs' = {} /\ newTaints' = {} /\ uid' = 0

\* getWorkloadRESTConfig returns a configuration.
WorkloadRESTConfig == kubeconfig

\* Spec.ProviderID, which handleExistingInstance has just set, is not empty.
ProviderIDGiven(providerID) == providerID # NoID

\* Without a kubeconfig, or if it cannot be read, nothing is done, nor without a
\* providerID.
Start ==
    /\ pc = "idle" /\ WorkloadRESTConfig /\ ProviderIDGiven(live)
    /\ pc' = "get" /\ id' = live
    /\ UNCHANGED <<node, registered, live, kubeconfig, needs, newTaints, uid, faults, late>>

HasUninitializedTaint == "uninitialized" \in node.taints

\* Mutant of RemoveTaint: the comparison of the keys is inverted.
RemoveOtherTaints(taints) == taints \ OtherTaints

RemoveTaint(taints) == taints \ {"uninitialized"}

\* Mutant of Needs: a node with a providerID is taken for initialised.
NeedsIfBare ==
    IF node.pid # NoID THEN {}
    ELSE {"providerID"} \union (IF HasUninitializedTaint THEN {"taint"} ELSE {})

Needs ==
    (IF node.pid = NoID THEN {"providerID"} ELSE {}) \union
    (IF HasUninitializedTaint THEN {"taint"} ELSE {})

GetNode ==
    /\ pc = "get"
    /\ IF node = NoNode \/ Needs = {}
         THEN Finish
         ELSE /\ needs' = Needs /\ uid' = node.uid
              /\ newTaints' = RemoveTaint(node.taints)
              /\ pc' = IF "providerID" \in Needs THEN "setID" ELSE "refetch"
              /\ UNCHANGED id
    /\ UNCHANGED <<node, registered, live, kubeconfig, faults, late>>

\* Node validation: providerID changes from the empty string only.
Accepted == node # NoNode /\ node.pid \in {NoID, id}

GoOn ==
    IF "taint" \in needs
      THEN pc' = "refetch" /\ UNCHANGED <<id, needs, newTaints, uid>>
      ELSE Finish

PatchProviderID ==
    /\ pc = "setID"
    /\ IF Accepted
         THEN node' = [node EXCEPT !.pid = id] /\ GoOn
         ELSE UNCHANGED node /\ Finish
    /\ UNCHANGED <<registered, live, kubeconfig, faults, late>>

\* Mutant of Refetch: the answer is dropped and the first one used.
RefetchDropped ==
    /\ pc = "refetch"
    /\ IF node # NoNode /\ HasUninitializedTaint
         THEN pc' = "patchTaints" /\ UNCHANGED <<id, needs, newTaints, uid>>
         ELSE Finish
    /\ late' = {}
    /\ UNCHANGED <<node, registered, live, kubeconfig, faults>>

\* The second Get, and removeTaint: no patch when the taint is gone already.
Refetch ==
    /\ pc = "refetch"
    /\ IF node # NoNode /\ HasUninitializedTaint
         THEN /\ newTaints' = RemoveTaint(node.taints)
              /\ pc' = "patchTaints" /\ UNCHANGED <<id, needs, uid>>
         ELSE Finish
    /\ late' = {}
    /\ UNCHANGED <<node, registered, live, kubeconfig, faults>>

\* A merge patch replaces the whole list.
PatchTaints ==
    /\ pc = "patchTaints"
    /\ node' = IF node = NoNode THEN node ELSE [node EXCEPT !.taints = newTaints]
    /\ Finish
    /\ UNCHANGED <<registered, live, kubeconfig, faults, late>>

Fault == faults < MaxFaults /\ faults' = faults + 1

\* Mutant of CallFails: a failed providerID patch is only logged.
CallFailsGoesOn ==
    /\ pc # "idle" /\ Fault
    /\ IF pc = "setID" THEN GoOn ELSE Finish
    /\ UNCHANGED <<node, registered, live, kubeconfig, late>>

\* Any call fails, or the process stops: a warning, and the pass is over.
CallFails ==
    /\ pc # "idle" /\ Fault /\ Finish
    /\ UNCHANGED <<node, registered, live, kubeconfig, late>>

\* The same, but the patch had been carried out.
AnswerLost ==
    /\ Fault /\ Finish
    /\ \/ pc = "setID" /\ Accepted /\ node' = [node EXCEPT !.pid = id]
       \/ pc = "patchTaints" /\ node # NoNode /\ node' = [node EXCEPT !.taints = newTaints]
    /\ UNCHANGED <<registered, live, kubeconfig, late>>

-----------------------------------------------------------------------------
(* The environment.                                                         *)

environment == UNCHANGED <<passVars, faults>>

KubeconfigWritten ==
    /\ ~kubeconfig /\ kubeconfig' = TRUE
    /\ environment /\ UNCHANGED <<node, registered, live, late>>

\* "own": the ClusterClass has given the kubelet its --provider-id.  The taint
\* comes with an external cloud provider only.
KubeletRegisters(how) ==
    /\ node = NoNode /\ registered < MaxNodes
    /\ registered' = registered + 1
    /\ \E ts \in {{}, {"uninitialized"}} :
         node' = [uid |-> registered + 1, taints |-> ts,
                  pid |-> CASE how = "bare" -> NoID
                            [] how = "own" -> live
                            [] how = "foreign" -> Foreign]
    /\ environment /\ UNCHANGED <<live, kubeconfig, late>>

\* A cloud controller manager initialises the node by its own lights.
CcmInitialises ==
    /\ Ccm /\ node # NoNode /\ HasUninitializedTaint
    /\ node' = [node EXCEPT !.pid = IF @ = NoID THEN Foreign ELSE @,
                            !.taints = @ \ {"uninitialized"}]
    /\ environment /\ UNCHANGED <<registered, live, kubeconfig, late>>

TaintChange(t) ==
    /\ node # NoNode
    /\ node' = [node EXCEPT !.taints = IF t \in @ THEN @ \ {t} ELSE @ \union {t}]
    /\ late' = IF pc = "patchTaints" THEN late \union {t} ELSE late
    /\ environment /\ UNCHANGED <<registered, live, kubeconfig>>

NodeDeleted ==
    /\ node # NoNode /\ node' = NoNode
    /\ late' = IF pc = "patchTaints" THEN OtherTaints ELSE late
    /\ environment /\ UNCHANGED <<registered, live, kubeconfig>>

\* The instance is lost, and the same worker has made another one under the same
\* name: its kubelet finds the Node and leaves it as it is.
InstanceReplaced ==
    /\ pc = "idle" /\ live < MaxInstances /\ live' = live + 1
    /\ environment /\ UNCHANGED <<node, registered, kubeconfig, late>>

Pass ==
    \/ GetNode \/ PatchProviderID \/ Refetch \/ PatchTaints
    \/ CallFails \/ AnswerLost

Next ==
    \/ Start \/ Pass
    \/ KubeconfigWritten \/ CcmInitialises \/ NodeDeleted \/ InstanceReplaced
    \/ \E how \in Registers : KubeletRegisters(how)
    \/ \E t \in OtherTaints : TaintChange(t)

\* A pass that has begun goes on; the informer's resync reconciles the machine
\* again and again; CAPI writes the kubeconfig at some time.
Fairness ==
    /\ WF_vars(Start) /\ WF_vars(Pass) /\ WF_vars(KubeconfigWritten)

Spec == Init /\ [][Next]_vars /\ Fairness

-----------------------------------------------------------------------------
(* What the initialisation has to get right.                                *)

\* A pass has the providerID of an instance of the machine in its hands, and its
\* taint list, which InitializeWorkloadNode is going to write, is free of the taint.
TypeOK ==
    /\ node \in [uid : 0 .. MaxNodes, pid : 0 .. Foreign, taints : SUBSET Taints]
    /\ registered \in 0 .. MaxNodes /\ live \in 1 .. MaxInstances
    /\ kubeconfig \in BOOLEAN /\ faults \in 0 .. MaxFaults
    /\ pc \in {"idle", "get", "setID", "refetch", "patchTaints"}
    /\ id \in 0 .. MaxInstances /\ (pc # "idle" => id # NoID)
    /\ needs \subseteq {"providerID", "taint"}
    /\ newTaints \subseteq OtherTaints /\ late \subseteq OtherTaints
    /\ uid \in 0 .. MaxNodes

\* A Node does not lose the taint, and is not open for workloads, while it has no
\* providerID, even if the providerID patch fails, its answer is lost or another
\* writer is faster; unless the Node was replaced since the pass read it first: the
\* reads and patches go by name, and what was decided for one Node hits the other.
FreedWithID ==
    [][/\ node.uid = node'.uid /\ node.uid = uid
       /\ HasUninitializedTaint /\ ~HasUninitializedTaint'
       => node'.pid # NoID]_vars

\* The patch of the whole taint list, which no resourceVersion protects, undoes
\* only what others did after the second Get; what they did before it, during the
\* providerID patch too, stays.
OthersTaintsStay ==
    [][pc = "patchTaints" /\ pc' = "idle" =>
         \A t \in OtherTaints \ late : t \in node.taints <=> t \in node'.taints]_vars

Initialised == node.pid # NoID /\ ~HasUninitializedTaint

\* Whatever fails or is interrupted halfway, a Node that is there ends up with a
\* providerID and without the taint, also without a cloud controller manager.
EventuallyInitialised == <>[](node # NoNode => Initialised)

\* The machine's Node ends up with the providerID that CAPI looks for, that of the
\* instance which the OVHMachine's spec names (the comment above the call).
EventuallyLinked == <>[](node # NoNode => node.pid = live)
=============================================================================
