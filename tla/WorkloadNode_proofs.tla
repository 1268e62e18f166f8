------------------------ MODULE WorkloadNode_proofs ------------------------
(***************************************************************************)
(* Proofs about the initialisation of workload nodes, for any taints, any  *)
(* number of instances, registrations and faults: type correctness, that a *)
(* Node is not freed before it has a providerID, and that the taints of    *)
(* others survive.                                                         *)
(***************************************************************************)
EXTENDS WorkloadNode, TLAPS

-----------------------------------------------------------------------------
(* Type correctness, which is inductive as it stands.                       *)

NodeType == [uid : 0 .. MaxNodes, pid : 0 .. Foreign, taints : SUBSET Taints]

LEMMA FaultType ==
    ASSUME faults \in 0 .. MaxFaults, Fault
    PROVE  faults' \in 0 .. MaxFaults
BY ConstantsAssumption DEF Fault

LEMMA NoNodeType == NoNode \in NodeType
BY ConstantsAssumption DEF NoNode, NodeType, NoID, Foreign

\* What a patch or another writer may make of a Node.
LEMMA NodeChangeType ==
    ASSUME NEW n \in NodeType, NEW p \in 0 .. Foreign, NEW ts \in SUBSET Taints
    PROVE  /\ [n EXCEPT !.pid = p] \in NodeType
           /\ [n EXCEPT !.taints = ts] \in NodeType
           /\ [n EXCEPT !.pid = p, !.taints = ts] \in NodeType
BY DEF NodeType

LEMMA TypeInit == Init => TypeOK
<1> SUFFICES ASSUME Init PROVE TypeOK
  OBVIOUS
<1>1. node \in NodeType
  BY NoNodeType DEF Init
<1>2. /\ 0 \in 0 .. MaxNodes /\ 1 \in 1 .. MaxInstances /\ 0 \in 0 .. MaxInstances
      /\ 0 \in 0 .. MaxFaults
  BY ConstantsAssumption
<1> QED
  BY <1>1, <1>2 DEF Init, TypeOK, NodeType, NoID

LEMMA TypeStep == TypeOK /\ [Next]_vars => TypeOK'
<1> SUFFICES ASSUME TypeOK, [Next]_vars PROVE TypeOK'
  OBVIOUS
<1> USE ConstantsAssumption DEF NoID
<1>1. /\ node \in NodeType /\ node.taints \subseteq Taints /\ node.pid \in 0 .. Foreign
      /\ node.uid \in 0 .. MaxNodes
      /\ id \in 0 .. MaxInstances /\ id \in 0 .. Foreign /\ live \in 0 .. Foreign
      /\ live \in 0 .. MaxInstances /\ live # NoID /\ 0 \in 0 .. MaxInstances /\ 0 \in 0 .. MaxNodes
      /\ newTaints \subseteq Taints
  BY DEF TypeOK, NodeType, Foreign, Taints
<1>2. ASSUME Finish
      PROVE  /\ pc' = "idle" /\ id' \in 0 .. MaxInstances /\ needs' = {}
             /\ newTaints' = {} /\ uid' \in 0 .. MaxNodes
  BY <1>1, <1>2 DEF Finish
<1>3. RemoveTaint(node.taints) \subseteq OtherTaints
  BY <1>1 DEF RemoveTaint, Taints
<1>4. Needs \subseteq {"providerID", "taint"}
  BY DEF Needs
<1>5. CASE UNCHANGED vars
  BY <1>5 DEF TypeOK, vars, passVars
<1>6. CASE Start
  BY <1>1, <1>6 DEF TypeOK, Start
<1>7. CASE GetNode
  <2>1. CASE Finish
    BY <1>2, <1>7, <2>1 DEF TypeOK, GetNode
  <2>2. CASE ~Finish
    BY <1>1, <1>3, <1>4, <1>7, <2>2 DEF TypeOK, GetNode
  <2> QED
    BY <2>1, <2>2
<1>8. CASE PatchProviderID
  <2>1. node' \in NodeType
    BY <1>1, <1>8, NodeChangeType DEF PatchProviderID
  <2>2. CASE Finish
    BY <1>2, <1>8, <2>1, <2>2 DEF TypeOK, PatchProviderID, NodeType
  <2>3. CASE ~Finish
    BY <1>8, <2>1, <2>3 DEF TypeOK, PatchProviderID, GoOn, NodeType
  <2> QED
    BY <2>2, <2>3
<1>9. CASE Refetch
  <2>1. CASE Finish
    BY <1>2, <1>9, <2>1 DEF TypeOK, Refetch
  <2>2. CASE ~Finish
    BY <1>3, <1>9, <2>2 DEF TypeOK, Refetch
  <2> QED
    BY <2>1, <2>2
<1>10. CASE PatchTaints
  <2>1. node' \in NodeType
    BY <1>1, <1>10, NodeChangeType DEF PatchTaints
  <2> QED
    BY <1>2, <1>10, <2>1 DEF TypeOK, PatchTaints, NodeType
<1>11. CASE CallFails
  <2>1. faults' \in 0 .. MaxFaults
    BY <1>11, FaultType DEF TypeOK, CallFails
  <2> QED
    BY <1>2, <1>11, <2>1 DEF TypeOK, CallFails
<1>12. CASE AnswerLost
  <2>1. faults' \in 0 .. MaxFaults
    BY <1>12, FaultType DEF TypeOK, AnswerLost
  <2>2. node' \in NodeType
    BY <1>1, <1>12, NodeChangeType DEF AnswerLost
  <2> QED
    BY <1>2, <1>12, <2>1, <2>2 DEF TypeOK, AnswerLost, NodeType
<1>13. CASE KubeconfigWritten
  BY <1>13 DEF TypeOK, KubeconfigWritten, environment, passVars
<1>14. CASE CcmInitialises
  <2>1. Foreign \in 0 .. Foreign /\ node.taints \ {"uninitialized"} \subseteq Taints
    BY <1>1 DEF Foreign
  <2>2. node' \in NodeType
    BY <1>1, <1>14, <2>1 DEF CcmInitialises, NodeType
  <2> QED
    BY <1>14, <2>2 DEF TypeOK, CcmInitialises, environment, passVars, NodeType
<1>15. CASE NodeDeleted
  BY <1>15, NoNodeType DEF TypeOK, NodeDeleted, environment, passVars, NodeType
<1>16. CASE InstanceReplaced
  BY <1>16 DEF TypeOK, InstanceReplaced, environment, passVars
<1>17. ASSUME NEW how \in Registers, KubeletRegisters(how) PROVE TypeOK'
  <2>1. Foreign \in 0 .. Foreign /\ 0 \in 0 .. Foreign
    BY DEF Foreign
  <2>2. /\ registered + 1 \in 0 .. MaxNodes
        /\ \A ts \in {{}, {"uninitialized"}} : ts \subseteq Taints
    BY <1>17 DEF TypeOK, KubeletRegisters, Taints
  <2>3. how \in {"bare", "own", "foreign"}
    OBVIOUS
  <2>4. node' \in NodeType
    BY <1>1, <1>17, <2>1, <2>2, <2>3 DEF KubeletRegisters, NodeType
  <2> QED
    BY <1>17, <2>2, <2>4 DEF TypeOK, KubeletRegisters, environment, passVars, NodeType
<1>18. ASSUME NEW t \in OtherTaints, TaintChange(t) PROVE TypeOK'
  <2>1. node' \in NodeType
    BY <1>1, <1>18 DEF TaintChange, NodeType, Taints
  <2> QED
    BY <1>18, <2>1 DEF TypeOK, TaintChange, environment, passVars, NodeType
<1> QED
  BY <1>5, <1>6, <1>7, <1>8, <1>9, <1>10, <1>11, <1>12, <1>13, <1>14, <1>15, <1>16,
     <1>17, <1>18 DEF Next, Pass

\* Every variable keeps its type; in particular a pass has an instance's
\* providerID in its hands and a list without the taint to write.
THEOREM TypeCorrect == Spec => []TypeOK
BY TypeInit, TypeStep, PTL DEF Spec

-----------------------------------------------------------------------------
(* The Node keeps its taint until it has a providerID.  The pass knows it   *)
(* of the Node it read first only: a Node that was registered since has a   *)
(* larger uid than that one.                                                *)

LinkInv ==
    /\ node # NoNode => node.uid # 0
    /\ uid <= registered /\ node.uid <= registered
    /\ pc \in {"refetch", "patchTaints"} /\ node # NoNode /\ node.uid = uid
         => node.pid # NoID

LEMMA LinkInit == Init => LinkInv
BY DEF Init, LinkInv, NoNode

LEMMA LinkStep == TypeOK /\ LinkInv /\ [Next]_vars => LinkInv'
<1> SUFFICES ASSUME TypeOK, LinkInv, [Next]_vars PROVE LinkInv'
  OBVIOUS
<1> USE ConstantsAssumption DEF NoID
<1>1. /\ node \in NodeType /\ node.uid \in Nat /\ registered \in Nat /\ uid \in Nat
      /\ NoNode \in NodeType /\ NoNode.uid = 0
  BY NoNodeType DEF TypeOK, NodeType, NoNode
<1>2. ASSUME node' = node, Finish, registered' = registered PROVE LinkInv'
  BY <1>1, <1>2 DEF LinkInv, Finish
<1>3. ASSUME node' \in NodeType, node # NoNode, node'.uid = node.uid,
             node.pid # NoID => node'.pid # NoID,
             registered' = registered, UNCHANGED <<pc, uid>>
      PROVE  LinkInv'
  BY <1>1, <1>3 DEF LinkInv
<1>4. CASE UNCHANGED vars
  BY <1>4 DEF LinkInv, vars, passVars
<1>5. CASE Start
  BY <1>5 DEF LinkInv, Start
<1>6. CASE GetNode
  BY <1>1, <1>2, <1>6 DEF LinkInv, GetNode, Needs
<1>7. CASE PatchProviderID
  <2>1. CASE ~Accepted
    BY <1>2, <1>7, <2>1 DEF PatchProviderID
  <2>2. CASE Accepted
    <3>1. id # NoID /\ node' = [node EXCEPT !.pid = id] /\ node # NoNode
      BY <1>7, <2>2 DEF PatchProviderID, TypeOK, Accepted
    <3>2. node'.uid = node.uid /\ node'.pid = id
      BY <1>1, <3>1 DEF NodeType
    <3>3. registered' = registered /\ uid' \in {uid, 0}
      BY <1>7, <2>2 DEF PatchProviderID, GoOn, Finish
    <3> QED
      BY <1>1, <3>1, <3>2, <3>3 DEF LinkInv
  <2> QED
    BY <2>1, <2>2
<1>8. CASE Refetch
  BY <1>1, <1>2, <1>8 DEF LinkInv, Refetch
<1>9. ASSUME node # NoNode, node' = [node EXCEPT !.taints = newTaints], Finish,
             registered' = registered
      PROVE  LinkInv'
  <2>1. node'.uid = node.uid
    BY <1>1, <1>9 DEF NodeType
  <2> QED
    BY <1>1, <1>9, <2>1 DEF LinkInv, Finish
<1>10. CASE PatchTaints
  BY <1>2, <1>9, <1>10 DEF PatchTaints
<1>11. CASE CallFails
  BY <1>2, <1>11 DEF CallFails
<1>12. CASE AnswerLost
  <2>1. CASE pc = "setID" /\ Accepted /\ node' = [node EXCEPT !.pid = id]
    <3>1. node'.uid = node.uid /\ node # NoNode
      BY <1>1, <2>1 DEF NodeType, Accepted
    <3> QED
      BY <1>1, <1>12, <3>1 DEF LinkInv, AnswerLost, Finish
  <2> QED
    BY <1>9, <1>12, <2>1 DEF AnswerLost
<1>13. CASE KubeconfigWritten
  BY <1>13 DEF LinkInv, KubeconfigWritten, environment, passVars
<1>14. CASE CcmInitialises
  <2>1. node'.uid = node.uid /\ (node.pid # NoID => node'.pid # NoID)
    BY <1>1, <1>14 DEF CcmInitialises, NodeType
  <2>2. node' \in NodeType
    BY <1>14, TypeStep DEF TypeOK, NodeType
  <2> QED
    BY <1>3, <1>14, <2>1, <2>2 DEF CcmInitialises, environment, passVars
<1>15. CASE NodeDeleted
  BY <1>1, <1>15 DEF LinkInv, NodeDeleted, environment, passVars
<1>16. CASE InstanceReplaced
  BY <1>16 DEF LinkInv, InstanceReplaced, environment, passVars
<1>17. ASSUME NEW how \in Registers, KubeletRegisters(how) PROVE LinkInv'
  <2>1. node'.uid = registered + 1
    BY <1>17 DEF KubeletRegisters
  <2> QED
    BY <1>1, <1>17, <2>1 DEF LinkInv, KubeletRegisters, environment, passVars
<1>18. ASSUME NEW t \in OtherTaints, TaintChange(t) PROVE LinkInv'
  <2>1. node'.uid = node.uid /\ node'.pid = node.pid
    BY <1>1, <1>18 DEF TaintChange, NodeType
  <2>2. node' \in NodeType
    BY <1>18, TypeStep DEF TypeOK, NodeType
  <2> QED
    BY <1>3, <1>18, <2>1, <2>2 DEF TaintChange, environment, passVars
<1> QED
  BY <1>4, <1>5, <1>6, <1>7, <1>8, <1>10, <1>11, <1>12, <1>13, <1>14, <1>15, <1>16,
     <1>17, <1>18 DEF Next, Pass

\* What FreedWithID says of one step.
Freed ==
    /\ node.uid = node'.uid /\ node.uid = uid
    /\ HasUninitializedTaint /\ ~HasUninitializedTaint'

LEMMA FreedStep == TypeOK /\ LinkInv /\ Next /\ Freed => node'.pid # NoID
<1> SUFFICES ASSUME TypeOK, LinkInv, Next, Freed PROVE node'.pid # NoID
  OBVIOUS
<1> USE ConstantsAssumption DEF NoID
<1>1. /\ node \in NodeType /\ node # NoNode /\ node' # node
      /\ node.uid # 0 /\ node.uid = uid /\ node'.uid = uid
      /\ "uninitialized" \in node.taints /\ "uninitialized" \notin node'.taints
  BY DEF TypeOK, NodeType, LinkInv, Freed, HasUninitializedTaint, NoNode
<1>2. ASSUME pc = "patchTaints", node' = [node EXCEPT !.taints = newTaints]
      PROVE  node'.pid # NoID
  BY <1>1, <1>2 DEF NodeType, LinkInv
<1>3. ASSUME node' = [node EXCEPT !.pid = id] PROVE FALSE
  BY <1>1, <1>3 DEF NodeType
<1>4. CASE Start \/ GetNode \/ Refetch \/ CallFails \/ KubeconfigWritten \/ InstanceReplaced
  BY <1>1, <1>4 DEF Start, GetNode, Refetch, CallFails, KubeconfigWritten, InstanceReplaced
<1>5. CASE PatchProviderID \/ PatchTaints \/ AnswerLost
  BY <1>1, <1>2, <1>3, <1>5 DEF PatchProviderID, PatchTaints, AnswerLost
<1>6. CASE CcmInitialises
  BY <1>1, <1>6 DEF CcmInitialises, NodeType, Foreign
<1>7. CASE NodeDeleted
  BY <1>1, <1>7 DEF NodeDeleted, NoNode
<1>8. ASSUME NEW how \in Registers, KubeletRegisters(how) PROVE FALSE
  BY <1>1, <1>8 DEF KubeletRegisters
<1>9. ASSUME NEW t \in OtherTaints, TaintChange(t) PROVE FALSE
  BY <1>1, <1>9 DEF TaintChange, NodeType
<1> QED
  BY <1>4, <1>5, <1>6, <1>7, <1>8, <1>9 DEF Next, Pass

\* InitializeWorkloadNode never takes the taint of a Node without a providerID,
\* whatever calls fail, whatever answers are lost and whoever else writes.
THEOREM NodesFreedWithID == Spec => FreedWithID
<1>1. TypeOK /\ LinkInv /\ [Next]_vars => [Freed => node'.pid # NoID]_vars
  BY FreedStep
<1>2. [Freed => node'.pid # NoID]_vars
      => [/\ node.uid = node'.uid /\ node.uid = uid
          /\ HasUninitializedTaint /\ ~HasUninitializedTaint'
          => node'.pid # NoID]_vars
  BY DEF Freed
<1> QED
  BY <1>1, <1>2, TypeInit, TypeStep, LinkInit, LinkStep, PTL DEF Spec, FreedWithID

-----------------------------------------------------------------------------
(* The list that the last patch writes is the Node's, except for what       *)
(* others changed since the second Get.                                     *)

ListInv ==
    pc = "patchTaints" =>
        \A t \in OtherTaints \ late : t \in node.taints <=> t \in newTaints

LEMMA ListStep == TypeOK /\ ListInv /\ [Next]_vars => ListInv'
<1> SUFFICES ASSUME TypeOK, ListInv, [Next]_vars PROVE ListInv'
  OBVIOUS
<1> USE ConstantsAssumption
<1>1. node \in NodeType
  BY DEF TypeOK, NodeType
<1>2. CASE UNCHANGED vars
  BY <1>2 DEF ListInv, vars, passVars
<1>3. CASE Start \/ GetNode
  BY <1>3 DEF ListInv, Start, GetNode, Finish
<1>4. CASE PatchProviderID \/ PatchTaints \/ CallFails \/ AnswerLost
  BY <1>4 DEF ListInv, PatchProviderID, PatchTaints, CallFails, AnswerLost, GoOn, Finish
<1>5. CASE Refetch
  BY <1>5 DEF ListInv, Refetch, Finish, RemoveTaint
<1>6. CASE KubeconfigWritten \/ InstanceReplaced
  BY <1>6 DEF ListInv, KubeconfigWritten, InstanceReplaced, environment, passVars
<1>7. CASE CcmInitialises
  <2>1. \A t \in OtherTaints : t \in node'.taints <=> t \in node.taints
    BY <1>1, <1>7 DEF CcmInitialises, NodeType
  <2> QED
    BY <1>7, <2>1 DEF ListInv, CcmInitialises, environment, passVars
<1>8. CASE NodeDeleted
  BY <1>8 DEF ListInv, NodeDeleted, environment, passVars
<1>9. ASSUME NEW how \in Registers, KubeletRegisters(how) PROVE ListInv'
  <2>1. \A t \in OtherTaints : t \in node'.taints <=> t \in node.taints
    BY <1>9 DEF KubeletRegisters, NoNode
  <2> QED
    BY <1>9, <2>1 DEF ListInv, KubeletRegisters, environment, passVars
<1>10. ASSUME NEW t \in OtherTaints, TaintChange(t) PROVE ListInv'
  <2>1. \A u \in OtherTaints \ {t} : u \in node'.taints <=> u \in node.taints
    BY <1>1, <1>10 DEF TaintChange, NodeType
  <2> QED
    BY <1>10, <2>1 DEF ListInv, TaintChange, environment, passVars
<1> QED
  BY <1>2, <1>3, <1>4, <1>5, <1>6, <1>7, <1>8, <1>9, <1>10 DEF Next, Pass

LEMMA ListWritten ==
    TypeOK /\ ListInv /\ Next /\ pc = "patchTaints" /\ pc' = "idle" =>
        \A t \in OtherTaints \ late : t \in node.taints <=> t \in node'.taints
<1> SUFFICES ASSUME TypeOK, ListInv, Next, pc = "patchTaints", pc' = "idle"
             PROVE  \A t \in OtherTaints \ late : t \in node.taints <=> t \in node'.taints
  OBVIOUS
<1>1. node \in NodeType
  BY DEF TypeOK, NodeType
<1>2. node' = node \/ node' = [node EXCEPT !.taints = newTaints]
  BY DEF Next, Pass, Start, GetNode, PatchProviderID, Refetch, PatchTaints, CallFails,
     AnswerLost, KubeconfigWritten, CcmInitialises, NodeDeleted, InstanceReplaced,
     KubeletRegisters, TaintChange, environment, passVars
<1> QED
  BY <1>1, <1>2 DEF NodeType, ListInv

\* The patch of the whole taint list, which no resourceVersion guards, keeps
\* every taint that others set or removed before the second Get.
THEOREM TaintsOfOthersStay == Spec => OthersTaintsStay
<1>1. Init => ListInv
  BY DEF Init, ListInv
<1>2. TypeOK /\ ListInv /\ [Next]_vars =>
        [pc = "patchTaints" /\ pc' = "idle" =>
           \A t \in OtherTaints \ late : t \in node.taints <=> t \in node'.taints]_vars
  BY ListWritten
<1> QED
  BY <1>1, <1>2, TypeInit, TypeStep, ListStep, PTL DEF Spec, OthersTaintsStay
=============================================================================
