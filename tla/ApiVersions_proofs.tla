-------------------------- MODULE ApiVersions_proofs --------------------------
(***************************************************************************)
(* Proofs about ApiVersions, for any set of objects and any fields edited: *)
(* what conversion and admission promise.  The sets of fields that the     *)
(* conversion functions assign are shown to be the fields both versions    *)
(* have, after which a conversion is a restriction or an extension of the  *)
(* document and the invariant is that a stored document agrees with what   *)
(* was asked for on those fields.                                          *)
(***************************************************************************)
EXTENDS ApiVersions, TLAPS

ClusterKinds == {"OVHCluster", "OVHClusterTemplate"}

Protocols == {"TCP", "UDP", "SCTP", "HTTP"}

\* A document of a kind in a version: a function on its fields.
IsDoc(k, v, d) ==
    /\ d = [f \in Fields(k, v) |-> d[f]]
    /\ k \in ClusterKinds => d["Listeners"] \in Seq(Protocols)

-----------------------------------------------------------------------------
(* The fields.                                                              *)

\* Every field of a type is in the set its conversion function assigns.
LEMMA AllAssigned ==
    /\ ClusterSpecTo = ClusterSpec1 /\ ClusterSpecFrom = ClusterSpec1
    /\ ClusterStatusTo = ClusterStatus1 /\ ClusterStatusFrom = ClusterStatus1
    /\ MachineSpecTo = MachineSpec1 /\ MachineSpecFrom = MachineSpec1
    /\ MachineStatusTo = MachineStatus1 /\ MachineStatusFrom = MachineStatus1
<1>1. ClusterSpecTo = ClusterSpec1 /\ ClusterSpecFrom = ClusterSpec1
  BY DEF ClusterSpecTo, ClusterSpecFrom, ClusterSpec1
<1>2. ClusterStatusTo = ClusterStatus1 /\ ClusterStatusFrom = ClusterStatus1
  BY DEF ClusterStatusTo, ClusterStatusFrom, ClusterStatus1
<1>3. MachineSpecTo = MachineSpec1 /\ MachineSpecFrom = MachineSpec1
  BY DEF MachineSpecTo, MachineSpecFrom, MachineSpec1
<1>4. MachineStatusTo = MachineStatus1 /\ MachineStatusFrom = MachineStatus1
  BY DEF MachineStatusTo, MachineStatusFrom, MachineStatus1
<1> QED
  BY <1>1, <1>2, <1>3, <1>4

\* The fields of each kind in each version.
LEMMA FieldsOf ==
    /\ Fields("OVHCluster", "v1alpha1") = ClusterSpec1 \union ClusterStatus1
    /\ Fields("OVHCluster", "v1alpha2") = ClusterSpec2 \union ClusterStatus2
    /\ Fields("OVHClusterTemplate", "v1alpha1") = ClusterSpec1
    /\ Fields("OVHClusterTemplate", "v1alpha2") = ClusterSpec2
    /\ Fields("OVHMachine", "v1alpha1") = MachineSpec1 \union MachineStatus1
    /\ Fields("OVHMachine", "v1alpha2") = MachineSpec2 \union MachineStatus2
    /\ Fields("OVHMachineTemplate", "v1alpha1") = MachineSpec1
    /\ Fields("OVHMachineTemplate", "v1alpha2") = MachineSpec2
BY DEF Fields, SpecFields, StatusFields

LEMMA CommonFields ==
    ASSUME NEW k \in Kinds
    PROVE  /\ Fields(k, "v1alpha1") \subseteq Fields(k, "v1alpha2")
           /\ k \in ClusterKinds => "Listeners" \in Fields(k, "v1alpha1")
<1>1. /\ ClusterSpec1 \subseteq ClusterSpec2 /\ ClusterStatus1 \subseteq ClusterStatus2
      /\ MachineSpec1 \subseteq MachineSpec2 /\ MachineStatus1 \subseteq MachineStatus2
  BY DEF ClusterSpec2, ClusterStatus2, MachineSpec2, MachineStatus2
<1>2. "Listeners" \in ClusterSpec1
  BY DEF ClusterSpec1
<1> QED
  BY <1>1, <1>2, FieldsOf DEF Kinds, ClusterKinds

-----------------------------------------------------------------------------
(* The conversions.                                                         *)

\* Protocols that are converted at all are left as they are.
LEMMA ListenersConvert ==
    ASSUME NEW s \in Seq(Protocols),
           \A i \in DOMAIN s : s[i] \in DOMAIN ProtocolToV1Alpha2
    PROVE  [i \in DOMAIN s |-> ProtocolToV1Alpha2[s[i]]] = s
<1>1. \A i \in DOMAIN s : ProtocolToV1Alpha2[s[i]] = s[i]
  BY DEF ProtocolToV1Alpha2
<1>2. [i \in DOMAIN s |-> ProtocolToV1Alpha2[s[i]]] = [i \in DOMAIN s |-> s[i]]
  BY <1>1
<1> QED
  BY <1>2

\* ConvertTo keeps every field of v1alpha1 and leaves the others empty.
LEMMA ToExtends ==
    ASSUME NEW k \in Kinds, NEW d, IsDoc(k, "v1alpha1", d), ConvertsTo(k, d)
    PROVE  ConvertTo(k, d) = Copy(d, Fields(k, "v1alpha2"), Fields(k, "v1alpha1"))
<1>1. CASE k \in {"OVHMachine", "OVHMachineTemplate"}
  BY <1>1, AllAssigned, FieldsOf DEF ConvertTo, MachineConvertTo, MachineTemplateConvertTo
<1>2. CASE k \in ClusterKinds
  <2>1. PICK c : c = Copy(d, Fields(k, "v1alpha2"), Fields(k, "v1alpha1"))
    OBVIOUS
  <2>2. /\ "Listeners" \in Fields(k, "v1alpha2")
        /\ c["Listeners"] = d["Listeners"]
        /\ c = [f \in Fields(k, "v1alpha2") |-> c[f]]
    BY <1>2, <2>1, CommonFields DEF Copy
  <2>3. [i \in DOMAIN c["Listeners"] |-> ProtocolToV1Alpha2[c["Listeners"][i]]]
          = c["Listeners"]
    BY <1>2, <2>2, ListenersConvert DEF IsDoc, ConvertsTo, ClusterKinds
  <2>4. [c EXCEPT !["Listeners"] = [i \in DOMAIN @ |-> ProtocolToV1Alpha2[@[i]]]] = c
    BY <2>2, <2>3
  <2>5. ConvertTo(k, d) = [c EXCEPT !["Listeners"] = [i \in DOMAIN @ |-> ProtocolToV1Alpha2[@[i]]]]
    BY <1>2, <2>1, AllAssigned, FieldsOf
       DEF ConvertTo, ClusterConvertTo, ClusterTemplateConvertTo, ClusterKinds
  <2> QED
    BY <2>1, <2>4, <2>5
<1> QED
  BY <1>1, <1>2 DEF Kinds, ClusterKinds

\* ConvertFrom keeps the fields of v1alpha1 and drops the others.
LEMMA FromRestricts ==
    ASSUME NEW k \in Kinds, NEW d
    PROVE  ConvertFrom(k, d) = [f \in Fields(k, "v1alpha1") |-> d[f]]
<1>1. ConvertFrom(k, d) = Copy(d, Fields(k, "v1alpha1"), Fields(k, "v1alpha1"))
  BY AllAssigned, FieldsOf
     DEF ConvertFrom, ClusterConvertFrom, ClusterTemplateConvertFrom, MachineConvertFrom,
         MachineTemplateConvertFrom, Kinds
<1> QED
  BY <1>1 DEF Copy

\* A conversion gives a document of the other version with the same common fields.
LEMMA ConvertedDoc ==
    ASSUME NEW k \in Kinds, NEW v \in Versions, NEW w \in Versions, NEW d,
           IsDoc(k, v, d), Converts(k, v, w, d)
    PROVE  /\ IsDoc(k, w, Converted(k, v, w, d))
           /\ \A f \in Fields(k, "v1alpha1") : Converted(k, v, w, d)[f] = d[f]
<1>1. CASE v = w
  BY <1>1 DEF Converted
<1>2. CASE v = "v1alpha1" /\ w = "v1alpha2"
  <2>1. Converted(k, v, w, d) = Copy(d, Fields(k, "v1alpha2"), Fields(k, "v1alpha1"))
    BY <1>2, ToExtends DEF Converted, Converts
  <2>2. \A f \in Fields(k, "v1alpha1") : Converted(k, v, w, d)[f] = d[f]
    BY <2>1, CommonFields DEF Copy
  <2>3. Converted(k, v, w, d) = [f \in Fields(k, w) |-> Converted(k, v, w, d)[f]]
    BY <1>2, <2>1 DEF Copy
  <2> QED
    BY <2>2, <2>3, CommonFields DEF IsDoc
<1>3. CASE v = "v1alpha2" /\ w = "v1alpha1"
  <2>1. Converted(k, v, w, d) = [f \in Fields(k, "v1alpha1") |-> d[f]]
    BY <1>3, FromRestricts DEF Converted
  <2> QED
    BY <1>3, <2>1, CommonFields DEF IsDoc
<1> QED
  BY <1>1, <1>2, <1>3 DEF Versions

\* What is stored in v1alpha2 has the protocols of its schema.
LEMMA StoredSchema ==
    ASSUME NEW k \in Kinds, NEW v \in Versions, NEW d,
           IsDoc(k, v, d), Schema(k, v, d), Converts(k, v, "v1alpha2", d)
    PROVE  Schema(k, "v1alpha2", Converted(k, v, "v1alpha2", d))
<1>1. CASE v = "v1alpha2"
  BY <1>1 DEF Converted
<1>2. CASE v = "v1alpha1"
  <2>1. CASE k \in ClusterKinds
    <3>1. Converted(k, v, "v1alpha2", d)["Listeners"] = d["Listeners"]
      BY <2>1, ConvertedDoc, CommonFields DEF Versions
    <3>2. \A i \in DOMAIN d["Listeners"] : d["Listeners"][i] \in {"TCP", "UDP", "SCTP"}
      BY <1>2, <2>1 DEF Converts, ConvertsTo, ProtocolToV1Alpha2, ClusterKinds
    <3> QED
      BY <3>1, <3>2 DEF Schema, ProtocolEnum
  <2>2. CASE k \notin ClusterKinds
    BY <2>2 DEF Schema, ClusterKinds
  <2> QED
    BY <2>1, <2>2
<1> QED
  BY <1>1, <1>2 DEF Versions

\* Listeners are sequences in whatever is written.
LEMMA ListenerContents ==
    ASSUME NEW x \in Contents("Listeners")
    PROVE  x \in Seq(Protocols)
<1>1. x \in {Zero("Listeners"), Sample("Listeners")}
              \union {<<"UDP">>, <<"HTTP">>, <<"TCP", "HTTP">>}
  BY Zenon DEF Contents
<1>2. Zero("Listeners") = << >> /\ Sample("Listeners") = <<"TCP">>
  BY Zenon DEF Zero, Sample
<1>3. /\ << >> \in Seq(Protocols) /\ <<"TCP">> \in Seq(Protocols) /\ <<"UDP">> \in Seq(Protocols)
      /\ <<"HTTP">> \in Seq(Protocols) /\ <<"TCP", "HTTP">> \in Seq(Protocols)
  BY DEF Protocols
<1> QED
  BY <1>1, <1>2, <1>3

LEMMA EditedDoc ==
    ASSUME NEW k \in Kinds, NEW v \in Versions, NEW d, IsDoc(k, v, d),
           NEW f \in Fields(k, v), NEW x \in Contents(f)
    PROVE  /\ IsDoc(k, v, [d EXCEPT ![f] = x])
           /\ \A g \in Fields(k, v) : [d EXCEPT ![f] = x][g] = IF g = f THEN x ELSE d[g]
<1>1. [d EXCEPT ![f] = x] = [g \in Fields(k, v) |-> IF g = f THEN x ELSE d[g]]
  BY DEF IsDoc
<1>2. ASSUME k \in ClusterKinds PROVE [d EXCEPT ![f] = x]["Listeners"] \in Seq(Protocols)
  <2>1. "Listeners" \in Fields(k, v)
    BY <1>2, CommonFields DEF Versions
  <2> QED
    BY <1>1, <1>2, <2>1, ListenerContents DEF IsDoc
<1>3. [d EXCEPT ![f] = x] = [g \in Fields(k, v) |-> [d EXCEPT ![f] = x][g]]
  BY <1>1
<1> QED
  BY <1>1, <1>2, <1>3 DEF IsDoc

LEMMA SpecAndStatus ==
    ASSUME NEW k \in Kinds, NEW v \in Versions
    PROVE  /\ SpecFields(k, v) \subseteq Fields(k, v)
           /\ StatusFields(k, v) \subseteq Fields(k, v)
BY DEF Fields

LEMMA FullDoc ==
    ASSUME NEW k \in Kinds, NEW v \in Versions
    PROVE  IsDoc(k, v, Full(k, v))
<1>1. k \in ClusterKinds => "Listeners" \in Fields(k, v)
  BY CommonFields DEF Versions
<1>2. Sample("Listeners") \in Seq(Protocols)
  <2>1. Sample("Listeners") \in Contents("Listeners")
    BY Zenon DEF Contents
  <2> QED
    BY <2>1, ListenerContents
<1> QED
  BY <1>1, <1>2 DEF Full, IsDoc

LEMMA DocumentsAreDocs ==
    ASSUME NEW k \in Kinds, NEW v \in Versions, NEW d \in Documents(k, v)
    PROVE  IsDoc(k, v, d)
<1>1. PICK f \in Edits \intersect SpecFields(k, v) :
        d \in {[Full(k, v) EXCEPT ![f] = x] : x \in Contents(f)}
  BY DEF Documents
<1>2. PICK x \in Contents(f) : d = [Full(k, v) EXCEPT ![f] = x]
  BY <1>1
<1> QED
  BY <1>2, FullDoc, EditedDoc, SpecAndStatus

-----------------------------------------------------------------------------
(* The invariant: what is stored is a document of its version that agrees   *)
(* with what was asked for on the fields both versions have.                *)

StoredInv(o) ==
    /\ wanted[o] = [f \in Fields(kind[o], "v1alpha2") |-> wanted[o][f]]
    /\ Present(o) =>
         /\ etcd[o].ver \in Versions
         /\ IsDoc(kind[o], etcd[o].ver, etcd[o].doc)
         /\ etcd[o].ver = "v1alpha2" => Schema(kind[o], "v1alpha2", etcd[o].doc)
         /\ \A f \in Fields(kind[o], "v1alpha1") : etcd[o].doc[f] = wanted[o][f]

DocInv ==
    /\ kind \in [Objects -> Kinds]
    /\ etcd = [o \in Objects |-> etcd[o]] /\ wanted = [o \in Objects |-> wanted[o]]
    /\ \A o \in Objects : StoredInv(o)

LEMMA AskedFields ==
    ASSUME NEW k \in Kinds, NEW v \in Versions, NEW d, IsDoc(k, v, d)
    PROVE  \A f \in Fields(k, "v1alpha1") : Asked(k, d)[f] = d[f]
BY CommonFields DEF Asked, IsDoc, Versions

LEMMA DocInit == Init => DocInv
<1> SUFFICES ASSUME Init, NEW o \in Objects PROVE StoredInv(o)
  BY DEF Init, DocInv
<1>1. kind[o] \in Kinds
  BY DEF Init
<1>2. wanted[o] = Asked(kind[o], etcd[o].doc)
  BY DEF Init
<1>3. wanted[o] = [f \in Fields(kind[o], "v1alpha2") |-> wanted[o][f]]
  BY <1>2 DEF Asked
<1>4. ASSUME Present(o)
      PROVE  etcd[o].ver = "v1alpha1" /\ etcd[o].doc \in Documents(kind[o], "v1alpha1")
  BY <1>4 DEF Init, Legacy
<1>5. ASSUME Present(o)
      PROVE  /\ IsDoc(kind[o], "v1alpha1", etcd[o].doc)
             /\ \A f \in Fields(kind[o], "v1alpha1") : etcd[o].doc[f] = wanted[o][f]
  <2>1. "v1alpha1" \in Versions
    BY DEF Versions
  <2>2. IsDoc(kind[o], "v1alpha1", etcd[o].doc)
    BY <1>1, <1>4, <1>5, <2>1, DocumentsAreDocs
  <2> QED
    BY <1>1, <1>2, <2>1, <2>2, AskedFields
<1> QED
  BY <1>3, <1>4, <1>5 DEF StoredInv, Versions

\* A write that is stored, whatever the request was.
LEMMA StoreKeeps ==
    ASSUME DocInv, UNCHANGED kind, NEW o \in Objects, NEW v \in Versions, NEW d, NEW w,
           IsDoc(kind[o], v, d), Schema(kind[o], v, d), Store(o, v, d),
           wanted' = [wanted EXCEPT ![o] = w],
           w = [f \in Fields(kind[o], "v1alpha2") |-> w[f]],
           \A f \in Fields(kind[o], "v1alpha1") : d[f] = w[f]
    PROVE  DocInv'
<1>1. kind[o] \in Kinds /\ kind' = kind
  BY DEF DocInv
<1>2. PICK e : e = Converted(kind[o], v, "v1alpha2", d)
  OBVIOUS
<1>3. Converts(kind[o], v, "v1alpha2", d)
  BY DEF Store, StorageVersion
<1>4. etcd' = [etcd EXCEPT ![o] = [ver |-> "v1alpha2", doc |-> e]]
  BY <1>2 DEF Store, StorageVersion
<1>5. /\ IsDoc(kind[o], "v1alpha2", e) /\ Schema(kind[o], "v1alpha2", e)
      /\ \A f \in Fields(kind[o], "v1alpha1") : e[f] = d[f]
  BY <1>1, <1>2, <1>3, ConvertedDoc, StoredSchema DEF Versions
<1>6. etcd'[o].ver = "v1alpha2" /\ etcd'[o].doc = e /\ wanted'[o] = w
  BY <1>4 DEF DocInv
<1>7. StoredInv(o)'
  BY <1>1, <1>5, <1>6 DEF StoredInv, Versions
<1>8. ASSUME NEW q \in Objects, q # o PROVE StoredInv(q)'
  <2>1. etcd'[q] = etcd[q] /\ wanted'[q] = wanted[q] /\ StoredInv(q)
    BY <1>4, <1>8 DEF DocInv
  <2> QED
    BY <1>1, <2>1 DEF StoredInv, Present
<1>9. /\ etcd' = [q \in Objects |-> etcd'[q]] /\ wanted' = [q \in Objects |-> wanted'[q]]
  BY <1>4 DEF DocInv
<1> QED
  BY <1>1, <1>7, <1>8, <1>9 DEF DocInv

\* What a client reads is a document of its version with the fields asked for.
LEMMA ReadDoc ==
    ASSUME DocInv, NEW o \in Objects, NEW v \in Versions, Present(o), Readable(o, v)
    PROVE  /\ IsDoc(kind[o], v, Read(o, v))
           /\ \A f \in Fields(kind[o], "v1alpha1") : Read(o, v)[f] = wanted[o][f]
<1>1. StoredInv(o) /\ kind[o] \in Kinds
  BY DEF DocInv
<1> QED
  BY <1>1, ConvertedDoc DEF StoredInv, Read, Readable

\* A request that changes one field.
LEMMA EditKeeps ==
    ASSUME DocInv, UNCHANGED kind, NEW o \in Objects, NEW v \in Versions,
           NEW f \in Fields(kind[o], v), NEW x \in Contents(f), Present(o), Readable(o, v),
           Schema(kind[o], v, [Read(o, v) EXCEPT ![f] = x]),
           Store(o, v, [Read(o, v) EXCEPT ![f] = x]),
           wanted' = [wanted EXCEPT ![o][f] = x]
    PROVE  DocInv'
<1>1. kind[o] \in Kinds
  BY DEF DocInv
<1>2. PICK d : d = [Read(o, v) EXCEPT ![f] = x]
  OBVIOUS
<1>3. IsDoc(kind[o], v, d)
  BY <1>1, <1>2, ReadDoc, EditedDoc
<1>4. \A g \in Fields(kind[o], v) : d[g] = IF g = f THEN x ELSE Read(o, v)[g]
  BY <1>1, <1>2, ReadDoc, EditedDoc
<1>5. Fields(kind[o], "v1alpha1") \subseteq Fields(kind[o], v)
  BY <1>1, CommonFields DEF Versions
<1>6. PICK w : w = [wanted[o] EXCEPT ![f] = x]
  OBVIOUS
<1>7. wanted[o] = [g \in Fields(kind[o], "v1alpha2") |-> wanted[o][g]]
  BY DEF DocInv, StoredInv
<1>8. /\ w = [g \in Fields(kind[o], "v1alpha2") |-> IF g = f THEN x ELSE wanted[o][g]]
  BY <1>6, <1>7
<1>9. \A g \in Fields(kind[o], "v1alpha1") : d[g] = w[g]
  BY <1>1, <1>4, <1>5, <1>8, ReadDoc, CommonFields
<1>10. w = [g \in Fields(kind[o], "v1alpha2") |-> w[g]]
  BY <1>8
<1>11. wanted' = [wanted EXCEPT ![o] = w]
  BY <1>6 DEF DocInv
<1>12. Schema(kind[o], v, d) /\ Store(o, v, d)
  BY <1>2
<1> QED
  BY <1>3, <1>9, <1>10, <1>11, <1>12, StoreKeeps

LEMMA CreateKeeps ==
    ASSUME DocInv, NEW o \in Objects, NEW v \in Versions, NEW d \in Documents(kind[o], v),
           Create(o, v, d)
    PROVE  DocInv'
<1>1. kind[o] \in Kinds /\ UNCHANGED kind
  BY DEF DocInv, Create
<1>2. IsDoc(kind[o], v, d)
  BY <1>1, DocumentsAreDocs
<1>3. PICK new : new = [f \in DOMAIN d |->
                          IF f \in StatusFields(kind[o], v) THEN Zero(f) ELSE d[f]]
  OBVIOUS
<1>4. new = [f \in Fields(kind[o], v) |->
               IF f \in StatusFields(kind[o], v) THEN Zero(f) ELSE d[f]]
  BY <1>2, <1>3 DEF IsDoc
<1>5. IsDoc(kind[o], v, new)
  <2>1. new = [f \in Fields(kind[o], v) |-> new[f]]
    BY <1>4
  <2>2. ASSUME kind[o] \in ClusterKinds PROVE new["Listeners"] \in Seq(Protocols)
    <3>1. "Listeners" \in Fields(kind[o], v)
      BY <1>1, <2>2, CommonFields DEF Versions
    <3>2. Zero("Listeners") \in Contents("Listeners")
      BY Zenon DEF Contents
    <3> QED
      BY <1>2, <1>4, <2>2, <3>1, <3>2, ListenerContents DEF IsDoc
  <2> QED
    BY <2>1, <2>2 DEF IsDoc
<1>6. /\ Schema(kind[o], v, new) /\ Store(o, v, new)
      /\ wanted' = [wanted EXCEPT ![o] = Asked(kind[o], new)]
  BY <1>3 DEF Create, Admits
<1>7. PICK w : w = Asked(kind[o], new)
  OBVIOUS
<1>8. \A f \in Fields(kind[o], "v1alpha1") : new[f] = w[f]
  BY <1>1, <1>5, <1>7, AskedFields
<1>9. w = [f \in Fields(kind[o], "v1alpha2") |-> w[f]]
  BY <1>7 DEF Asked
<1> QED
  BY <1>1, <1>5, <1>6, <1>7, <1>8, <1>9, StoreKeeps

LEMMA DeleteKeeps ==
    ASSUME DocInv, NEW o \in Objects, NEW v \in Versions, Delete(o, v)
    PROVE  DocInv'
<1>1. /\ kind' = kind /\ etcd' = [etcd EXCEPT ![o] = Absent]
      /\ wanted' = [wanted EXCEPT ![o] = [f \in DOMAIN @ |-> Zero(f)]]
  BY DEF Delete
<1>2. /\ etcd' = [q \in Objects |-> IF q = o THEN Absent ELSE etcd[q]]
      /\ wanted' = [q \in Objects |-> IF q = o THEN [f \in DOMAIN wanted[o] |-> Zero(f)]
                                      ELSE wanted[q]]
  BY <1>1 DEF DocInv
<1>3. DOMAIN wanted[o] = Fields(kind[o], "v1alpha2")
  BY DEF DocInv, StoredInv
<1>4. StoredInv(o)'
  BY <1>1, <1>2, <1>3 DEF StoredInv, Present
<1>5. ASSUME NEW q \in Objects, q # o PROVE StoredInv(q)'
  <2>1. etcd'[q] = etcd[q] /\ wanted'[q] = wanted[q] /\ StoredInv(q)
    BY <1>2, <1>5 DEF DocInv
  <2> QED
    BY <1>1, <2>1 DEF StoredInv, Present
<1>6. /\ etcd' = [q \in Objects |-> etcd'[q]] /\ wanted' = [q \in Objects |-> wanted'[q]]
  BY <1>2
<1> QED
  BY <1>1, <1>4, <1>5, <1>6 DEF DocInv

LEMMA DocStep ==
    ASSUME DocInv, [Next]_vars
    PROVE  DocInv'
<1>1. CASE UNCHANGED vars
  BY <1>1 DEF vars, DocInv, StoredInv, Present
<1>2. ASSUME NEW o \in Objects, NEW v \in Versions,
             NEW f \in Edits \intersect SpecFields(kind[o], v), NEW x \in Contents(f),
             Patch(o, v, f, x)
      PROVE  DocInv'
  <2>1. kind[o] \in Kinds
    BY DEF DocInv
  <2>2. /\ UNCHANGED kind /\ Present(o) /\ Readable(o, v)
        /\ Schema(kind[o], v, [Read(o, v) EXCEPT ![f] = x])
        /\ Store(o, v, [Read(o, v) EXCEPT ![f] = x])
        /\ wanted' = [wanted EXCEPT ![o][f] = x]
    BY <1>2 DEF Patch, Admits
  <2> QED
    BY <2>1, <2>2, SpecAndStatus, EditKeeps
<1>3. ASSUME NEW o \in Objects,
             NEW f \in Edits \intersect StatusFields(kind[o], "v1alpha2"),
             NEW x \in Contents(f), PatchStatus(o, f, x)
      PROVE  DocInv'
  <2>1. kind[o] \in Kinds /\ "v1alpha2" \in Versions
    BY DEF DocInv, Versions
  <2>2. /\ UNCHANGED kind /\ Present(o) /\ Readable(o, "v1alpha2")
        /\ Schema(kind[o], "v1alpha2", [Read(o, "v1alpha2") EXCEPT ![f] = x])
        /\ Store(o, "v1alpha2", [Read(o, "v1alpha2") EXCEPT ![f] = x])
        /\ wanted' = [wanted EXCEPT ![o][f] = x]
    BY <1>3 DEF PatchStatus, ListServes
  <2> QED
    BY <2>1, <2>2, SpecAndStatus, EditKeeps
<1> QED
  BY <1>1, <1>2, <1>3, CreateKeeps, DeleteKeeps DEF Next

LEMMA DocCorrect == Spec => []DocInv
BY DocInit, DocStep, PTL DEF Spec

-----------------------------------------------------------------------------
(* The results.                                                             *)

\* Every stored document has the fields of its version and, in v1alpha2, only the
\* protocols of the schema, whichever version it was written in.
THEOREM TypeCorrect == Spec => []TypeOK
<1>1. DocInv => TypeOK
  BY DEF DocInv, StoredInv, IsDoc, TypeOK
<1> QED
  BY <1>1, DocCorrect, PTL

\* No conversion on the way in or out loses a field that both versions have.
THEOREM ConversionKeepsFields == Spec => []CommonFieldsKept
<1>1. DocInv => CommonFieldsKept
  BY ReadDoc DEF CommonFieldsKept
<1> QED
  BY <1>1, DocCorrect, PTL

\* The two webhooks agree on every document and its conversion, so neither can make
\* an object unwritable that the other one admits.
THEOREM WebhooksConsistent == Spec => []WebhooksAgree
<1>1. ASSUME NEW d
      PROVE  /\ ValidateCluster2(d) <=> ValidateCluster1(ConvertFrom("OVHCluster", d))
             /\ ValidateMachine2(d) <=> ValidateMachine1(ConvertFrom("OVHMachine", d))
  <2>1. {"ServiceName", "Region", "IdentitySecret", "SubnetID", "NetworkConfig"}
          \subseteq Fields("OVHCluster", "v1alpha1")
    BY FieldsOf DEF ClusterSpec1
  <2>2. {"FlavorName", "ImageName", "RootDiskSize", "AdditionalVolumes"}
          \subseteq Fields("OVHMachine", "v1alpha1")
    BY FieldsOf DEF MachineSpec1
  <2>3. "OVHCluster" \in Kinds /\ "OVHMachine" \in Kinds
    BY DEF Kinds
  <2>4. \A f \in {"ServiceName", "Region", "IdentitySecret", "SubnetID", "NetworkConfig"} :
          ConvertFrom("OVHCluster", d)[f] = d[f]
    BY <2>1, <2>3, FromRestricts
  <2>5. \A f \in {"FlavorName", "ImageName", "RootDiskSize", "AdditionalVolumes"} :
          ConvertFrom("OVHMachine", d)[f] = d[f]
    BY <2>2, <2>3, FromRestricts
  <2> QED
    BY <2>4, <2>5 DEF ValidateCluster1, ValidateCluster2, ValidateMachine1, ValidateMachine2
<1>2. ASSUME NEW k \in Validated, NEW d
      PROVE  Validate(k, "v1alpha2", d) <=> Validate(k, "v1alpha1", ConvertFrom(k, d))
  <2>1. CASE k = "OVHCluster"
    BY <1>1, <2>1 DEF Validate
  <2>2. CASE k = "OVHMachine"
    BY <1>1, <2>2 DEF Validate
  <2> QED
    BY <2>1, <2>2 DEF Validated
<1>3. WebhooksAgree
  BY <1>2 DEF WebhooksAgree
<1> QED
  BY <1>3, PTL

\* A list the controllers can read stays readable: whatever is written goes through
\* ConvertTo before it is stored.
THEOREM ListsStayServed == Spec => ListStaysServed
<1>1. ASSUME NEW o \in Objects, NEW v, NEW d, DocInv, Store(o, v, d), UNCHANGED kind,
             NEW k \in Kinds, ListServes(k, "v1alpha2")
      PROVE  ListServes(k, "v1alpha2")'
  <2>1. \A q \in Objects : IF q = o THEN etcd'[q].ver = "v1alpha2" ELSE etcd'[q] = etcd[q]
    BY <1>1 DEF Store, StorageVersion, DocInv
  <2> QED
    BY <1>1, <2>1 DEF ListServes, Readable, Present, Converts
<1>2. ASSUME NEW o \in Objects, NEW v, DocInv, Delete(o, v),
             NEW k \in Kinds, ListServes(k, "v1alpha2")
      PROVE  ListServes(k, "v1alpha2")'
  <2>1. kind' = kind /\ \A q \in Objects : etcd'[q] = IF q = o THEN Absent ELSE etcd[q]
    BY <1>2 DEF Delete, DocInv
  <2> QED
    BY <1>2, <2>1 DEF ListServes, Readable, Present, Converts
<1>3. DocInv /\ Next => \A k \in Kinds : ListServes(k, "v1alpha2") => ListServes(k, "v1alpha2")'
  BY <1>1, <1>2 DEF Next, Create, Patch, PatchStatus
<1>4. UNCHANGED vars => \A k \in Kinds : ListServes(k, "v1alpha2") => ListServes(k, "v1alpha2")'
  BY DEF vars, ListServes, Readable, Present
<1>5. DocInv /\ [Next]_vars
        => [\A k \in Kinds : ListServes(k, "v1alpha2") => ListServes(k, "v1alpha2")']_vars
  BY <1>3, <1>4
<1> QED
  BY <1>5, DocCorrect, PTL DEF Spec, ListStaysServed

=============================================================================
