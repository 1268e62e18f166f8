----------------------------- MODULE ApiVersions -----------------------------
(***************************************************************************)
(* The two served versions of the provider's objects: the types of         *)
(* api/v1alpha1 and api/v1alpha2, the conversion between them              *)
(* (api/v1alpha1/conversion.go), the validating webhooks of both versions  *)
(* and, around them, the API server, which keeps what it writes in         *)
(* v1alpha2 (the storage version) and what the release before wrote in     *)
(* v1alpha1.  Clients of both versions create, patch and delete; the       *)
(* controllers list and patch the status in v1alpha2.                      *)
(*                                                                         *)
(* A document is a function from the fields of its type to their contents, *)
(* of which only what validation or conversion looks at is told apart.     *)
(***************************************************************************)
EXTENDS Naturals, Sequences

CONSTANTS
    Objects,      \* names of objects
    Edits         \* the fields that clients and controllers change

Kinds    == {"OVHCluster", "OVHMachine", "OVHClusterTemplate", "OVHMachineTemplate"}
Versions == {"v1alpha1", "v1alpha2"}

VARIABLES
    kind,         \* [Objects -> Kinds], which does not change
    etcd,         \* [Objects -> version and document, or Absent]
    wanted        \* history: per object and field, the last content written

vars == <<kind, etcd, wanted>>

-----------------------------------------------------------------------------
(* The types.  A status field has the prefix "status."; SubnetID without it *)
(* is the one of LoadBalancerConfig.                                        *)

ClusterSpec1 ==
    {"ObjectMeta", "ServiceName", "Region", "IdentitySecret", "ControlPlaneEndpoint",
     "SSHKeyName", "SubnetID", "FlavorName", "FloatingNetworkID", "Listeners",
     "NetworkConfig"}
ClusterStatus1 ==
    {"status.Ready", "status.FailureReason", "status.FailureMessage",
     "status.Conditions", "status.NetworkID", "status.SubnetID",
     "status.LoadBalancerID", "status.ListenerID", "status.PoolID",
     "status.FloatingIPID", "status.GatewayID", "status.GatewayExposed",
     "status.RegisterListenerID", "status.RegisterPoolID"}
MachineSpec1 ==
    {"ObjectMeta", "ProviderID", "FlavorName", "ImageName", "SSHKeyName",
     "RootDiskSize", "AdditionalVolumes", "FailureDomain"}
MachineStatus1 ==
    {"status.Ready", "status.Conditions", "status.FailureReason",
     "status.FailureMessage", "status.Addresses", "status.Initialization",
     "status.InstanceID", "status.VolumeIDs", "status.LBPoolMemberID",
     "status.RegisterPoolMemberID"}

ClusterSpec2 ==
    ClusterSpec1 \union
    {"ExistingLoadBalancerID", "ExistingFloatingIPID", "FailureDomains",
     "SecurityGroups", "DefaultTags", "DNSConfig"}
ClusterStatus2 ==
    ClusterStatus1 \union
    {"status.FailureDomains", "status.SecurityGroupIDs", "status.DNSRecordID"}
MachineSpec2 ==
    MachineSpec1 \union
    {"SecurityGroupNames", "Tags", "BootstrapFormat", "ExistingInstanceID"}
MachineStatus2 == MachineStatus1

\* A template's metadata and the one of what it makes are one field.
SpecFields(k, v) ==
    IF k \in {"OVHCluster", "OVHClusterTemplate"}
      THEN IF v = "v1alpha1" THEN ClusterSpec1 ELSE ClusterSpec2
      ELSE IF v = "v1alpha1" THEN MachineSpec1 ELSE MachineSpec2
StatusFields(k, v) ==
    CASE k = "OVHCluster" -> IF v = "v1alpha1" THEN ClusterStatus1 ELSE ClusterStatus2
      [] k = "OVHMachine" -> IF v = "v1alpha1" THEN MachineStatus1 ELSE MachineStatus2
      [] OTHER -> {}
Fields(k, v) == SpecFields(k, v) \union StatusFields(k, v)

\* Contents.  Listeners: their protocols.  NetworkConfig: "hollow" has neither a
\* network id nor a CIDR, "badGateway" a gateway that is no address.
\* ObjectMeta: "held" with a finalizer.
Zero(f) == IF f = "Listeners" THEN << >> ELSE ""
Sample(f) == CASE f = "Listeners" -> <<"TCP">>
               [] f = "NetworkConfig" -> "network"
               [] f = "ObjectMeta" -> "held"
               [] OTHER -> "set"
Contents(f) ==
    {Zero(f), Sample(f)} \union
    CASE f = "Listeners" -> {<<"UDP">>, <<"HTTP">>, <<"TCP", "HTTP">>}
      [] f = "NetworkConfig" -> {"hollow", "badGateway"}
      [] f = "RootDiskSize" -> {"negative"}
      [] f = "AdditionalVolumes" -> {"nameless"}
      [] OTHER -> {}
Full(k, v) == [f \in Fields(k, v) |-> Sample(f)]

-----------------------------------------------------------------------------
(* Conversion.  The sets name the fields each function assigns.             *)

ClusterSpecTo ==
    {"ObjectMeta", "ServiceName", "Region", "IdentitySecret", "ControlPlaneEndpoint",
     "SSHKeyName", "SubnetID", "FlavorName", "FloatingNetworkID", "Listeners",
     "NetworkConfig"}
ClusterStatusTo ==
    {"status.Ready", "status.FailureReason", "status.FailureMessage",
     "status.Conditions", "status.NetworkID", "status.SubnetID",
     "status.LoadBalancerID", "status.ListenerID", "status.PoolID",
     "status.FloatingIPID", "status.GatewayID", "status.GatewayExposed",
     "status.RegisterListenerID", "status.RegisterPoolID"}
ClusterSpecFrom ==
    {"ObjectMeta", "ServiceName", "Region", "IdentitySecret", "ControlPlaneEndpoint",
     "SSHKeyName", "SubnetID", "FlavorName", "FloatingNetworkID", "Listeners",
     "NetworkConfig"}

\* Mutant of ClusterStatusFrom: a field that was added later is not converted.
ClusterStatusFromOld ==
    ClusterStatusTo \ {"status.RegisterPoolID"}

ClusterStatusFrom ==
    {"status.Ready", "status.FailureReason", "status.FailureMessage",
     "status.Conditions", "status.NetworkID", "status.SubnetID",
     "status.LoadBalancerID", "status.ListenerID", "status.PoolID",
     "status.FloatingIPID", "status.GatewayID", "status.GatewayExposed",
     "status.RegisterListenerID", "status.RegisterPoolID"}
MachineSpecTo ==
    {"ObjectMeta", "ProviderID", "FlavorName", "ImageName", "SSHKeyName",
     "RootDiskSize", "FailureDomain", "AdditionalVolumes"}
MachineSpecFrom ==
    {"ObjectMeta", "ProviderID", "FlavorName", "ImageName", "SSHKeyName",
     "RootDiskSize", "FailureDomain", "AdditionalVolumes"}
MachineStatusTo ==
    {"status.Ready", "status.Conditions", "status.FailureReason",
     "status.FailureMessage", "status.Addresses", "status.Initialization",
     "status.InstanceID", "status.VolumeIDs", "status.LBPoolMemberID",
     "status.RegisterPoolMemberID"}
MachineStatusFrom ==
    {"status.Ready", "status.Conditions", "status.FailureReason",
     "status.FailureMessage", "status.Addresses", "status.Initialization",
     "status.InstanceID", "status.VolumeIDs", "status.LBPoolMemberID",
     "status.RegisterPoolMemberID"}

\* Mutant of ProtocolToV1Alpha2: HTTP goes through.
ProtocolUnchecked == [p \in {"TCP", "UDP", "SCTP", "HTTP"} |-> p]

\* convertProtocolToV1Alpha2; other protocols are an error.
ProtocolToV1Alpha2 == [p \in {"TCP", "UDP", "SCTP"} |-> p]

Copy(d, fields, assigned) ==
    [f \in fields |-> IF f \in assigned THEN d[f] ELSE Zero(f)]

\* ConvertTo of the cluster kinds fails on the first listener with another
\* protocol; what it assigns to Listeners goes through the protocol's conversion.
ConvertsTo(k, d) ==
    k \in {"OVHCluster", "OVHClusterTemplate"} =>
        \A i \in DOMAIN d["Listeners"] : d["Listeners"][i] \in DOMAIN ProtocolToV1Alpha2
ClusterConvertTo(d) ==
    [Copy(d, ClusterSpec2 \union ClusterStatus2, ClusterSpecTo \union ClusterStatusTo)
       EXCEPT !["Listeners"] = [i \in DOMAIN @ |-> ProtocolToV1Alpha2[@[i]]]]
ClusterTemplateConvertTo(d) ==
    [Copy(d, ClusterSpec2, ClusterSpecTo)
       EXCEPT !["Listeners"] = [i \in DOMAIN @ |-> ProtocolToV1Alpha2[@[i]]]]
MachineConvertTo(d) ==
    Copy(d, MachineSpec2 \union MachineStatus2, MachineSpecTo \union MachineStatusTo)
MachineTemplateConvertTo(d) == Copy(d, MachineSpec2, MachineSpecTo)

\* ConvertFrom does not fail.
ClusterConvertFrom(d) ==
    Copy(d, ClusterSpec1 \union ClusterStatus1, ClusterSpecFrom \union ClusterStatusFrom)
ClusterTemplateConvertFrom(d) == Copy(d, ClusterSpec1, ClusterSpecFrom)
MachineConvertFrom(d) ==
    Copy(d, MachineSpec1 \union MachineStatus1, MachineSpecFrom \union MachineStatusFrom)
MachineTemplateConvertFrom(d) == Copy(d, MachineSpec1, MachineSpecFrom)

ConvertTo(k, d) ==
    CASE k = "OVHCluster" -> ClusterConvertTo(d)
      [] k = "OVHClusterTemplate" -> ClusterTemplateConvertTo(d)
      [] k = "OVHMachine" -> MachineConvertTo(d)
      [] k = "OVHMachineTemplate" -> MachineTemplateConvertTo(d)
ConvertFrom(k, d) ==
    CASE k = "OVHCluster" -> ClusterConvertFrom(d)
      [] k = "OVHClusterTemplate" -> ClusterTemplateConvertFrom(d)
      [] k = "OVHMachine" -> MachineConvertFrom(d)
      [] k = "OVHMachineTemplate" -> MachineTemplateConvertFrom(d)

\* A document can be had in another version, and is then ...
Converts(k, from, to, d) == from = "v1alpha1" /\ to = "v1alpha2" => ConvertsTo(k, d)
Converted(k, from, to, d) ==
    IF from = to THEN d
    ELSE IF to = "v1alpha2" THEN ConvertTo(k, d) ELSE ConvertFrom(k, d)

-----------------------------------------------------------------------------
(* Admission: the enum of the CRD's schema, and the validating webhooks,    *)
(* which exist for two of the kinds.                                        *)

Validated == {"OVHCluster", "OVHMachine"}

ProtocolEnum == [v1alpha1 |-> {"TCP", "HTTP"}, v1alpha2 |-> {"TCP", "UDP", "SCTP"}]
Schema(k, v, d) ==
    k \in {"OVHCluster", "OVHClusterTemplate"} =>
        \A i \in DOMAIN d["Listeners"] : d["Listeners"][i] \in ProtocolEnum[v]

\* Mutant of ValidateCluster1: the gateway is checked in the other version only.
ValidateCluster1NoGateway(d) ==
    /\ \A f \in {"ServiceName", "Region", "IdentitySecret"} : d[f] # ""
    /\ d["SubnetID"] # "" \/ d["NetworkConfig"] # ""
    /\ d["NetworkConfig"] # "hollow"

ValidateCluster1(d) ==
    /\ \A f \in {"ServiceName", "Region", "IdentitySecret"} : d[f] # ""
    /\ d["SubnetID"] # "" \/ d["NetworkConfig"] # ""
    /\ d["NetworkConfig"] \notin {"hollow", "badGateway"}
ValidateCluster2(d) ==
    /\ \A f \in {"ServiceName", "Region", "IdentitySecret"} : d[f] # ""
    /\ d["SubnetID"] # "" \/ d["NetworkConfig"] # ""
    /\ d["NetworkConfig"] \notin {"hollow", "badGateway"}
ValidateMachine1(d) ==
    /\ d["FlavorName"] # "" /\ d["ImageName"] # ""
    /\ d["RootDiskSize"] # "negative" /\ d["AdditionalVolumes"] # "nameless"
ValidateMachine2(d) ==
    /\ d["FlavorName"] # "" /\ d["ImageName"] # ""
    /\ d["RootDiskSize"] # "negative" /\ d["AdditionalVolumes"] # "nameless"

Validate(k, v, d) ==
    CASE k = "OVHCluster" -> IF v = "v1alpha1" THEN ValidateCluster1(d) ELSE ValidateCluster2(d)
      [] k = "OVHMachine" -> IF v = "v1alpha1" THEN ValidateMachine1(d) ELSE ValidateMachine2(d)

\* The webhooks are registered for one version each and have the default
\* matchPolicy, Equivalent: each gets every request, converted to its version.
Admits(k, v, d) ==
    /\ Schema(k, v, d)
    /\ k \in Validated =>
         \A w \in Versions : Converts(k, v, w, d) /\ Validate(k, w, Converted(k, v, w, d))

-----------------------------------------------------------------------------
(* The API server.                                                          *)

Absent == [ver |-> "none", doc |-> << >>]
Present(o) == etcd[o] # Absent

\* Mutant of StorageVersion: the marker is on the older type.
OldStorageVersion(v) == v

\* The version in which a write of version v is stored (+kubebuilder:storageversion).
StorageVersion(v) == "v1alpha2"

Readable(o, v) == Converts(kind[o], etcd[o].ver, v, etcd[o].doc)
Read(o, v) == Converted(kind[o], etcd[o].ver, v, etcd[o].doc)

\* One ConversionReview for a whole list: the webhook calls ConvertTo or ConvertFrom
\* for one item after another, and the error of one fails the review.
ListServes(k, v) == \A o \in Objects : kind[o] = k /\ Present(o) => Readable(o, v)

Store(o, v, d) ==
    /\ Converts(kind[o], v, StorageVersion(v), d)
    /\ etcd' = [etcd EXCEPT ![o] = [ver |-> StorageVersion(v),
                                    doc |-> Converted(kind[o], v, StorageVersion(v), d)]]

\* Documents with everything set but one field.
Documents(k, v) ==
    UNION {{[Full(k, v) EXCEPT ![f] = x] : x \in Contents(f)} :
             f \in Edits \intersect SpecFields(k, v)}

\* Before the upgrade: what the schema of v1alpha1 admitted, with or without the
\* webhooks.
Legacy(k) ==
    {[ver |-> "v1alpha1", doc |-> d] :
       d \in {e \in Documents(k, "v1alpha1") : Schema(k, "v1alpha1", e)}}

\* What a write of the whole document asks for.
Asked(k, d) ==
    [f \in Fields(k, "v1alpha2") |-> IF f \in DOMAIN d THEN d[f] ELSE Zero(f)]

Init ==
    /\ kind \in [Objects -> Kinds]
    /\ etcd \in [Objects -> {Absent} \union UNION {Legacy(k) : k \in Kinds}]
    /\ \A o \in Objects : Present(o) => etcd[o] \in Legacy(kind[o])
    /\ wanted = [o \in Objects |-> Asked(kind[o], etcd[o].doc)]

\* The status of a new object is not taken from the request.
Create(o, v, d) ==
    LET new == [f \in DOMAIN d |-> IF f \in StatusFields(kind[o], v) THEN Zero(f) ELSE d[f]]
    IN /\ ~Present(o) /\ Admits(kind[o], v, new) /\ Store(o, v, new)
       /\ wanted' = [wanted EXCEPT ![o] = Asked(kind[o], new)]
       /\ UNCHANGED kind

\* A patch of one field of the metadata or the spec, or an update that changes no
\* other: read in the client's version, admitted and written back.
Patch(o, v, f, x) ==
    /\ Present(o) /\ Readable(o, v)
    /\ LET d == [Read(o, v) EXCEPT ![f] = x]
       IN Admits(kind[o], v, d) /\ Store(o, v, d)
    /\ wanted' = [wanted EXCEPT ![o][f] = x] /\ UNCHANGED kind

\* The controllers patch the status subresource, which has no webhook, of what
\* their informer has listed.
PatchStatus(o, f, x) ==
    /\ Present(o) /\ ListServes(kind[o], "v1alpha2")
    /\ LET d == [Read(o, "v1alpha2") EXCEPT ![f] = x]
       IN Schema(kind[o], "v1alpha2", d) /\ Store(o, "v1alpha2", d)
    /\ wanted' = [wanted EXCEPT ![o][f] = x] /\ UNCHANGED kind

\* An object without a finalizer goes at once; the deletion of one with a
\* finalizer begins with a patch of its metadata.
Delete(o, v) ==
    /\ Present(o) /\ Readable(o, v) /\ etcd[o].doc["ObjectMeta"] = ""
    /\ etcd' = [etcd EXCEPT ![o] = Absent]
    /\ wanted' = [wanted EXCEPT ![o] = [f \in DOMAIN @ |-> Zero(f)]]
    /\ UNCHANGED kind

Next ==
    \E o \in Objects :
        \/ \E v \in Versions :
             \/ \E d \in Documents(kind[o], v) : Create(o, v, d)
             \/ \E f \in Edits \intersect SpecFields(kind[o], v) :
                  \E x \in Contents(f) : Patch(o, v, f, x)
             \/ Delete(o, v)
        \/ \E f \in Edits \intersect StatusFields(kind[o], "v1alpha2") :
             \E x \in Contents(f) : PatchStatus(o, f, x)

Spec == Init /\ [][Next]_vars

-----------------------------------------------------------------------------
(* What conversion and admission have to get right.                         *)

\* A stored document has the fields of its version, and a v1alpha2 one keeps the
\* enum of its schema: convertProtocolToV1Alpha2 lets no HTTP through.
TypeOK ==
    /\ kind \in [Objects -> Kinds]
    /\ \A o \in Objects :
         Present(o) =>
             /\ etcd[o].ver \in Versions
             /\ DOMAIN etcd[o].doc = Fields(kind[o], etcd[o].ver)
             /\ etcd[o].ver = "v1alpha2" => Schema(kind[o], "v1alpha2", etcd[o].doc)

\* Neither reading nor writing in either version loses what was last written to a
\* field that both versions have: ConvertTo and ConvertFrom copy every one.
CommonFieldsKept ==
    \A o \in Objects, v \in Versions :
        Present(o) /\ Readable(o, v) =>
            \A f \in Fields(kind[o], "v1alpha1") : Read(o, v)[f] = wanted[o][f]

\* No field, of either version, loses its content to a write of another field.
AllFieldsKept ==
    \A o \in Objects :
        Present(o) /\ Readable(o, "v1alpha2") =>
            \A f \in Fields(kind[o], "v1alpha2") : Read(o, "v1alpha2")[f] = wanted[o][f]

\* The rules, which are written twice, and the conversion between them agree: of
\* whatever a client makes of an object, the webhook of one version (validateOVHCluster,
\* validateOVHMachine) thinks what the webhook of the other thinks of its conversion.
\* Otherwise nobody could write what one of the two refuses, in either version.
WebhooksAgree ==
    \A o \in Objects :
        kind[o] \in Validated /\ Present(o) /\ Readable(o, "v1alpha2") =>
            \A f \in Edits \intersect SpecFields(kind[o], "v1alpha2") :
            \A x \in Contents(f) :
                LET d == [Read(o, "v1alpha2") EXCEPT ![f] = x]
                IN Validate(kind[o], "v1alpha2", d)
                     <=> Validate(kind[o], "v1alpha1", ConvertFrom(kind[o], d))

\* Once the controllers can list a kind, nobody can store an object, in whatever
\* version, that makes the whole list fail (the error in OVHCluster.ConvertTo).
ListStaysServed ==
    [][\A k \in Kinds :
         ListServes(k, "v1alpha2") => ListServes(k, "v1alpha2")']_vars
=============================================================================
