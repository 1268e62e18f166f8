\* Clients of both API versions, two objects of any kinds.
SPECIFICATION Spec
CONSTANTS
    Objects = {o1, o2}
    Edits = {"Listeners", "NetworkConfig", "ObjectMeta", "AdditionalVolumes", "status.LoadBalancerID"}
INVARIANTS
    TypeOK
    CommonFieldsKept
    WebhooksAgree
PROPERTIES
    ListStaysServed
SYMMETRY ObjectSymmetry
