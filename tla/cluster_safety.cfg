\* Network of the user's, load balancers, an adopted floating IP: crashes, stale reads, failed patches, load balancers that vanish.
SPECIFICATION Spec
CONSTANTS
    l1 = l1  l2 = l2  n1 = n1  n2 = n2  user = user  adopted = adopted
    None = None
    LBs = {l1, l2}
    Nets = {user}
    UserNet = user
    OtherLBs = {}
    ExistingLB = None
    ExistingFIP = adopted
    NetConfig = TRUE
    GivenNet = user
    SubnetCIDR = TRUE
    SubnetGiven = FALSE
    FloatingNetwork = FALSE
    SecurityGroups = FALSE
    DNSConfig = FALSE
    MaxRecords = 2
    FaultKinds = {"crash", "stale", "patch", "vanish"}
    MaxFaults = 2
INVARIANTS
    TypeOK
    CreateUnderFinalizer
    NoDuplicateLB
PROPERTIES
    KeepHonoured
SYMMETRY FreshSymmetry
CHECK_DEADLOCK FALSE
