\* An adopted load balancer with a floating IP, a created network that is later replaced in the spec, a security group and a DNS record; failed and lost calls.
SPECIFICATION Spec
CONSTANTS
    l1 = l1  l2 = l2  n1 = n1  n2 = n2  user = user  adopted = adopted
    None = None
    LBs = {l1, l2}
    Nets = {n1, n2, user}
    UserNet = user
    OtherLBs = {}
    ExistingLB = l1
    ExistingFIP = None
    NetConfig = TRUE
    GivenNet = None
    SubnetCIDR = FALSE
    SubnetGiven = TRUE
    FloatingNetwork = TRUE
    SecurityGroups = TRUE
    DNSConfig = TRUE
    MaxRecords = 2
    FaultKinds = {"api", "lost", "edit"}
    MaxFaults = 2
INVARIANTS
    UserNetworkKept
    ReadyHasEndpoint
SYMMETRY FreshSymmetry
CHECK_DEADLOCK FALSE
