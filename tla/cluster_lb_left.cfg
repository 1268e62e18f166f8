\* Violation: a load balancer that is PENDING_UPDATE is taken for deleted.
SPECIFICATION Spec
CONSTANTS
    l1 = l1  l2 = l2  n1 = n1  n2 = n2  user = user  adopted = adopted
    None = None
    LBs = {l1}
    Nets = {user}
    UserNet = user
    OtherLBs = {}
    ExistingLB = None
    ExistingFIP = None
    NetConfig = TRUE
    GivenNet = user
    SubnetCIDR = TRUE
    SubnetGiven = FALSE
    FloatingNetwork = FALSE
    SecurityGroups = FALSE
    DNSConfig = FALSE
    MaxRecords = 2
    FaultKinds = {}
    MaxFaults = 0
INVARIANTS
    NothingLeft
CHECK_DEADLOCK FALSE
