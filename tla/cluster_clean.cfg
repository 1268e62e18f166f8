\* Everything but a floating IP is created by the controller; no crash, stale read, failed call or patch.
SPECIFICATION Spec
CONSTANTS
    l1 = l1  l2 = l2  n1 = n1  n2 = n2  user = user  adopted = adopted
    None = None
    LBs = {l1, l2}
    Nets = {n1, n2, user}
    UserNet = user
    OtherLBs = {}
    ExistingLB = None
    ExistingFIP = None
    NetConfig = TRUE
    GivenNet = None
    SubnetCIDR = TRUE
    SubnetGiven = FALSE
    FloatingNetwork = FALSE
    SecurityGroups = TRUE
    DNSConfig = TRUE
    MaxRecords = 2
    FaultKinds = {"vanish", "noVIP"}
    MaxFaults = 2
INVARIANTS
    NothingLeft
    MadeOnce
PROPERTIES
    ImplementsContract
SYMMETRY FreshSymmetry
CHECK_DEADLOCK FALSE
