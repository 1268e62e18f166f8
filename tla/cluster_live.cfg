\* Liveness: load balancer and floating IP on a network of the user's; one fault.
SPECIFICATION FairSpec
CONSTANTS
    l1 = l1  l2 = l2  n1 = n1  n2 = n2  user = user  adopted = adopted
    None = None
    LBs = {l1}
    Nets = {user}
    UserNet = user
    OtherLBs = {}
    ExistingLB = None
    ExistingFIP = None
    NetConfig = TRUE
    GivenNet = user
    SubnetCIDR = TRUE
    SubnetGiven = FALSE
    FloatingNetwork = TRUE
    SecurityGroups = FALSE
    DNSConfig = FALSE
    MaxRecords = 2
    FaultKinds = {"crash", "api", "lost", "patch", "noVIP", "hide"}
    MaxFaults = 1
INVARIANTS
    ReadyIsServed
PROPERTIES
    BecomesReady
    DeletionCompletes
    MonitorsAttached
CHECK_DEADLOCK FALSE
