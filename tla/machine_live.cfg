\* Liveness: one control-plane machine, enough instances for every fault.
SPECIFICATION FairSpec
CONSTANTS
    m1 = m1  m2 = m2  i1 = i1  i2 = i2  i3 = i3  n1 = n1  n2 = n2
    None = None
    Machines = {m1}
    Instances = {i1, i2}
    Names = {n1, n2}
    ControlPlane = {m1}
    Existing = {}
    InstanceName <- OwnNames
    Adopt <- AdoptNone
    MaxRetries = 1
    FaultKinds = {"crash", "stale", "api", "lostPost", "patch", "vanish", "pool", "pause"}
    MaxFaults = 1
PROPERTIES
    DeletionCompletes
    Converges
CHECK_DEADLOCK FALSE
