\* Violation: a crash between the POST and the patch leaves an instance behind.
SPECIFICATION Spec
CONSTANTS
    m1 = m1  m2 = m2  i1 = i1  i2 = i2  i3 = i3  n1 = n1  n2 = n2
    None = None
    Machines = {m1}
    Instances = {i1, i2}
    Names = {n1, n2}
    ControlPlane = {}
    Existing = {}
    InstanceName <- OwnNames
    Adopt <- AdoptNone
    MaxRetries = 1
    FaultKinds = {"crash"}
    MaxFaults = 1
INVARIANTS
    NoLeak
CHECK_DEADLOCK FALSE
