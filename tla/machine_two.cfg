\* Two machines with the same instance name, one of which adopts an instance that exists already; a call fails or somebody deletes an instance.
SPECIFICATION Spec
CONSTANTS
    m1 = m1  m2 = m2  i1 = i1  i2 = i2  i3 = i3  n1 = n1  n2 = n2
    None = None
    Machines = {m1, m2}
    Instances = {i1, i2}
    Names = {n1, n2}
    ControlPlane = {m1}
    Existing = {i1}
    InstanceName <- SameName
    Adopt <- AdoptI1
    MaxRetries = 1
    FaultKinds = {"api", "vanish"}
    MaxFaults = 1
INVARIANTS
    ManagersAlike
    NoLeak
PROPERTIES
    TerminationJustified
    DrainedBeforeTermination
CHECK_DEADLOCK FALSE
