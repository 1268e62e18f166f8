\* One control-plane machine: crashes, stale reads, failed and lost calls, failed patches, pauses, build errors, pools that come and go.
SPECIFICATION Spec
CONSTANTS
    m1 = m1  m2 = m2  i1 = i1  i2 = i2  i3 = i3  n1 = n1  n2 = n2
    None = None
    Machines = {m1}
    Instances = {i1, i2, i3}
    Names = {n1, n2}
    ControlPlane = {m1}
    Existing = {}
    InstanceName <- OwnNames
    Adopt <- AdoptNone
    MaxRetries = 1
    FaultKinds = {"crash", "stale", "api", "lost", "patch", "pause", "flap", "error", "pool"}
    MaxFaults = 3
INVARIANTS
    TypeOK
    CreateUnderFinalizer
    NoDuplicateInstance
    UnfinishedIsQueued
PROPERTIES
    TerminationJustified
    SeenInstancesDeleted
    ImplementsContract
SYMMETRY FreshSymmetry
CHECK_DEADLOCK FALSE
