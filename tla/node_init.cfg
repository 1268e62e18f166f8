\* A Node that several parties write to, with failing calls and replacements.
SPECIFICATION Spec
CONSTANTS
    OtherTaints <- TwoTaints
    Registers = {"bare", "own", "foreign"}
    Ccm = TRUE
    MaxInstances = 2
    MaxNodes = 3
    MaxFaults = 2
INVARIANTS
    TypeOK
PROPERTIES
    FreedWithID
    OthersTaintsStay
    EventuallyInitialised
