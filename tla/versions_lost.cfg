\* Violation: a write in v1alpha1 erases the fields that only v1alpha2 has.
SPECIFICATION Spec
CONSTANTS
    Objects = {o1}
    Edits = {"ObjectMeta", "SecurityGroups", "SecurityGroupNames"}
INVARIANTS
    AllFieldsKept
