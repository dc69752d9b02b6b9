\* Two ceremonies, a collection, one late request that is no DELETE.
SPECIFICATION Spec
CONSTANTS
  Ceremony = {c1, c2}
  Collector = {k}
  None = None
  Late = {"create", "unlock", "scale_down", "write", "revoke"}
  MaxLate = 1
SYMMETRY Interchangeable
CHECK_DEADLOCK FALSE
INVARIANTS TypeOK ExclusiveControl CutIsolated
PROPERTIES RootRevokedFirst ReleaseSafe ImplementsCustody
