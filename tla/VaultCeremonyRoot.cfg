\* Two invocations; commands fail, a revocation too, and nobody is killed.
CONSTANTS
  Ceremony = {i1, i2}
  CeremonyFaults = {"exit", "revoke"}
SPECIFICATION CeremonySpec
INVARIANTS InitialRootRevoked
CHECK_DEADLOCK FALSE
