\* Exceptions and kills at every step of a stage and of the guided platform.
CONSTANTS
  Faults = {"exception", "kill"}
  MaxBuilds = 2
SPECIFICATION FairSpec
INVARIANTS TypeOK OneTerraform CompleteTrue PlatformSafe
PROPERTIES AuthorityReturned
