\* The installation, one more invocation at a time, and one held by hand.
CONSTANTS
  Install = run
  Resumes = {again}
  Ceremony = {run, again, byhand}
  Alone = TRUE
  Faults = {"exit", "kill"}
  CeremonyFaults = {"exit", "kill", "revoke", "cancel", "unanswered"}
  MaxBuilds = 2
SPECIFICATION FairSpec
INVARIANTS TypeOK OnceEach PhaseTrue OneLiveBuild GenerationOwned
PROPERTIES PassedClean SharesKept Finishes
CHECK_DEADLOCK FALSE
