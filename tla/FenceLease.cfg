\* Two Pods, one take-over and one release within the bounds.
CONSTANTS
  p1 = p1
  p2 = p2
  Pod <- Pods
  NoPod = NoPod
  Durations = {5, 6}
  PollInterval = 1
  RequestTimeout = 1
  SafetyMargin = 1
  MaxSkew = 1
  ReleaseGrace = 1
  Truncation = 1
  MaxTime = 7
  MaxVersion = 3
  MaxLate = 1
SYMMETRY Symmetry
SPECIFICATION Spec
CHECK_DEADLOCK FALSE
INVARIANTS TypeOK MutualExclusion AuthorityCovered
PROPERTIES OnlyExpiredTaken ImplementsAuthority
