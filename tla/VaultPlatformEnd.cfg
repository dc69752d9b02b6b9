\* Nothing is cut short.
CONSTANTS
  Faults = {}
  MaxBuilds = 2
SPECIFICATION FairSpec
PROPERTY ContinuationEnds
