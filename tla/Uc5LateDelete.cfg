\* One ceremony whose DELETE comes late.
SPECIFICATION Spec
CONSTANTS
  Ceremony = {c1}
  Collector = {}
  None = None
  Late = {"delete"}
  MaxLate = 1
CHECK_DEADLOCK FALSE
PROPERTIES DeletionRestored
