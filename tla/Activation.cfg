\* Two activations; PATCHes that come late, one maintenance.
CONSTANTS
  a1 = a1
  a2 = a2
  Activator <- Activators
  Faults = {"exit", "kill", "late", "maintenance"}
SYMMETRY Interchangeable
SPECIFICATION Spec
CHECK_DEADLOCK FALSE
INVARIANTS TypeOK RolledBack
PROPERTIES Undisturbed
