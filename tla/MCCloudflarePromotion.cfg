SPECIFICATION Spec
CONSTANTS
  Process = {p, q}
  Operation = {o1, o2}
  o1 = o1
  o2 = o2
  Binding = {"A", "B"}
  Sets <- MCSets
  None = None
  Changing = {o2}
  MaxVersion = 3
SYMMETRY MCSymmetry
CHECK_DEADLOCK FALSE
INVARIANTS
  RolledBackIsNotDeployed
PROPERTIES
  KeepsOtherBindings
  GivesWayRightly
