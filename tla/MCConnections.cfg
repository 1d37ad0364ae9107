SPECIFICATION Spec
CONSTANTS
  h1 = h1
  h2 = h2
  w1 = w1
  w2 = w2
  Hosts = {h1, h2}
  Workers = {w1, w2}
  None = None
  Offline = Offline
  Unset = Unset
  MaxTargets = 1
  MaxRefs = 2
  Faults = {"network", "store", "delete", "rows", "alias", "crash"}
SYMMETRY MCSymmetry
CONSTRAINT MCConstraint
INVARIANTS ActiveExists PasswordsOfTheRows StatusOfThisHost WindowSettles
CHECK_DEADLOCK FALSE
