SPECIFICATION Spec
CONSTANTS
  w1 = w1  w2 = w2  r1 = r1  r2 = r2  t1 = t1  t2 = t2  k1 = k1  k2 = k2  p1 = p1
  Repos = {r1}
  Targets = {t1}
  SshKeys = {k1, k2}
  Paths = {}
  KeyTarget <- MCKeyTarget
  Workers = {w1, w2}
  None = None
  Jobs = {"bind"}
  PageSize = 3
  MaxDeployKeys = 3
SYMMETRY KeySymmetry
PROPERTIES LiveBindingNotReplaced
CHECK_DEADLOCK FALSE
