SPECIFICATION Spec
CONSTANTS
  w1 = w1  w2 = w2  a = a  b = b  d1 = d1  p1 = p1  p2 = p2
  Repos = {a, b}
  Dirs = {d1}
  Paths = {p1, p2}
  Workers = {w1, w2}
  None = None
  MaxKeys = 3
  MaxNames = 2
  MaxChanges = 3
SYMMETRY MCSymmetry
INVARIANTS MarkedWasWired ConnectSatisfiesTest
PROPERTIES TestMeansReachable
CHECK_DEADLOCK FALSE
