SPECIFICATION Spec
CONSTANTS
  w1 = w1  w2 = w2  k1 = k1  k2 = k2  u1 = u1  u2 = u2
  Repos = {1, 12}
  Keys = {k1, k2}
  Own = u1
  Added = {u2}
  Workers = {w1, w2}
  None = None
  Places = {FALSE, TRUE}
  MaxLines = 7
  Faults = {"crash", "torn", "disk full"}
  Cuts = {"user", "begin", "end", "host"}
SYMMETRY MCSymmetry
CONSTRAINT MCConstraint
VIEW MCView
INVARIANTS UserLinesKept WellFormed QuietMeansConfigured
PROPERTIES OwnBlockWritten
CHECK_DEADLOCK FALSE
