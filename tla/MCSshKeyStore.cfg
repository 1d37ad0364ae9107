SPECIFICATION Spec
CONSTANTS
  w1 = w1  w2 = w2  d1 = d1  d2 = d2  d3 = d3  a1 = a1  a2 = a2
  Dirs = {d1, d2, d3}
  Algs = {a1, a2}
  Workers = {w1, w2}
  None = None
  Places = {FALSE, TRUE}
  MaxInFlight = 2
  MaxKeys = 2
  Faults = {"insert", "update", "late", "files", "unheard", "crash", "removed"}
SYMMETRY MCSymmetry
INVARIANTS FilesAccountedFor RowHasItsFilesHere OnePairPerPath
CHECK_DEADLOCK FALSE
