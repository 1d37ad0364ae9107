SPECIFICATION Spec
CONSTANTS
  w1 = w1  w2 = w2  r1 = r1  r2 = r2  d1 = d1  d2 = d2  s1 = s1
  Repos = {r1, r2}
  LocalDirs = {d1}
  ColonDirs = {}
  RemoteDirs = {}
  Workers = {w1, w2}
  None = None
  MaxTasks = 2
  MaxLog = 1
SYMMETRY RepoSymmetry
INVARIANTS QuietMeansSaved LatestIsFound
CHECK_DEADLOCK FALSE
