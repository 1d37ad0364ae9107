SPECIFICATION Spec
CONSTANTS
  u1 = u1
  u2 = u2
  g1 = g1
  w1 = w1
  w2 = w2
  Users = {u1, u2}
  Repos = {g1}
  Visible <- MCVisible
  Workers = {w1, w2}
  None = None
  MaxSignIns = 2
  Faults = {"github", "store", "delete", "rows", "unsaved", "crash"}
SYMMETRY MCSymmetry
INVARIANTS RowsStayWithTheirUser TokenIsThere SessionSettles ScreenSettles
CHECK_DEADLOCK FALSE
