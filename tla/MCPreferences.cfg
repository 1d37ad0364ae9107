SPECIFICATION Spec
CONSTANTS
  w1 = w1  w2 = w2
  Langs = {"en", "zh-Hant"}
  WebView <- MCWebView
  Sizes = {5, 10}
  Default = 5
  Counts = {6}
  Workers = {w1, w2}
  None = None
SYMMETRY MCSymmetry
INVARIANTS PageSizeRestored
CHECK_DEADLOCK FALSE
