SPECIFICATION Spec
CONSTANTS
  None = None
  w1 = w1  w2 = w2  w3 = w3  d1 = d1  d2 = d2
  signIn = signIn  sync = sync
  Parts = {"keys", "dates", "actions", "shell", "palette", "settings", "preferences"}
  Workers = {w1, w2}
  Conns = {c1, c2}  Local = c1
  Ids = {1, 2}  Dirs = {d1, d2}  Copied = {1}  AtStart = {1}  MaxTimers = 1
  Months <- MCMonths  Today <- MCToday  Picked <- MCPicked
  Repos = {r1, r2}
  MaxFrames = 1  MaxSignIns = 1
  Langs = {"en", "zh-Hant"}  MaxHistory = 2
  Blocks = {"own"}  Places = {"keys"}
  WebView <- MCWebView  Sizes = {2, 3}  Default = 2  Counts = {3}
  Streamed = {signIn, sync}  Checkpoints <- MCCheckpoints
  Step = 90  Cap = 90  MaxCalls = 2  MaxToasts = 1
  Polls = {w1, w2}  Clicks = {w3}  MaxTasks = 1  MaxErrors = 1
CHECK_DEADLOCK FALSE
SYMMETRY MCSymmetry
CONSTRAINTS MCOneChoice MCOneBesideRead
INVARIANTS KeysSafe DatesSafe ActionsSafe ShellSafe PaletteSafe SettingsSafe SettingsKept PagesShowTheMatches
