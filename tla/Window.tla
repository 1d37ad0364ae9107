------------------------------- MODULE Window --------------------------------
(***************************************************************************)
(* The window, put together from the modules of its parts.  None of the    *)
(* parts reads a signal of another, but for those its module declares to   *)
(* change by themselves (the connection, the keys, whether someone is      *)
(* signed in), so one of them runs in a behaviour, and what holds of each  *)
(* holds of all.  The variables are those of the part that runs.            *)
(***************************************************************************)
EXTENDS Integers, Sequences, FiniteSets

CONSTANTS
  None,
  Parts,                                  \* bound: the parts a run looks at
  Workers,                                \* calls that may be in flight at a time
  Conns, Local,                           \* connections, and this machine
  Ids, Dirs, Copied, AtStart, MaxTimers,  \* KeyScreen
  Months, Today, Picked,                  \* DateFilter
  Repos,                                  \* RepoActions, CloneList
  MaxFrames, MaxSignIns,                  \* Shell
  Langs, MaxHistory,                      \* Palette, Preferences
  Blocks, Places,                         \* SettingsTabs
  WebView, Sizes, Default, Counts,        \* Preferences
  Streamed, Checkpoints, Step, Cap, MaxCalls, MaxToasts,   \* Feedback
  Polls, Clicks, MaxTasks, MaxErrors      \* CloneList

VARIABLES
  part,                      \* the part that runs
  ui, job,                   \* its signals and its calls, if it names them so
  v1, v2, v3, v4, v5, v6, v7, v8, v9, v10, v11, v12    \* its others, in its order

Keys == INSTANCE KeyScreen WITH
  active <- v1, store <- v2, used <- v3, reread <- v4, stale <- v5
Dates == INSTANCE DateFilter WITH
  open <- v1, draft <- v2, range <- v3, month <- v4
Actions == INSTANCE RepoActions WITH
  keys <- v1, chosen <- v2, late <- v3
Shell == INSTANCE Shell WITH
  MaxCalls <- MaxSignIns, screen <- v1, section <- v2, account <- v3, signing <- v4, calls <- v5,
  hint <- v6, bar <- v7, over <- v8, seen <- v9, tour <- v10, late <- v11,
  moved <- v12
Palette == INSTANCE Palette WITH
  lang <- v1, palette <- v2, stored <- v3, theme <- v4, dark <- v5,
  slipped <- v6
Settings == INSTANCE SettingsTabs WITH
  active <- v1, file <- v2, temp <- v3, dir <- v4, made <- v5, page <- v6,
  tab <- v7, dirty <- v8, foreign <- v9
Prefs == INSTANCE Preferences WITH
  saved <- v1, locale <- v2, size <- v3, boot <- v4, mounted <- v5, count <- v6,
  page <- v7, atStart <- v8, touched <- v9, upset <- v10
Feedback == INSTANCE Feedback WITH
  calls <- v1, begun <- v2, listening <- v3, events <- v4, entries <- v5,
  phase <- v6, generation <- v7, timers <- v8, climbing <- v9, toasts <- v10,
  left <- v11
Clones == INSTANCE CloneList WITH
  remote <- v1, tasks <- v2, started <- v3, errors <- v4

ASSUME WindowAssumption ==
  /\ Keys!KeyScreenAssumption /\ Dates!DateFilterAssumption /\ Actions!RepoActionsAssumption
  /\ Shell!ShellAssumption /\ Palette!PaletteAssumption /\ Settings!SettingsAssumption
  /\ Prefs!PreferencesAssumption /\ Feedback!FeedbackAssumption /\ Clones!CloneListAssumption

vars == <<part, ui, job, v1, v2, v3, v4, v5, v6, v7, v8, v9, v10, v11, v12>>
-----------------------------------------------------------------------------
\* The variables that a part does not have.
besideKeys == <<part, v6, v7, v8, v9, v10, v11, v12>>
besideDates == <<part, ui, job, v5, v6, v7, v8, v9, v10, v11, v12>>
besideActions == <<part, v4, v5, v6, v7, v8, v9, v10, v11, v12>>
besideShell == <<part, ui, job>>
besidePalette == <<part, ui, job, v7, v8, v9, v10, v11, v12>>
besideSettings == <<part, ui, v10, v11, v12>>
besidePrefs == <<part, ui, v11, v12>>
besideFeedback == <<part, ui, job, v12>>
besideClones == <<part, v5, v6, v7, v8, v9, v10, v11, v12>>

Without12 == v12 = None
Without11 == v11 = None /\ Without12
Without7 == v7 = None /\ v8 = None /\ v9 = None /\ v10 = None /\ Without11
Without5 == v5 = None /\ v6 = None /\ Without7
Without4 == v4 = None /\ Without5

Init ==
  /\ part \in Parts
  /\ \/ part = "keys" /\ Keys!Init /\ v6 = None /\ Without7
     \/ part = "dates" /\ Dates!Init /\ ui = None /\ job = None /\ Without5
     \/ part = "actions" /\ Actions!Init /\ Without4
     \/ part = "shell" /\ Shell!Init /\ ui = None /\ job = None
     \/ part = "palette" /\ Palette!Init /\ ui = None /\ job = None /\ Without7
     \/ part = "settings" /\ Settings!Init /\ ui = None /\ v10 = None /\ Without11
     \/ part = "preferences" /\ Prefs!Init /\ ui = None /\ Without11
     \/ part = "feedback" /\ Feedback!Init /\ ui = None /\ job = None /\ Without12
     \/ part = "clones" /\ Clones!Init /\ Without5

Next ==
  \/ part = "keys" /\ Keys!KeysNext /\ UNCHANGED besideKeys
  \/ part = "dates" /\ Dates!DateNext /\ UNCHANGED besideDates
  \/ part = "actions" /\ Actions!ActionsNext /\ UNCHANGED besideActions
  \/ part = "shell" /\ Shell!ShellNext /\ UNCHANGED besideShell
  \/ part = "palette" /\ Palette!PaletteNext /\ UNCHANGED besidePalette
  \/ part = "settings" /\ Settings!SettingsNext /\ UNCHANGED besideSettings
  \/ part = "preferences" /\ Prefs!Next /\ UNCHANGED besidePrefs
  \/ part = "feedback" /\ Feedback!Next /\ UNCHANGED besideFeedback
  \/ part = "clones" /\ Clones!CloneNext /\ UNCHANGED besideClones

Spec == Init /\ [][Next]_vars

\* The browser fires every timeout and the interval, and delivers every event
\* and answer; list_clone_tasks answers.  Nothing else makes the backend answer.
Fairness ==
  /\ WF_vars(part = "feedback" /\ Feedback!Hear /\ UNCHANGED besideFeedback)
  /\ WF_vars(part = "feedback" /\ Feedback!FiresSome /\ UNCHANGED besideFeedback)
  /\ WF_vars(part = "feedback" /\ Feedback!ClimbsSome /\ UNCHANGED besideFeedback)
  /\ WF_vars(part = "feedback" /\ Feedback!ToastTimeout /\ UNCHANGED besideFeedback)
  /\ \A w \in Polls :
       /\ WF_vars(part = "clones" /\ Clones!Poll(w) /\ UNCHANGED besideClones)
       /\ WF_vars(part = "clones" /\ Clones!ListTasks(w) /\ UNCHANGED besideClones)
       /\ WF_vars(part = "clones" /\ Clones!ListAnswered(w) /\ UNCHANGED besideClones)

FairSpec == Spec /\ Fairness
-----------------------------------------------------------------------------
(* The Keys screen comes to rest: its rows are the connection's keys, and  *)
(* no control stays disabled.                                              *)
KeysSafe == part = "keys" => Keys!RowsSettle /\ Keys!ControlsComeBack

(* The date filter's calendar is the month's, and its text finds the days  *)
(* that were picked.                                                       *)
DatesSafe == part = "dates" => Dates!CalendarShowsTheMonth /\ Dates!RangeFindsItsDays

(* The dialogs and menus of the Repos screen act on what they show.        *)
ActionsSafe ==
  part = "actions" => Actions!BindsTheKeyOnOffer /\ Actions!CallsKeepTheirDialog

(* The tutorial points at what its step is about, and leaves no mark.      *)
ShellSafe == part = "shell" => Shell!StepsArePointedOut /\ Shell!MarksGoWithTheTour

(* Enter finds an entry in the palette, and the page has the theme's colour*)
PaletteSafe == part = "palette" => Palette!EnterFindsItsEntry /\ Palette!PageFollowsTheTheme

(* The settings page shows what is saved, and keeps the directory's place. *)
SettingsSafe == part = "settings" => Settings!TabSettles /\ Settings!DirKeepsItsPlace

(* The language and the page size are saved as they were chosen, and a     *)
(* start brings the language back.                                         *)
SettingsKept == part = "preferences" => Prefs!SettingsKept

(* However a list is filtered, answered and paged, its pages show every    *)
(* match once (Repos, Keys and Connect).                                   *)
PagesShowTheMatches == part = "preferences" => Prefs!PagesShowTheMatches

(* The progress line tells of the calls under way, every call has its      *)
(* entry and no toast goes unseen (ProgressHandle, ToastHandle); the dialog *)
(* of a clone to a path settles, and a clone's answer closes no other one   *)
(* (RemoteCloneDialog).                                                     *)
WindowSafe ==
  /\ part = "feedback" =>
       Feedback!LineTellsOfWork /\ Feedback!EntriesOfCalls /\ Feedback!ToastSeen
  /\ part = "clones" => Clones!DialogSettles /\ Clones!CloneKeepsItsDialog

(* Once no call is under way the timers of maybe_complete run out, and the  *)
(* line is hidden unless a stream failed, or another call begins; and every *)
(* toast that push shows leaves.                                            *)
TimersRunOut ==
  /\ (part = "feedback" /\ Feedback!NoCall)
       ~> (part = "feedback" /\ (Feedback!Settled \/ ~Feedback!NoCall))
  /\ (part = "feedback" /\ Feedback!Pushed(1)) ~> (part = "feedback" /\ Feedback!Left(1))

(* Answers of the polls of list_clone_tasks overtake each other; yet as     *)
(* long as the screen stays open, it comes to show every task as it is once *)
(* the tasks have come to rest (the interval of Repos).                     *)
ListCatchesUp ==
  <>[](part = "clones" /\ Clones!Watched) => <>[](part = "clones" /\ Clones!CaughtUp)
=============================================================================
