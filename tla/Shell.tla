------------------------------- MODULE Shell --------------------------------
(***************************************************************************)
(* The window around the screens (app.rs): which screen is drawn, what     *)
(* lies over it, the side bar, and the tutorial that is shown to a user    *)
(* who has not seen it.  A click reaches what nothing else covers.         *)
(***************************************************************************)
EXTENDS Naturals, Sequences

CONSTANTS
  None,
  MaxFrames,   \* bound: animation frames asked for and not yet drawn
  MaxCalls     \* bound: sign-ins, and sign-outs, in flight

\* TutorialStep
Steps ==
  <<"SignIn", "Sync", "Connect", "CreateKey", "BindKey", "CloneRepo", "ConnectRepo", "TestRepo">>

Names == {Steps[i] : i \in 1..Len(Steps)}

ShellAssumption == MaxFrames \in Nat /\ MaxCalls \in Nat /\ None \notin Names

VARIABLES
  screen,    \* which of the two screens App draws
  section,   \* current_section
  account,   \* whether someone is signed in
  signing,   \* signing_in
  calls,     \* get_session, sign_in_with_token and sign_out in flight
  hint,      \* prompt_sign_in, and its timer
  bar,       \* the side bar: the width's wish and the user's
  over,      \* what lies over the screen
  seen,      \* the note in the local storage
  tour,      \* the tutorial
  late,      \* history: it was left with a frame outstanding
  moved      \* history: someone signed in or out since its step was drawn

vars == <<screen, section, account, signing, calls, hint, bar, over, seen, tour, late, moved>>
-----------------------------------------------------------------------------
\* AppSection
Sections == {"Repos", "Connect", "Keys"}

Section(step) ==
  CASE step = "Connect" -> "Connect"
    [] step = "CreateKey" -> "Keys"
    [] OTHER -> "Repos"

Index(step) == CHOOSE i \in 1..Len(Steps) : Steps[i] = step

\* The targets TutorialReposDemo draws.
ReposDemo(step) ==
  {"Sync"} \cup (IF step \in {"BindKey", "CloneRepo", "ConnectRepo", "TestRepo"}
                   THEN {"CloneRepo", "BindKey"} ELSE {})
           \cup (IF step \in {"ConnectRepo", "TestRepo"} THEN {"ConnectRepo", "TestRepo"} ELSE {})

\* TutorialDemoScreen
Demo(step) ==
  CASE step = "Connect" -> {"Connect"}
    [] step = "CreateKey" -> {"CreateKey"}
    [] OTHER -> ReposDemo(step)

\* What carries the same mark on the screens themselves.
Real(s) ==
  CASE s = "Repos" -> {"Sync"} \cup (IF account THEN {"CloneRepo", "BindKey"} ELSE {})
    [] s = "Connect" -> {"Connect"}
    [] s = "Keys" -> {"CreateKey"}

\* The targets in the document, with nobody signed in the button for it.
Marked ==
  IF screen = "SignIn" THEN {}
  ELSE (IF account THEN {} ELSE {"SignIn"})
         \cup (IF tour.step = None THEN Real(section) ELSE Demo(tour.step))

\* find_tutorial_target_element
Find(step) == IF step \in Marked THEN step ELSE None

Collapsed == IF bar.manual = None THEN bar.auto ELSE bar.manual
-----------------------------------------------------------------------------
Bare == [settings |-> FALSE, confirm |-> FALSE, popover |-> FALSE, routes |-> FALSE]

NoTour == [step |-> None, target |-> None, glow |-> {}, frames |-> <<>>]

\* Main and TutorialGuide anew: frames asked for by the last one still come.
Built(pending) ==
  IF seen THEN [NoTour EXCEPT !.frames = pending]
  ELSE [NoTour EXCEPT !.step = "SignIn", !.frames = Append(pending, [step |-> "SignIn", here |-> TRUE])]

Orphans == [i \in DOMAIN tour.frames |-> [tour.frames[i] EXCEPT !.here = FALSE]]

Init ==
  /\ screen = "Main" /\ section = "Repos" /\ account = FALSE
  /\ signing = FALSE /\ calls = [session |-> 1, signIn |-> 0, signOut |-> 0]
  /\ hint = FALSE
  /\ \E narrow \in BOOLEAN : bar = [auto |-> narrow, manual |-> None]
  /\ over = Bare
  /\ seen \in BOOLEAN /\ tour = Built(<<>>)
  /\ late = FALSE /\ moved = FALSE

\* The sign-in button is drawn anew, without its mark.
Redrawn(t) == [t EXCEPT !.glow = @ \ {"SignIn"}]

Main == screen = "Main"
Plain == Main /\ over = Bare
HeaderFree == Main /\ ~over.confirm /\ ~over.popover /\ ~over.routes /\ tour.step = None
-----------------------------------------------------------------------------
(* Navigation and the side bar.                                            *)

ClickNav(s) ==
  /\ Plain /\ tour.step = None /\ ~hint
  /\ section' = s
  /\ UNCHANGED <<screen, account, signing, calls, hint, bar, over, seen, tour, late, moved>>

\* SidebarDivider lies above the tutorial's veil.
ToggleSidebar ==
  /\ Plain
  /\ bar' = [bar EXCEPT !.manual = ~Collapsed]
  /\ tour' = Redrawn(tour)
  /\ UNCHANGED <<screen, section, account, signing, calls, hint, over, seen, late, moved>>

\* App's listener, then TutorialGuide's.
Resize(narrow) ==
  /\ bar' = IF narrow # bar.auto THEN [auto |-> narrow, manual |-> None] ELSE bar
  /\ LET t == IF Collapsed' # Collapsed THEN Redrawn(tour) ELSE tour IN
       tour' = IF Main /\ t.step # None THEN [t EXCEPT !.target = Find(t.step)] ELSE t
  /\ UNCHANGED <<screen, section, account, signing, calls, hint, over, seen, late, moved>>

\* Sync with nobody signed in: hint_sign_in.
ClickSyncSignedOut ==
  /\ Plain /\ tour.step = None /\ ~hint
  /\ section = "Repos" /\ ~account
  /\ hint' = TRUE
  /\ UNCHANGED <<screen, section, account, signing, calls, bar, over, seen, tour, late, moved>>

HintTimer ==
  /\ hint /\ hint' = FALSE
  /\ tour' = Redrawn(tour)
  /\ UNCHANGED <<screen, section, account, signing, calls, bar, over, seen, late, moved>>

\* SettingsButton, and SettingsPage's way back.
OpenSettings ==
  /\ HeaderFree
  /\ over' = [over EXCEPT !.settings = TRUE]
  /\ UNCHANGED <<screen, section, account, signing, calls, hint, bar, seen, tour, late, moved>>

CloseSettings ==
  /\ Main /\ over.settings /\ ~over.confirm
  /\ over' = [over EXCEPT !.settings = FALSE]
  /\ UNCHANGED <<screen, section, account, signing, calls, hint, bar, seen, tour, late, moved>>

\* QuickRoutesMenu
OpenRoutes ==
  /\ HeaderFree
  /\ over' = [over EXCEPT !.routes = TRUE]
  /\ UNCHANGED <<screen, section, account, signing, calls, hint, bar, seen, tour, late, moved>>

CloseRoutes ==
  /\ Main /\ over.routes
  /\ over' = [over EXCEPT !.routes = FALSE]
  /\ UNCHANGED <<screen, section, account, signing, calls, hint, bar, seen, tour, late, moved>>

PickRoute(s) ==
  /\ Main /\ over.routes
  /\ section' = s
  /\ over' = [over EXCEPT !.routes = FALSE, !.settings = FALSE]
  /\ UNCHANGED <<screen, account, signing, calls, hint, bar, seen, tour, late, moved>>
-----------------------------------------------------------------------------
(* Signing in and out.                                                     *)

\* start_auth: Main is taken down, and with it the tutorial's marks.
ClickSignIn ==
  /\ Plain /\ tour.step = None /\ ~account /\ ~signing
  /\ screen' = "SignIn"
  /\ tour' = [NoTour EXCEPT !.frames = Orphans]
  /\ over' = Bare /\ late' = (tour.frames # <<>>)
  /\ UNCHANGED <<section, account, signing, calls, hint, bar, seen, moved>>

SubmitToken ==
  /\ screen = "SignIn" /\ ~signing /\ calls.signIn < MaxCalls
  /\ signing' = TRUE /\ calls' = [calls EXCEPT !.signIn = @ + 1]
  /\ UNCHANGED <<screen, section, account, hint, bar, over, seen, tour, late, moved>>

CancelSignIn ==
  /\ screen = "SignIn"
  /\ screen' = "Main" /\ signing' = FALSE
  /\ tour' = Built(Orphans) /\ moved' = FALSE
  /\ UNCHANGED <<section, account, calls, hint, bar, over, seen, late>>

\* App draws Main anew even if it was there.
SignedIn ==
  /\ calls.signIn > 0 /\ calls' = [calls EXCEPT !.signIn = @ - 1]
  /\ account' = TRUE /\ screen' = "Main" /\ signing' = FALSE
  /\ over' = Bare
  /\ tour' = Built(Orphans) /\ late' = (tour.frames # <<>>) /\ moved' = FALSE
  /\ section' = IF seen THEN section ELSE "Repos"
  /\ UNCHANGED <<hint, bar, seen>>

SignInFails ==
  /\ calls.signIn > 0 /\ calls' = [calls EXCEPT !.signIn = @ - 1]
  /\ signing' = FALSE
  /\ UNCHANGED <<screen, section, account, hint, bar, over, seen, tour, late, moved>>

\* The start's get_session.
SessionAnswered(found) ==
  /\ calls.session > 0 /\ calls' = [calls EXCEPT !.session = 0]
  /\ account' = (account \/ found)
  /\ over' = IF found THEN [over EXCEPT !.popover = FALSE] ELSE over
  /\ tour' = IF found THEN Redrawn(tour) ELSE tour
  /\ moved' = (moved \/ account' # account)
  /\ UNCHANGED <<screen, section, signing, hint, bar, seen, late>>

TogglePopover ==
  /\ Main /\ account /\ ~over.settings /\ ~over.confirm /\ ~over.routes /\ tour.step = None
  /\ over' = [over EXCEPT !.popover = ~@]
  /\ UNCHANGED <<screen, section, account, signing, calls, hint, bar, seen, tour, late, moved>>

AskSignOut ==
  /\ Main /\ over.popover
  /\ over' = [over EXCEPT !.popover = FALSE, !.confirm = TRUE]
  /\ UNCHANGED <<screen, section, account, signing, calls, hint, bar, seen, tour, late, moved>>

CancelSignOut ==
  /\ Main /\ over.confirm
  /\ over' = [over EXCEPT !.confirm = FALSE]
  /\ UNCHANGED <<screen, section, account, signing, calls, hint, bar, seen, tour, late, moved>>

ConfirmSignOut ==
  /\ Main /\ over.confirm /\ calls.signOut < MaxCalls
  /\ over' = [over EXCEPT !.confirm = FALSE]
  /\ calls' = [calls EXCEPT !.signOut = @ + 1]
  /\ UNCHANGED <<screen, section, account, signing, hint, bar, seen, tour, late, moved>>

SignedOut ==
  /\ calls.signOut > 0 /\ calls' = [calls EXCEPT !.signOut = @ - 1]
  /\ account' = FALSE /\ over' = [over EXCEPT !.popover = FALSE]
  /\ tour' = Redrawn(tour)
  /\ moved' = (moved \/ account)
  /\ UNCHANGED <<screen, section, signing, hint, bar, seen, late>>
-----------------------------------------------------------------------------
(* The tutorial.                                                           *)

\* The two effects on its step.
ShowStepStays(s) ==
  /\ Len(tour.frames) < MaxFrames
  /\ UNCHANGED section
  /\ tour' = [tour EXCEPT !.step = s, !.frames = Append(@, [step |-> s, here |-> TRUE])]
  /\ moved' = FALSE

ShowStep(s) ==
  /\ Len(tour.frames) < MaxFrames
  /\ section' = Section(s)
  /\ tour' = [tour EXCEPT !.step = s, !.frames = Append(@, [step |-> s, here |-> TRUE])]
  /\ moved' = FALSE

\* Mutant of HideStep: the mark stays on the element.
HideStepMarked ==
  /\ seen' = TRUE
  /\ tour' = [tour EXCEPT !.step = None] /\ late' = (tour.frames # <<>>)
  /\ UNCHANGED <<section, moved>>

\* mark_beginner_tutorial_seen, and the effect for no step.
HideStep ==
  /\ seen' = TRUE
  /\ tour' = [tour EXCEPT !.step = None, !.glow = {}] /\ late' = (tour.frames # <<>>)
  /\ UNCHANGED <<section, moved>>

TourFree == Main /\ tour.step # None /\ ~over.settings

OpenTutorial ==
  /\ HeaderFree /\ ShowStep("SignIn")
  /\ UNCHANGED <<screen, account, signing, calls, hint, bar, over, seen, late>>

GoPrevious ==
  /\ TourFree /\ Index(tour.step) > 1
  /\ ShowStep(Steps[Index(tour.step) - 1])
  /\ UNCHANGED <<screen, account, signing, calls, hint, bar, over, seen, late>>

GoNext ==
  /\ TourFree
  /\ IF Index(tour.step) = Len(Steps) THEN HideStep
     ELSE ShowStep(Steps[Index(tour.step) + 1]) /\ UNCHANGED <<seen, late>>
  /\ UNCHANGED <<screen, account, signing, calls, hint, bar, over>>

Skip ==
  /\ TourFree /\ HideStep
  /\ UNCHANGED <<screen, account, signing, calls, hint, bar, over>>

\* refresh_target's frame.  It marks whatever carries the mark by then.
Frame ==
  /\ tour.frames # <<>>
  /\ LET f == Head(tour.frames) IN
       tour' = [tour EXCEPT !.frames = Tail(@),
                            !.target = IF f.here THEN Find(f.step) ELSE @,
                            !.glow = {Find(f.step)} \ {None}]
  /\ UNCHANGED <<screen, section, account, signing, calls, hint, bar, over, seen, late, moved>>
-----------------------------------------------------------------------------
ShellNext ==
  \/ \E s \in Sections : ClickNav(s) \/ PickRoute(s)
  \/ \E b \in BOOLEAN : Resize(b) \/ SessionAnswered(b)
  \/ ToggleSidebar \/ ClickSyncSignedOut \/ HintTimer
  \/ OpenSettings \/ CloseSettings \/ OpenRoutes \/ CloseRoutes
  \/ ClickSignIn \/ SubmitToken \/ CancelSignIn \/ SignedIn \/ SignInFails
  \/ TogglePopover \/ AskSignOut \/ CancelSignOut \/ ConfirmSignOut \/ SignedOut
  \/ OpenTutorial \/ GoPrevious \/ GoNext \/ Skip \/ Frame

ShellSpec == Init /\ [][ShellNext]_vars
-----------------------------------------------------------------------------
(* The inductive invariant.                                                *)
Asked == [step : Names, here : BOOLEAN]

Tours ==
  [step : Names \cup {None}, target : Names \cup {None}, glow : SUBSET Names, frames : Seq(Asked)]

Shapes ==
  /\ screen \in {"Main", "SignIn"} /\ section \in Sections
  /\ account \in BOOLEAN /\ seen \in BOOLEAN /\ late \in BOOLEAN /\ moved \in BOOLEAN
  /\ calls \in [session : Nat, signIn : Nat, signOut : Nat]
  /\ over \in [settings : BOOLEAN, confirm : BOOLEAN, popover : BOOLEAN, routes : BOOLEAN]
  /\ tour \in Tours

(* Who signs in has seen the tutorial, or left it; no menu lies over it.    *)
SeenFirst ==
  /\ ~Main \/ over.routes => tour.step = None
  /\ tour.step = None \/ calls.signIn > 0 => seen

(* The step's own frame is the last one asked for, and until it is drawn   *)
(* the bubble may point anywhere.                                          *)
StepsOwnFrame ==
  tour.step # None =>
    /\ section = Section(tour.step)
    /\ IF tour.frames = <<>>
         THEN tour.target = tour.step \/ (tour.step = "SignIn" /\ (account \/ moved))
         ELSE tour.frames[Len(tour.frames)] = [step |-> tour.step, here |-> TRUE]

NothingLeft == tour.step = None /\ ~late => tour.frames = <<>> /\ tour.glow = {}

Guided == Shapes /\ SeenFirst /\ StepsOwnFrame /\ NothingLeft
-----------------------------------------------------------------------------
(* As long as a step of the tutorial is on, its section is the current     *)
(* one; and once its frame is drawn the bubble points at the step's own    *)
(* target, which the demonstration screen has.  Only the sign-in button    *)
(* may be missing, when someone is or was signed in.                       *)
StepsArePointedOut ==
  Main /\ tour.step # None =>
    /\ section = Section(tour.step)
    /\ tour.frames = <<>> =>
         \/ tour.target = tour.step
         \/ tour.step = "SignIn" /\ (account \/ moved)

(* Without the tutorial nothing is marked, unless it was left before its   *)
(* last frame was drawn.                                                   *)
MarksGoWithTheTour == (~Main \/ tour.step = None) /\ ~late => tour.glow = {}
=============================================================================
