----------------------------- MODULE CloneList ------------------------------
(***************************************************************************)
(* The clone tasks as the Repos screen shows them (screens/repos.rs): the  *)
(* list that is polled, the button that starts a clone on this machine or  *)
(* asks for a directory on a server, and that dialog's own timers.         *)
(***************************************************************************)
EXTENDS Naturals, FiniteSets

CONSTANTS
  Repos,      \* repositories on the screen
  Polls,      \* bound: lists that are being asked for by the interval
  Clicks,     \* bound: calls of the buttons in flight
  None,
  MaxTasks,   \* bound: clone tasks ever started
  MaxTimers,  \* bound: timers of either kind pending
  MaxErrors   \* bound: calls that fail

CloneListAssumption ==
  /\ None \notin Repos /\ Polls \cap Clicks = {}
  /\ MaxTasks \in Nat /\ MaxTimers \in Nat /\ MaxErrors \in Nat

VARIABLES
  remote,   \* the connection is a server
  tasks,    \* the clone tasks of the backend
  started,  \* how many there have been
  ui,       \* the signals of the screen
  job,      \* job[w]: the call in flight on w
  errors    \* how many calls have failed

Callers == Polls \cup Clicks

vars == <<remote, tasks, started, ui, job, errors>>
-----------------------------------------------------------------------------
\* repo, visible, open: RemoteCloneDialog's signals; opens and hides count its
\* timers.
Closed ==
  [mounted |-> FALSE, tasks |-> {}, running |-> None, repo |-> None, visible |-> None,
   open |-> FALSE, opens |-> 0, hides |-> 0]

Idle == [op |-> "idle", repo |-> None, pc |-> "sent", answer |-> {}, here |-> FALSE]
Call(op) == [Idle EXCEPT !.op = op, !.here = TRUE]

Active(w) == job[w].op # "idle"
Becomes(w, j) == job' = [job EXCEPT ![w] = j]
Sends(w, j) == ~Active(w) /\ Becomes(w, j)

Running(t) == t.status = "running"

Init ==
  /\ remote \in BOOLEAN
  /\ tasks = {} /\ started = 0
  /\ ui = Closed /\ job = [w \in Callers |-> Idle]
  /\ errors = 0

\* The screen lists the tasks when it is built, and then every 700 ms.
OpenScreen(w) ==
  /\ ~ui.mounted /\ ui' = [Closed EXCEPT !.mounted = TRUE]
  /\ Sends(w, Call("list"))
  /\ UNCHANGED <<remote, tasks, started, errors>>

\* Not under a dialog that can be seen; on_cleanup clears the interval.
LeaveScreen ==
  /\ ui.mounted /\ ~ui.open
  /\ ui' = Closed
  /\ job' = [w \in Callers |-> [job[w] EXCEPT !.here = FALSE]]
  /\ UNCHANGED <<remote, tasks, started, errors>>

\* Mutant of Poll: only until there is a task to show.
PollIdle(w) ==
  /\ ui.mounted /\ ui.tasks = {}
  /\ Sends(w, Call("list"))
  /\ UNCHANGED <<remote, tasks, started, ui, errors>>

Poll(w) ==
  /\ ui.mounted
  /\ Sends(w, Call("list"))
  /\ UNCHANGED <<remote, tasks, started, ui, errors>>

\* The effect on the repository of RemoteCloneDialog.
Asks(u, r) ==
  IF r # None THEN [u EXCEPT !.repo = r, !.visible = r, !.open = FALSE, !.opens = @ + 1]
  ELSE IF u.visible # None THEN [u EXCEPT !.repo = None, !.open = FALSE, !.hides = @ + 1]
  ELSE [u EXCEPT !.repo = None]

\* clone_repo, on a button that the dialog does not cover.
ClickClone(w, r) ==
  /\ ui.mounted /\ ~ui.open /\ ui.running = None
  /\ IF remote THEN ui' = Asks(ui, r) /\ ui'.opens <= MaxTimers /\ UNCHANGED job
     ELSE ui' = [ui EXCEPT !.running = r] /\ Sends(w, [Call("clone") EXCEPT !.repo = r])
  /\ UNCHANGED <<remote, tasks, started, errors>>

\* submit, with some path.
SubmitPath(w) ==
  /\ ui.open /\ ui.running = None /\ ui.repo # None
  /\ ui' = [ui EXCEPT !.running = ui.repo]
  /\ Sends(w, [Call("clone") EXCEPT !.repo = ui.repo])
  /\ UNCHANGED <<remote, tasks, started, errors>>

\* Cancel, or a click beside the dialog, which a running call does not stop.
CloseDialog ==
  /\ ui.open /\ ui.hides < MaxTimers
  /\ ui' = Asks(ui, None)
  /\ UNCHANGED <<remote, tasks, started, job, errors>>

\* 16 ms after the dialog was built.
OpenTimer ==
  /\ ui.opens > 0
  /\ ui' = [ui EXCEPT !.opens = @ - 1, !.open = TRUE]
  /\ UNCHANGED <<remote, tasks, started, job, errors>>

\* 220 ms after it was closed.
HideTimer ==
  /\ ui.hides > 0
  /\ ui' = [ui EXCEPT !.hides = @ - 1, !.visible = IF ui.repo = None THEN None ELSE @]
  /\ UNCHANGED <<remote, tasks, started, job, errors>>

ClickClear(w) ==
  /\ ui.mounted /\ ~ui.open
  /\ \E t \in ui.tasks : ~Running(t)
  /\ Sends(w, Call("clear"))
  /\ UNCHANGED <<remote, tasks, started, ui, errors>>
-----------------------------------------------------------------------------
(* The backend: CloneTasks.                                                *)

Answers(w, a) == Becomes(w, [job[w] EXCEPT !.pc = "answered", !.answer = a])

ListTasks(w) ==
  /\ job[w].op = "list" /\ job[w].pc = "sent"
  /\ Answers(w, tasks)
  /\ UNCHANGED <<remote, tasks, started, ui, errors>>

ClearTasks(w) ==
  /\ job[w].op = "clear" /\ job[w].pc = "sent"
  /\ tasks' = {t \in tasks : Running(t)}
  /\ Answers(w, tasks')
  /\ UNCHANGED <<remote, started, ui, errors>>

StartClone(w) ==
  /\ job[w].op = "clone" /\ job[w].pc = "sent" /\ started < MaxTasks
  /\ started' = started + 1
  /\ LET t == [id |-> started', status |-> "running"] IN
       tasks' = tasks \cup {t} /\ Answers(w, {t})
  /\ UNCHANGED <<remote, ui, errors>>

\* A call that fails; the picker of a clone that is cancelled.
Fails(w) ==
  /\ Active(w) /\ job[w].pc = "sent"
  /\ IF job[w].op = "clone" THEN UNCHANGED errors ELSE errors < MaxErrors /\ errors' = errors + 1
  /\ Becomes(w, [job[w] EXCEPT !.pc = "failed"])
  /\ UNCHANGED <<remote, tasks, started, ui>>

CloneEnds(t) ==
  /\ t \in tasks /\ Running(t)
  /\ tasks' = (tasks \ {t}) \cup {[t EXCEPT !.status = "done"]}
  /\ UNCHANGED <<remote, started, ui, job, errors>>
-----------------------------------------------------------------------------
(* The answers.                                                            *)

\* The list, and the list that is left by Clear, replace what is shown.
ListAnswered(w) ==
  /\ job[w].op \in {"list", "clear"} /\ job[w].pc \in {"answered", "failed"}
  /\ Becomes(w, Idle)
  /\ ui' = IF job[w].here /\ job[w].pc = "answered" THEN [ui EXCEPT !.tasks = job[w].answer] ELSE ui
  /\ UNCHANGED <<remote, tasks, started, errors>>

\* upsert_clone_task
Upsert(list, t) == {s \in list : s.id # t.id} \cup {t}

CloneAnswered(w) ==
  /\ job[w].op = "clone" /\ job[w].pc \in {"answered", "failed"}
  /\ Becomes(w, Idle)
  /\ LET u == [ui EXCEPT !.running = None]
         t == CHOOSE s \in job[w].answer : TRUE IN
       ui' = IF ~job[w].here THEN ui
             ELSE IF job[w].pc = "failed" THEN u
             ELSE LET v == [u EXCEPT !.tasks = Upsert(@, t)] IN
                  IF remote THEN Asks(v, None) ELSE v
  /\ UNCHANGED <<remote, tasks, started, errors>>
-----------------------------------------------------------------------------
CloneNext ==
  \/ LeaveScreen \/ CloseDialog \/ OpenTimer \/ HideTimer
  \/ \E t \in tasks : CloneEnds(t)
  \/ \E w \in Polls : OpenScreen(w) \/ Poll(w)
  \/ \E w \in Clicks :
       \/ \E r \in Repos : ClickClone(w, r)
       \/ SubmitPath(w) \/ ClickClear(w)
  \/ \E w \in Callers :
       \/ ListTasks(w) \/ ClearTasks(w) \/ StartClone(w) \/ Fails(w)
       \/ ListAnswered(w) \/ CloneAnswered(w)

CloneSpec == Init /\ [][CloneNext]_vars
-----------------------------------------------------------------------------
\* What the screen comes to as long as it stays open.
Watched == ui.mounted
CaughtUp == ui.tasks = tasks

(* Once its timers have fired, the dialog is there for the repository that *)
(* was asked for last, or gone.                                            *)
DialogSettles ==
  ui.mounted /\ ui.opens = 0 /\ ui.hides = 0 =>
    /\ ui.visible = ui.repo
    /\ ui.repo # None => ui.open

(* A clone's answer closes the dialog it was started from, and no other.   *)
CloneKeepsItsDialog ==
  \A w \in Callers : job[w].op = "clone" /\ job[w].here =>
    ui.running = job[w].repo /\ ui.repo \in {None, job[w].repo}
-----------------------------------------------------------------------------
(* The inductive invariant.                                                *)
Drawn(u) ==
  /\ u = [mounted |-> u.mounted, tasks |-> u.tasks, running |-> u.running, repo |-> u.repo,
          visible |-> u.visible, open |-> u.open, opens |-> u.opens, hides |-> u.hides]
  /\ u.mounted \in BOOLEAN /\ u.open \in BOOLEAN
  /\ u.repo \in Repos \cup {None} /\ u.opens \in Nat /\ u.hides \in Nat

Called(j) == j = [op |-> j.op, repo |-> j.repo, pc |-> j.pc, answer |-> j.answer, here |-> j.here]

(* The dialog's timers: one is pending that shows it, or takes it down.    *)
TimersToCome(u) ==
  /\ u.repo # None => u.visible = u.repo /\ (u.open \/ u.opens > 0)
  /\ u.repo = None /\ u.visible # None => u.hides > 0
  /\ u.open \/ u.opens > 0 => u.mounted

Asked == Drawn(ui) /\ TimersToCome(ui) /\ remote \in BOOLEAN /\ (~remote => ui.repo = None)

(* The screen waits for one clone at a time.                               *)
Cloning(j) == j.op = "clone" /\ j.here

OneClone ==
  /\ job = [w \in Callers |-> job[w]]
  /\ \A v, w \in Callers : Cloning(job[v]) /\ Cloning(job[w]) => v = w
  /\ \A w \in Callers :
       /\ Called(job[w]) /\ (job[w].here => ui.mounted)
       /\ Cloning(job[w]) => job[w].repo \in Repos

Dialogued == Asked /\ OneClone /\ CloneKeepsItsDialog
=============================================================================
