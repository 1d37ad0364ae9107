----------------------------- MODULE CloneTasks -----------------------------
(***************************************************************************)
(* The clone tasks of the desktop host (deploykeys-app/src/lib.rs): a list *)
(* in memory behind a mutex, the copy of it in the clone_tasks setting,    *)
(* and the repo_clone_paths setting with each repository's latest          *)
(* successful clone.  Every writer changes the list under the lock, takes  *)
(* a snapshot, releases the lock and then writes the snapshot: the writes  *)
(* of two writers may land in either order.                                *)
(***************************************************************************)
EXTENDS Naturals, FiniteSets

CONSTANTS
  Repos,          \* repositories with an active binding on the target
  LocalDirs,      \* parent directories on this machine
  ColonDirs,      \* those whose path contains ": "
  RemoteDirs,     \* parent directories on a remote server
  Workers,        \* commands and clone tasks in flight
  None,
  MaxTasks,       \* bound: the ids handed out between two starts
  MaxLog          \* bound: log chunks of one clone

ASSUME CloneTasksAssumption ==
  /\ LocalDirs \cap RemoteDirs = {} /\ ColonDirs \subseteq LocalDirs
  /\ None \notin Repos \cup LocalDirs \cup RemoteDirs
  /\ MaxTasks \in Nat /\ MaxLog \in Nat \ {0}

VARIABLES
  up,         \* the host is running
  tasks,      \* AppState.clone_tasks, newest first in the code, unordered here
  nextId,     \* AppState.next_clone_task_id
  saved,      \* the clone_tasks setting
  paths,      \* the repo_clone_paths setting: the directory of repo's clone
  disk,       \* work trees on disk, as <<repo, dir>>
  job,        \* job[w]: what worker w is doing
  stuck,      \* history: tasks whose first save failed, so that git never ran
  behind,     \* history: an older list was saved over the current one, or the
              \* current one could not be saved
  latest      \* history: where the last reported clone of a repository went,
              \* None if its path was not stored, or was stored over

vars == <<up, tasks, nextId, saved, paths, disk, job, stuck, behind, latest>>
history == <<stuck, behind, latest>>
-----------------------------------------------------------------------------
Dirs == LocalDirs \cup RemoteDirs
Results == {"running", "succeeded", "failed"}

Task == [id : Nat, repo : Repos, dir : Dirs, status : Results, log : Nat]

Paths == [Repos -> LocalDirs \cup {None}]

(* pc values: where a worker is between two awaits or two lock scopes.      *)
(*   push      a task id is allocated      list     the task is in the list *)
(*   save      about to write its first snapshot                            *)
(*   git       git clone runs              log      a chunk awaits its write*)
(*   exit      git has exited              load     about to load the paths *)
(*   store     about to store the paths    done     about to write the end  *)
(*   clear     clear_clone_tasks has a snapshot to write                    *)
Steps == {"push", "list", "save", "git", "log", "exit", "load", "store", "done", "clear"}

IdleJob == [pc |-> "idle", id |-> 0, repo |-> None, dir |-> None,
            result |-> "running", snap |-> {}, map |-> None]

CloneJobs ==
  [pc : Steps \ {"clear"}, id : Nat, repo : Repos, dir : Dirs,
   result : Results,         \* how git ended, "running" until it did
   snap : SUBSET Task,       \* the snapshot it will write
   map : Paths \cup {None}]  \* the paths it loaded

ClearJobs ==
  [pc : {"clear"}, id : {0}, repo : {None}, dir : {None}, result : {"running"},
   snap : SUBSET Task, map : {None}]

Jobs == CloneJobs \cup ClearJobs

Active(w) == job[w].pc # "idle"
Cloning(w) == job[w].pc \in Steps \ {"clear"}
(* The worker's change is in memory and its snapshot not yet written.      *)
Writing(w) == job[w].pc \in {"list", "save", "log", "load", "store", "done", "clear"}

Becomes(w, j) == job' = [job EXCEPT ![w] = j]
Ends(w) == Becomes(w, IdleJob)

Ids(list) == {t.id : t \in list}
Running(t) == t.status = "running"

(* The list with the task of one id edited.                                *)
WithStatus(list, i, s) == {IF t.id = i THEN [t EXCEPT !.status = s] ELSE t : t \in list}
WithLog(list, i) == {IF t.id = i THEN [t EXCEPT !.log = @ + 1] ELSE t : t \in list}
-----------------------------------------------------------------------------
TypeOK ==
  /\ up \in BOOLEAN
  /\ tasks \subseteq Task /\ saved \subseteq Task
  /\ nextId \in Nat \ {0}
  /\ paths \in Paths /\ latest \in Paths
  /\ disk \subseteq Repos \X Dirs
  /\ job \in [Workers -> Jobs \cup {IdleJob}]
  /\ \A w \in Workers :
       /\ job[w].pc \in {"load", "store"} => job[w].dir \in LocalDirs
       /\ job[w].pc = "store" => job[w].map \in Paths
  /\ stuck \subseteq Nat /\ behind \in BOOLEAN

Init ==
  /\ up = TRUE
  /\ tasks = {} /\ saved = {} /\ nextId = 1
  /\ paths = [r \in Repos |-> None]
  /\ disk = {}
  /\ job = [w \in Workers |-> IdleJob]
  /\ stuck = {} /\ behind = FALSE
  /\ latest = [r \in Repos |-> None]
-----------------------------------------------------------------------------
(* prepare_clone_task: the destination must not exist; then an id is taken.*)
Prepare(w) ==
  /\ up /\ ~Active(w)
  /\ nextId <= MaxTasks
  /\ \E r \in Repos, d \in Dirs :
       /\ <<r, d>> \notin disk
       /\ Becomes(w, [IdleJob EXCEPT !.pc = "push", !.id = nextId, !.repo = r, !.dir = d])
  /\ nextId' = nextId + 1
  /\ UNCHANGED <<up, tasks, saved, paths, disk, history>>

NewTask(w) == [id |-> job[w].id, repo |-> job[w].repo, dir |-> job[w].dir,
               status |-> "running", log |-> 0]

(* push_clone_task, under the lock.                                        *)
Push(w) ==
  /\ job[w].pc = "push"
  /\ tasks' = tasks \cup {NewTask(w)}
  /\ Becomes(w, [job[w] EXCEPT !.pc = "list"])
  /\ UNCHANGED <<up, nextId, saved, paths, disk, history>>

(* persist_clone_tasks locks again for its snapshot.                       *)
Snapshot(w) ==
  /\ job[w].pc = "list"
  /\ Becomes(w, [job[w] EXCEPT !.pc = "save", !.snap = tasks])
  /\ UNCHANGED <<up, tasks, nextId, saved, paths, disk, history>>

(* persist_clone_task_snapshot: one UPSERT of the whole list, which may    *)
(* fail.                                                                   *)
WriteSnapshot(w) ==
  /\ saved' = job[w].snap
  /\ behind' = (job[w].snap # tasks /\ (behind \/ saved = tasks))

WriteFails(w) ==
  /\ UNCHANGED saved
  /\ behind' = (behind \/ (job[w].snap = tasks /\ saved # tasks))

SaveFirst(w) ==
  /\ job[w].pc = "save"
  /\ WriteSnapshot(w)
  /\ Becomes(w, [job[w] EXCEPT !.pc = "git", !.snap = {}])
  /\ UNCHANGED <<up, tasks, nextId, paths, disk, stuck, latest>>

(* The command returns the error before git is spawned: the task stays in  *)
(* the list as running.                                                    *)
SaveFirstFails(w) ==
  /\ job[w].pc = "save"
  /\ WriteFails(w)
  /\ stuck' = stuck \cup {job[w].id}
  /\ Ends(w)
  /\ UNCHANGED <<up, tasks, nextId, paths, disk, latest>>

(* append_clone_log.  A remote clone's output arrives when it has ended.   *)
AppendLog(w) ==
  /\ job[w].pc = "git"
  /\ (job[w].dir \in RemoteDirs) <=> (job[w].result # "running")
  /\ \A t \in tasks : t.id = job[w].id => t.log < MaxLog
  /\ tasks' = WithLog(tasks, job[w].id)
  /\ Becomes(w, [job[w] EXCEPT !.pc = "log", !.snap = tasks'])
  /\ UNCHANGED <<up, nextId, saved, paths, disk, history>>

AfterLog(w) ==
  Becomes(w, [job[w] EXCEPT !.pc = IF job[w].result = "running" THEN "git" ELSE "exit",
                            !.snap = {}])

SaveLog(w) ==
  /\ job[w].pc = "log"
  /\ WriteSnapshot(w) \/ WriteFails(w)
  /\ AfterLog(w)
  /\ UNCHANGED <<up, tasks, nextId, paths, disk, stuck, latest>>

(* git clone ends well.  It refuses a destination that exists by now.      *)
GitSucceeds(w) ==
  /\ job[w].pc = "git" /\ job[w].result = "running"
  /\ <<job[w].repo, job[w].dir>> \notin disk
  /\ disk' = disk \cup {<<job[w].repo, job[w].dir>>}
  /\ \E pc \in {"exit"} \cup (IF job[w].dir \in RemoteDirs THEN {"git"} ELSE {}) :
       Becomes(w, [job[w] EXCEPT !.pc = pc, !.result = "succeeded"])
  /\ UNCHANGED <<up, tasks, nextId, saved, paths, history>>

(* git cannot be started, exits with an error, or the SSH connection to    *)
(* the server is lost; it may have left a directory behind.                *)
GitFails(w) ==
  /\ job[w].pc = "git" /\ job[w].result = "running"
  /\ disk' \in {disk, disk \cup {<<job[w].repo, job[w].dir>>}}
  /\ Becomes(w, [job[w] EXCEPT !.pc = "exit", !.result = "failed"])
  /\ UNCHANGED <<up, tasks, nextId, saved, paths, history>>

(* Mutant of Finish: finds the task by its repository.                     *)
FinishByRepo(w) ==
  /\ job[w].pc = "exit"
  /\ tasks' = {IF t.repo = job[w].repo THEN [t EXCEPT !.status = job[w].result] ELSE t
                : t \in tasks}
  /\ Becomes(w, [job[w] EXCEPT !.pc = "done", !.snap = tasks'])
  /\ UNCHANGED <<up, nextId, saved, paths, disk, history>>

(* finish_clone_task: status and snapshot under the lock.  The path of a   *)
(* clone that succeeded is stored, if it has no ": " in it: the path of a  *)
(* remote clone always has one, behind the server's address.               *)
Finish(w) ==
  /\ job[w].pc = "exit"
  /\ tasks' = WithStatus(tasks, job[w].id, job[w].result)
  /\ LET keep == /\ job[w].result = "succeeded" /\ job[w].dir \in LocalDirs \ ColonDirs
                 /\ job[w].id \in Ids(tasks)
     IN  /\ Becomes(w, [job[w] EXCEPT !.pc = IF keep THEN "load" ELSE "done", !.snap = tasks'])
         /\ latest' = IF keep THEN [latest EXCEPT ![job[w].repo] = job[w].dir] ELSE latest
  /\ UNCHANGED <<up, nextId, saved, paths, disk, stuck, behind>>

(* persist_repo_clone_path: load the map of all repositories, insert one   *)
(* entry, store the map.                                                   *)
LoadPaths(w) ==
  /\ job[w].pc = "load"
  /\ Becomes(w, [job[w] EXCEPT !.pc = "store", !.map = paths])
  /\ UNCHANGED <<up, tasks, nextId, saved, paths, disk, history>>

(* Another clone whose path is the latest one is still to store it.        *)
StillToStore(w, r) ==
  \E v \in Workers \ {w} :
    job[v].pc \in {"load", "store"} /\ job[v].repo = r /\ job[v].dir = latest[r]

(* The store puts back, for the other repositories, what was read.         *)
LatestAfterStore(w) ==
  [r \in Repos |->
     IF StillToStore(w, r) THEN latest[r]
     ELSE IF r = job[w].repo THEN job[w].dir
     ELSE IF job[w].map[r] = paths[r] THEN latest[r] ELSE None]

(* Mutant of StorePaths: forgets the entries it loaded.                    *)
StorePathsAlone(w) ==
  /\ job[w].pc = "store"
  /\ paths' = [r \in Repos |-> IF r = job[w].repo THEN job[w].dir ELSE None]
  /\ latest' = LatestAfterStore(w)
  /\ Becomes(w, [job[w] EXCEPT !.pc = "done", !.map = None])
  /\ UNCHANGED <<up, tasks, nextId, saved, disk, stuck, behind>>

StorePaths(w) ==
  /\ job[w].pc = "store"
  /\ paths' = [job[w].map EXCEPT ![job[w].repo] = job[w].dir]
  /\ latest' = LatestAfterStore(w)
  /\ Becomes(w, [job[w] EXCEPT !.pc = "done", !.map = None])
  /\ UNCHANGED <<up, tasks, nextId, saved, disk, stuck, behind>>

(* "Could not persist repository clone path": logged, and the end of the   *)
(* task is still written.                                                  *)
PathFails(w) ==
  /\ job[w].pc \in {"load", "store"}
  /\ Becomes(w, [job[w] EXCEPT !.pc = "done", !.map = None])
  /\ latest' = IF StillToStore(w, job[w].repo) \/ latest[job[w].repo] # job[w].dir THEN latest
               ELSE [latest EXCEPT ![job[w].repo] = None]
  /\ UNCHANGED <<up, tasks, nextId, saved, paths, disk, stuck, behind>>

(* Mutant of SaveEnd: when the write fails, ends the task again.           *)
SaveEndRetries(w) ==
  /\ job[w].pc = "done"
  /\ \/ WriteSnapshot(w) /\ Ends(w)
     \/ WriteFails(w) /\ Becomes(w, [job[w] EXCEPT !.pc = "exit"])
  /\ UNCHANGED <<up, tasks, nextId, paths, disk, stuck, latest>>

SaveEnd(w) ==
  /\ job[w].pc = "done"
  /\ WriteSnapshot(w) \/ WriteFails(w)
  /\ Ends(w)
  /\ UNCHANGED <<up, tasks, nextId, paths, disk, stuck, latest>>
-----------------------------------------------------------------------------
(* Mutant of Clear: does not write the setting.                            *)
ClearUnsaved(w) ==
  /\ up /\ ~Active(w)
  /\ tasks' = {t \in tasks : Running(t)}
  /\ UNCHANGED <<up, nextId, saved, paths, disk, job, history>>

(* clear_clone_tasks retains the running tasks, then writes what is left.  *)
Clear(w) ==
  /\ up /\ ~Active(w)
  /\ tasks' = {t \in tasks : Running(t)}
  /\ Becomes(w, [IdleJob EXCEPT !.pc = "clear", !.snap = tasks'])
  /\ UNCHANGED <<up, nextId, saved, paths, disk, history>>

SaveClear(w) ==
  /\ job[w].pc = "clear"
  /\ WriteSnapshot(w) \/ WriteFails(w)
  /\ Ends(w)
  /\ UNCHANGED <<up, tasks, nextId, paths, disk, stuck, latest>>

(* The process ends.  A local git that was running may still complete.  A  *)
(* success whose path was not stored yet is lost with the process.         *)
Crash ==
  /\ up /\ up' = FALSE
  /\ tasks' = {} /\ stuck' = {}
  /\ job' = [w \in Workers |-> IdleJob]
  /\ \E done \in SUBSET {<<job[w].repo, job[w].dir>> :
                          w \in {v \in Workers : job[v].pc \in {"git", "log"}}} :
       disk' = disk \cup done
  /\ latest' = [r \in Repos |->
                  IF \E w \in Workers : /\ job[w].pc \in {"load", "store"}
                                       /\ job[w].repo = r /\ job[w].dir = latest[r]
                    THEN None ELSE latest[r]]
  /\ UNCHANGED <<nextId, saved, paths, behind>>

(* Mutant of Interrupted: running tasks are loaded as they are.            *)
NotInterrupted(list) == list

(* load_clone_tasks: "Clone was interrupted before the app closed."        *)
Interrupted(list) == {IF Running(t) THEN [t EXCEPT !.status = "failed"] ELSE t : t \in list}

(* Mutant of FirstId: counts the tasks.                                    *)
FirstIdByCount(n, list) == n = Cardinality(list) + 1

(* AppState::new: one more than the largest id, 1 without any.             *)
FirstId(n, list) ==
  /\ \A i \in Ids(list) : i < n
  /\ n > 1 => n - 1 \in Ids(list)

Restart ==
  /\ ~up /\ up' = TRUE
  /\ tasks' = Interrupted(saved) /\ saved' = Interrupted(saved)
  /\ \E n \in 1..(MaxTasks + 1) : FirstId(n, Interrupted(saved)) /\ nextId' = n
  /\ behind' = FALSE
  /\ UNCHANGED <<paths, disk, job, stuck, latest>>

(* Somebody removes a work tree.                                           *)
UserRemoves(c) ==
  /\ c \in disk
  /\ disk' = disk \ {c}
  /\ UNCHANGED <<up, tasks, nextId, saved, paths, job, history>>
-----------------------------------------------------------------------------
(* What the host itself does once a command or a clone is under way.       *)
Work(w) ==
  \/ Push(w) \/ Snapshot(w) \/ SaveFirst(w) \/ SaveFirstFails(w)
  \/ AppendLog(w) \/ SaveLog(w)
  \/ Finish(w) \/ LoadPaths(w) \/ StorePaths(w) \/ PathFails(w) \/ SaveEnd(w)
  \/ SaveClear(w)

Next ==
  \/ \E w \in Workers : Prepare(w) \/ Clear(w) \/ Work(w) \/ GitSucceeds(w) \/ GitFails(w)
  \/ Crash \/ Restart
  \/ \E c \in disk : UserRemoves(c)

Spec == Init /\ [][Next]_vars

(* The database answers.  Nothing makes git end: a clone has no timeout.   *)
FairSpec == Spec /\ \A w \in Workers : WF_vars(Work(w))
-----------------------------------------------------------------------------
(* No two tasks of a list -- in memory, saved, or in a snapshot about to be*)
(* saved -- have the same id, and the next id is new to all of them, also  *)
(* after ids start over behind a cleared list.                             *)
OneTaskPerId(list) == \A t, u \in list : t.id = u.id => t = u

TaskIdsUnique ==
  /\ OneTaskPerId(tasks) /\ OneTaskPerId(saved)
  /\ up => \A i \in Ids(tasks) \cup Ids(saved) : i < nextId
  /\ \A w \in Workers :
       /\ OneTaskPerId(job[w].snap)
       /\ Active(w) => job[w].id < nextId /\ \A i \in Ids(job[w].snap) : i < nextId
       /\ \A v \in Workers : Cloning(w) /\ Cloning(v) /\ job[w].id = job[v].id => w = v

(* A task is shown as running exactly while its clone is under way, apart  *)
(* from a task whose first save failed: clearing and restarting neither    *)
(* hide a clone in flight nor keep a dead one running.                     *)
Unfinished(w) == job[w].pc \in {"list", "save", "git", "log", "exit"}

RunningIsInFlight ==
  /\ \A t \in tasks : Running(t) =>
       t.id \in stuck \/ \E w \in Workers : Unfinished(w) /\ job[w].id = t.id
  /\ \A w \in Workers : Unfinished(w) =>
       \E t \in tasks : t.id = job[w].id /\ Running(t)

(* What makes the two invariants above inductive.                          *)
DownIsIdle == ~up => \A w \in Workers : job[w] = IdleJob

PushIsNew == \A w \in Workers : job[w].pc = "push" => job[w].id \notin Ids(tasks)

ExitIsKnown == \A w \in Workers : job[w].pc = "exit" => job[w].result # "running"

IInv ==
  /\ TypeOK /\ DownIsIdle /\ PushIsNew /\ ExitIsKnown
  /\ TaskIdsUnique /\ RunningIsInFlight

(* A task that ended keeps its outcome while the host runs.                *)
StatusFinal ==
  [][up /\ up' => \A t \in tasks, u \in tasks' :
       t.id = u.id /\ ~Running(t) => u.status = t.status]_vars

(* With nothing left to write, the setting is the list in memory, unless   *)
(* the write of an older snapshot landed last or that of the newest failed:*)
(* no command or clone leaves a change of the list unsaved, whatever others*)
(* write at the same time.                                                 *)
QuietMeansSaved ==
  up /\ ~behind /\ (\A w \in Workers : ~Writing(w)) => saved = tasks

(* latest_successful_clone_path: the stored path if it is still there,     *)
(* else a task in memory that succeeded on this machine.                   *)
LatestClone(r) ==
  IF paths[r] # None /\ <<r, paths[r]>> \in disk
    THEN {paths[r]}
    ELSE {t.dir : t \in {u \in tasks : /\ u.repo = r /\ u.status = "succeeded"
                                      /\ u.dir \in LocalDirs /\ <<r, u.dir>> \in disk}}

(* With nothing left to write, the latest successful clone of a repository *)
(* that is still on disk is what connecting its remote will find, unless   *)
(* its path was not stored or was stored over: by an older clone of it, or *)
(* by one of another repository that had read the map before.              *)
LatestIsFound ==
  up /\ (\A w \in Workers : ~Writing(w)) =>
    \A r \in Repos : latest[r] # None /\ <<r, latest[r]>> \in disk =>
      latest[r] \in LatestClone(r)

(* Every worker gets to its end, or waits for git.                         *)
WorkersSettle ==
  \A w \in Workers : Active(w) ~> (~Active(w) \/ job[w].pc = "git")
=============================================================================
