-------------------------- MODULE CloneTasksProofs --------------------------
(***************************************************************************)
(* Proofs about CloneTasks for every set of repositories, directories and  *)
(* workers and every bound.                                                *)
(***************************************************************************)
EXTENDS CloneTasks, TLAPS

(* A worker that is busy has a full record; an idle one holds nothing.     *)
LEMMA JobFacts ==
  ASSUME TypeOK, NEW w \in Workers
  PROVE  /\ job[w].pc \in Steps => job[w] \in Jobs
         /\ job[w].pc \notin Steps => job[w] = IdleJob
         /\ job[w].id \in Nat /\ job[w].snap \subseteq Task
         /\ job[w].result \in Results
         /\ Active(w) <=> job[w].pc \in Steps
BY DEF TypeOK, Jobs, CloneJobs, ClearJobs, IdleJob, Steps, Active, Results

LEMMA BecomesFacts ==
  ASSUME TypeOK, NEW w \in Workers, NEW j, Becomes(w, j)
  PROVE  /\ job'[w] = j /\ \A v \in Workers \ {w} : job'[v] = job[v]
         /\ j \in Jobs \cup {IdleJob} => job' \in [Workers -> Jobs \cup {IdleJob}]
BY DEF TypeOK, Becomes

(* Editing the task of one id keeps ids and types.                         *)
LEMMA StatusFacts ==
  ASSUME NEW list \in SUBSET Task, NEW i, NEW s \in Results
  PROVE  /\ WithStatus(list, i, s) \subseteq Task
         /\ OneTaskPerId(list) => OneTaskPerId(WithStatus(list, i, s))
         /\ Ids(WithStatus(list, i, s)) = Ids(list)
         /\ \A t \in WithStatus(list, i, s) : IF t.id = i THEN t.status = s ELSE t \in list
         /\ \A t \in list : t.id # i => t \in WithStatus(list, i, s)
<1> DEFINE e(t) == IF t.id = i THEN [t EXCEPT !.status = s] ELSE t
<1>1. \A t \in list : /\ e(t) \in Task /\ e(t).id = t.id
                      /\ t.id = i => e(t).status = s
                      /\ t.id # i => e(t) = t
  BY DEF Task
<1>2. WithStatus(list, i, s) = {e(t) : t \in list} BY DEF WithStatus
<1> HIDE DEF e
<1> QED BY <1>1, <1>2 DEF OneTaskPerId, Ids

LEMMA LogFacts ==
  ASSUME NEW list \in SUBSET Task, NEW i
  PROVE  /\ WithLog(list, i) \subseteq Task
         /\ OneTaskPerId(list) => OneTaskPerId(WithLog(list, i))
         /\ Ids(WithLog(list, i)) = Ids(list)
         /\ \A t \in WithLog(list, i) : \E u \in list : u.id = t.id /\ u.status = t.status
         /\ \A u \in list : \E t \in WithLog(list, i) : u.id = t.id /\ u.status = t.status
<1> DEFINE e(t) == IF t.id = i THEN [t EXCEPT !.log = @ + 1] ELSE t
<1>1. \A t \in list : e(t) \in Task /\ e(t).id = t.id /\ e(t).status = t.status
  BY DEF Task
<1>2. WithLog(list, i) = {e(t) : t \in list} BY DEF WithLog
<1> HIDE DEF e
<1> QED BY <1>1, <1>2 DEF OneTaskPerId, Ids

(* What TypeOK says of one worker, and that a step which changes one       *)
(* worker's record may check that record alone.                            *)
JobOK(j) ==
  /\ j \in Jobs \cup {IdleJob}
  /\ j.pc \in {"load", "store"} => j.dir \in LocalDirs
  /\ j.pc = "store" => j.map \in Paths

AllJobsOK ==
  /\ job \in [Workers -> Jobs \cup {IdleJob}]
  /\ \A w \in Workers :
       /\ job[w].pc \in {"load", "store"} => job[w].dir \in LocalDirs
       /\ job[w].pc = "store" => job[w].map \in Paths

LEMMA OneJob ==
  ASSUME TypeOK, NEW w \in Workers, NEW j, JobOK(j), Becomes(w, j)
  PROVE  AllJobsOK'
BY DEF TypeOK, Becomes, JobOK, AllJobsOK

LEMMA IdleOK == JobOK(IdleJob)
BY DEF JobOK, IdleJob

(* A cloning worker: its record, and how it may go on.                     *)
LEMMA CloneFacts ==
  ASSUME TypeOK, NEW w \in Workers, job[w].pc \in Steps \ {"clear"}
  PROVE  /\ job[w] \in CloneJobs
         /\ job[w].id \in Nat /\ job[w].repo \in Repos /\ job[w].dir \in Dirs
         /\ job[w].snap \subseteq Task /\ job[w].result \in Results
BY DEF TypeOK, Jobs, CloneJobs, ClearJobs, IdleJob, Steps

LEMMA GoOn ==
  ASSUME TypeOK, NEW w \in Workers, job[w].pc \in Steps \ {"clear"},
         NEW pc \in Steps \ {"clear"}, pc # "store",
         pc = "load" => job[w].dir \in LocalDirs,
         NEW s \in Results, NEW list \in SUBSET Task, NEW m \in Paths \cup {None},
         NEW j \in {[job[w] EXCEPT !.pc = pc], [job[w] EXCEPT !.pc = pc, !.snap = list],
                    [job[w] EXCEPT !.pc = pc, !.result = s],
                    [job[w] EXCEPT !.pc = pc, !.map = m]},
         Becomes(w, j)
  PROVE  AllJobsOK'
<1>1. job[w] \in CloneJobs BY CloneFacts
<1>2. j \in CloneJobs /\ j.pc = pc /\ j.dir = job[w].dir BY <1>1 DEF CloneJobs
<1>3. JobOK(j) BY <1>2 DEF JobOK, Jobs
<1> QED BY <1>3, OneJob

LEMMA WorkType ==
  ASSUME TypeOK, NEW w \in Workers, Work(w) PROVE TypeOK'
<1> DEFINE ListOK == tasks' \subseteq Task
           SavedOK == saved' \subseteq Task /\ behind' \in BOOLEAN
<1> USE DEF history
<1>0. /\ tasks \subseteq Task /\ saved \subseteq Task /\ paths \in Paths
      /\ \A w1 \in Workers : job[w1].snap \subseteq Task
  BY JobFacts DEF TypeOK
<1>1. ASSUME AllJobsOK', ListOK, SavedOK, paths' \in Paths, latest' \in Paths,
             stuck' \subseteq Nat, nextId' = nextId, disk' = disk, up' = up
      PROVE  TypeOK'
  BY <1>1 DEF TypeOK, AllJobsOK
<1>2. TypeOK => /\ paths \in Paths /\ latest \in Paths /\ stuck \subseteq Nat
                /\ behind \in BOOLEAN /\ tasks \subseteq Task /\ saved \subseteq Task
  BY DEF TypeOK
<1>3. Ends(w) => AllJobsOK' BY IdleOK, OneJob DEF Ends
<1>4. WriteSnapshot(w) \/ WriteFails(w) => SavedOK BY <1>0 DEF WriteSnapshot, WriteFails
<1>5. "running" \in Results /\ {} \in SUBSET Task /\ None \in Paths \cup {None}
  BY DEF Results
<1>6. CASE Push(w)
  <2>1. job[w].pc \in Steps \ {"clear"} BY <1>6 DEF Push, Steps
  <2>2. AllJobsOK' BY <1>5, <1>6, <2>1, GoOn DEF Push, Steps
  <2>3. NewTask(w) \in Task BY <1>5, <2>1, CloneFacts DEF NewTask, Task
  <2> QED BY <1>1, <1>2, <1>6, <2>2, <2>3 DEF Push
<1>7. CASE Snapshot(w)
  <2>1. job[w].pc \in Steps \ {"clear"} BY <1>7 DEF Snapshot, Steps
  <2>2. AllJobsOK' BY <1>0, <1>5, <1>7, <2>1, GoOn DEF Snapshot, Steps
  <2> QED BY <1>1, <1>2, <1>7, <2>2 DEF Snapshot
<1>8. CASE SaveFirst(w)
  <2>1. job[w].pc \in Steps \ {"clear"} BY <1>8 DEF SaveFirst, Steps
  <2>2. AllJobsOK' BY <1>5, <1>8, <2>1, GoOn DEF SaveFirst, Steps
  <2> QED BY <1>1, <1>2, <1>4, <1>8, <2>2 DEF SaveFirst
<1>9. CASE SaveFirstFails(w)
  <2>1. job[w].id \in Nat BY JobFacts
  <2> QED BY <1>1, <1>2, <1>3, <1>4, <1>9, <2>1 DEF SaveFirstFails
<1>10. CASE AppendLog(w)
  <2>1. job[w].pc \in Steps \ {"clear"} BY <1>10 DEF AppendLog, Steps
  <2>2. tasks' \subseteq Task BY <1>0, <1>10, LogFacts DEF AppendLog
  <2>3. AllJobsOK' BY <1>5, <1>10, <2>1, <2>2, GoOn DEF AppendLog, Steps
  <2> QED BY <1>1, <1>2, <1>10, <2>2, <2>3 DEF AppendLog
<1>11. CASE SaveLog(w)
  <2>1. job[w].pc \in Steps \ {"clear"} BY <1>11 DEF SaveLog, Steps
  <2>2. PICK pc \in {"git", "exit"} : Becomes(w, [job[w] EXCEPT !.pc = pc, !.snap = {}])
    BY <1>11 DEF SaveLog, AfterLog
  <2>3. AllJobsOK' BY <1>5, <2>1, <2>2, GoOn DEF Steps
  <2> QED BY <1>1, <1>2, <1>4, <1>11, <2>3 DEF SaveLog
<1>12. CASE Finish(w)
  <2>1. job[w].pc \in Steps \ {"clear"} BY <1>12 DEF Finish, Steps
  <2>2. tasks' \subseteq Task BY <1>0, <1>12, <2>1, CloneFacts, StatusFacts DEF Finish
  <2>3. \/ Becomes(w, [job[w] EXCEPT !.pc = "done", !.snap = tasks']) /\ latest' = latest
        \/ /\ job[w].dir \in LocalDirs
           /\ Becomes(w, [job[w] EXCEPT !.pc = "load", !.snap = tasks'])
           /\ latest' = [latest EXCEPT ![job[w].repo] = job[w].dir]
    BY <1>12 DEF Finish
  <2>4. AllJobsOK' BY <1>5, <2>1, <2>2, <2>3, GoOn DEF Steps
  <2>5. latest' \in Paths BY <1>2, <2>3 DEF Paths
  <2> QED BY <1>1, <1>2, <1>12, <2>2, <2>3, <2>4, <2>5 DEF Finish
<1>13. CASE LoadPaths(w)
  <2>1. job[w].pc \in Steps \ {"clear"} BY <1>13 DEF LoadPaths, Steps
  <2>2. job[w] \in CloneJobs /\ job[w].dir \in LocalDirs
    BY <1>13, <2>1, CloneFacts DEF LoadPaths, TypeOK
  <2> DEFINE j == [job[w] EXCEPT !.pc = "store", !.map = paths]
  <2>3. j \in CloneJobs /\ j.dir \in LocalDirs /\ j.map \in Paths
    BY <1>0, <2>2 DEF CloneJobs, Steps
  <2>4. Becomes(w, j) BY <1>13 DEF LoadPaths
  <2> HIDE DEF j
  <2>5. AllJobsOK' BY <2>3, <2>4, OneJob DEF JobOK, Jobs
  <2> QED BY <1>1, <1>2, <1>13, <2>5 DEF LoadPaths
<1>14. CASE StorePaths(w)
  <2>1. job[w].pc \in Steps \ {"clear"} BY <1>14 DEF StorePaths, Steps
  <2>2. AllJobsOK' BY <1>5, <1>14, <2>1, GoOn DEF StorePaths, Steps
  <2>3. job[w].map \in Paths /\ job[w].dir \in LocalDirs
    BY <1>14 DEF StorePaths, TypeOK
  <2>4. paths' \in Paths BY <1>14, <2>3 DEF StorePaths, Paths
  <2>5. latest' \in Paths BY <1>2, <1>14, <2>3 DEF StorePaths, LatestAfterStore, Paths
  <2> QED BY <1>1, <1>2, <1>14, <2>2, <2>4, <2>5 DEF StorePaths
<1>15. CASE PathFails(w)
  <2>1. job[w].pc \in Steps \ {"clear"} BY <1>15 DEF PathFails, Steps
  <2>2. AllJobsOK' BY <1>5, <1>15, <2>1, GoOn DEF PathFails, Steps
  <2>3. latest' \in Paths BY <1>2, <1>15 DEF PathFails, Paths
  <2> QED BY <1>1, <1>2, <1>15, <2>2, <2>3 DEF PathFails
<1>16. CASE SaveEnd(w) BY <1>1, <1>2, <1>3, <1>4, <1>16 DEF SaveEnd
<1>17. CASE SaveClear(w) BY <1>1, <1>2, <1>3, <1>4, <1>17 DEF SaveClear
<1> QED BY <1>6, <1>7, <1>8, <1>9, <1>10, <1>11, <1>12, <1>13, <1>14, <1>15, <1>16, <1>17
        DEF Work

LEMMA GitType ==
  ASSUME TypeOK, NEW w \in Workers, GitSucceeds(w) \/ GitFails(w) PROVE TypeOK'
<1>1. job[w].pc \in Steps \ {"clear"} BY DEF GitSucceeds, GitFails, Steps
<1>2. <<job[w].repo, job[w].dir>> \in Repos \X Dirs BY <1>1, CloneFacts
<1>3. PICK pc \in {"git", "exit"}, s \in Results :
        Becomes(w, [job[w] EXCEPT !.pc = pc, !.result = s])
  BY DEF GitSucceeds, GitFails, Results
<1>4. AllJobsOK'
  <2>1. {} \in SUBSET Task /\ None \in Paths \cup {None} OBVIOUS
  <2> QED BY <1>1, <1>3, <2>1, GoOn DEF Steps
<1>5. disk' \subseteq Repos \X Dirs BY <1>2 DEF GitSucceeds, GitFails, TypeOK
<1> QED BY <1>4, <1>5 DEF GitSucceeds, GitFails, TypeOK, AllJobsOK, history

LEMMA CommandType ==
  ASSUME TypeOK, NEW w \in Workers, Prepare(w) \/ Clear(w) PROVE TypeOK'
<1>1. CASE Prepare(w)
  <2>1. PICK r \in Repos, d \in Dirs :
          Becomes(w, [IdleJob EXCEPT !.pc = "push", !.id = nextId, !.repo = r, !.dir = d])
    BY <1>1 DEF Prepare
  <2> DEFINE j == [IdleJob EXCEPT !.pc = "push", !.id = nextId, !.repo = r, !.dir = d]
  <2>2. JobOK(j)
    BY DEF JobOK, IdleJob, Jobs, CloneJobs, Steps, Results, TypeOK
  <2> HIDE DEF j
  <2>3. AllJobsOK' BY <2>1, <2>2, OneJob DEF j
  <2>4. nextId' \in Nat \ {0}
    <3>1. nextId' = nextId + 1 BY <1>1 DEF Prepare
    <3>2. nextId \in Nat \ {0} BY DEF TypeOK
    <3> QED BY <3>1, <3>2
  <2>5. UNCHANGED <<up, tasks, saved, paths, disk, stuck, behind, latest>>
    BY <1>1 DEF Prepare, history
  <2> QED BY <2>3, <2>4, <2>5 DEF TypeOK, AllJobsOK
<1>2. CASE Clear(w)
  <2> DEFINE j == [IdleJob EXCEPT !.pc = "clear", !.snap = tasks']
  <2>1. tasks' \subseteq Task BY <1>2 DEF Clear, TypeOK
  <2>2. JobOK(j) BY <2>1 DEF JobOK, IdleJob, Jobs, ClearJobs
  <2>3. Becomes(w, j) BY <1>2 DEF Clear
  <2> HIDE DEF j
  <2>4. AllJobsOK' BY <2>2, <2>3, OneJob
  <2> QED BY <1>2, <2>1, <2>4 DEF Clear, TypeOK, AllJobsOK, history
<1> QED BY <1>1, <1>2

LEMMA EnvironmentType ==
  ASSUME TypeOK, Crash \/ Restart \/ \E c \in disk : UserRemoves(c) PROVE TypeOK'
<1>1. CASE Crash
  <2>1. AllJobsOK' BY <1>1 DEF Crash, AllJobsOK, IdleJob
  <2>2. \A w \in Workers : job[w].pc \in {"git", "log"} =>
          <<job[w].repo, job[w].dir>> \in Repos \X Dirs
    BY CloneFacts DEF Steps
  <2>3. disk' \subseteq Repos \X Dirs BY <1>1, <2>2 DEF Crash, TypeOK
  <2>4. latest' \in Paths BY <1>1 DEF Crash, TypeOK, Paths
  <2> QED BY <1>1, <2>1, <2>3, <2>4 DEF Crash, TypeOK, AllJobsOK
<1>2. CASE Restart
  <2>1. Interrupted(saved) \subseteq Task BY DEF Interrupted, TypeOK, Task, Results
  <2>2. nextId' \in Nat \ {0} BY <1>2, CloneTasksAssumption DEF Restart
  <2> QED BY <1>2, <2>1, <2>2 DEF Restart, TypeOK
<1>3. ASSUME NEW c \in disk, UserRemoves(c) PROVE TypeOK'
  BY <1>3 DEF UserRemoves, TypeOK, history
<1> QED BY <1>1, <1>2, <1>3

LEMMA TypeStep == TypeOK /\ [Next]_vars => TypeOK'
<1>1. CASE UNCHANGED vars BY <1>1 DEF TypeOK, vars
<1> QED BY <1>1, WorkType, GitType, CommandType, EnvironmentType DEF Next

LEMMA TypeInit == Init => TypeOK
<1> SUFFICES ASSUME Init PROVE TypeOK OBVIOUS
<1>1. paths \in Paths /\ latest \in Paths BY DEF Init, Paths
<1>2. \A w \in Workers : job[w] = IdleJob BY DEF Init
<1>3. job \in [Workers -> Jobs \cup {IdleJob}] BY DEF Init
<1>4. nextId \in Nat \ {0} /\ tasks = {} /\ saved = {} /\ disk = {} /\ stuck = {}
  BY DEF Init
<1>5. up \in BOOLEAN /\ behind \in BOOLEAN BY Zenon DEF Init
<1> QED BY <1>1, <1>2, <1>3, <1>4, <1>5 DEF TypeOK, IdleJob

(* The list, its saved copy, the snapshots on their way to it and the      *)
(* stored paths keep their types; no path on a server is stored as a path  *)
(* of this machine.                                                        *)
THEOREM TypeCorrect == Spec => []TypeOK
BY TypeInit, TypeStep, PTL DEF Spec
-----------------------------------------------------------------------------
(* The inductive invariant without the types.                              *)
Safe == DownIsIdle /\ PushIsNew /\ ExitIsKnown /\ TaskIdsUnique /\ RunningIsInFlight

OnlyJob(w) == \A v \in Workers \ {w} : job'[v] = job[v]

(* What a step did to the worker's record, field by field.                 *)
LEMMA PcFacts ==
  ASSUME TypeOK, NEW w \in Workers, NEW pc, 
         job[w].pc \in Steps \ {"clear"}, Becomes(w, [job[w] EXCEPT !.pc = pc])
  PROVE  /\ OnlyJob(w) /\ job'[w].pc = pc /\ job'[w].id = job[w].id
         /\ job'[w].snap = job[w].snap /\ job'[w].result = job[w].result
<1>1. job[w] \in CloneJobs BY CloneFacts
<1>2. job'[w] = [job[w] EXCEPT !.pc = pc] /\ OnlyJob(w) BY BecomesFacts DEF OnlyJob
<1> QED BY <1>1, <1>2 DEF CloneJobs

LEMMA SnapFacts ==
  ASSUME TypeOK, NEW w \in Workers, NEW pc, NEW list,
         job[w].pc \in Steps \ {"clear"}, Becomes(w, [job[w] EXCEPT !.pc = pc, !.snap = list])
  PROVE  /\ OnlyJob(w) /\ job'[w].pc = pc /\ job'[w].id = job[w].id
         /\ job'[w].snap = list /\ job'[w].result = job[w].result
<1>1. job[w] \in CloneJobs BY CloneFacts
<1>2. job'[w] = [job[w] EXCEPT !.pc = pc, !.snap = list] /\ OnlyJob(w) BY BecomesFacts DEF OnlyJob
<1> QED BY <1>1, <1>2 DEF CloneJobs

LEMMA ResultFacts ==
  ASSUME TypeOK, NEW w \in Workers, NEW pc, NEW s,
         job[w].pc \in Steps \ {"clear"}, Becomes(w, [job[w] EXCEPT !.pc = pc, !.result = s])
  PROVE  /\ OnlyJob(w) /\ job'[w].pc = pc /\ job'[w].id = job[w].id
         /\ job'[w].snap = job[w].snap /\ job'[w].result = s
<1>1. job[w] \in CloneJobs BY CloneFacts
<1>2. job'[w] = [job[w] EXCEPT !.pc = pc, !.result = s] /\ OnlyJob(w) BY BecomesFacts DEF OnlyJob
<1> QED BY <1>1, <1>2 DEF CloneJobs

LEMMA MapFacts ==
  ASSUME TypeOK, NEW w \in Workers, NEW pc, NEW m,
         job[w].pc \in Steps \ {"clear"}, Becomes(w, [job[w] EXCEPT !.pc = pc, !.map = m])
  PROVE  /\ OnlyJob(w) /\ job'[w].pc = pc /\ job'[w].id = job[w].id
         /\ job'[w].snap = job[w].snap /\ job'[w].result = job[w].result
<1>1. job[w] \in CloneJobs BY CloneFacts
<1>2. job'[w] = [job[w] EXCEPT !.pc = pc, !.map = m] /\ OnlyJob(w) BY BecomesFacts DEF OnlyJob
<1> QED BY <1>1, <1>2 DEF CloneJobs

LEMMA EndFacts ==
  ASSUME TypeOK, NEW w \in Workers, Ends(w)
  PROVE  OnlyJob(w) /\ job'[w] = IdleJob
BY BecomesFacts DEF Ends, OnlyJob

(* A busy worker means the host runs.                                      *)
LEMMA BusyIsUp ==
  ASSUME Safe, NEW w \in Workers, job[w].pc \in Steps PROVE up
BY DEF Safe, DownIsIdle, IdleJob, Steps

(* A step of one worker that edits the list in place -- no new ids -- and  *)
(* writes at most its own snapshot.                                        *)
LEMMA EditStep ==
  ASSUME TypeOK, Safe, NEW w \in Workers, job[w].pc \in Steps, OnlyJob(w),
         up' = up, nextId' = nextId,
         OneTaskPerId(tasks'), Ids(tasks') \subseteq Ids(tasks),
         saved' \in {saved, job[w].snap},
         job'[w].snap \in {{}, job[w].snap, tasks, tasks'},
         job'[w] = IdleJob \/
           /\ job'[w].pc \in Steps \ {"push"} /\ job'[w].id = job[w].id
           /\ Cloning(w)
           /\ Unfinished(w)' => Unfinished(w)
           /\ job'[w].pc = "exit" => job'[w].result # "running",
         stuck \subseteq stuck',
         \A t \in tasks' : Running(t) =>
           \E u \in tasks : Running(u) /\ u.id = t.id,
         Unfinished(w) => Unfinished(w)' \/ job[w].id \in stuck'
                            \/ \A t \in tasks' : t.id = job[w].id => ~Running(t),
         \A t \in tasks : Running(t) =>
           \/ \E u \in tasks' : Running(u) /\ u.id = t.id
           \/ t.id = job[w].id /\ ~Unfinished(w)' /\ Cloning(w)
  PROVE  Safe'
<1> USE DEF Safe
<1>1. up BY BusyIsUp
<1>2. DownIsIdle' BY <1>1 DEF DownIsIdle
<1>3. PushIsNew' BY DEF PushIsNew, OnlyJob, IdleJob
<1>4. ExitIsKnown' BY DEF ExitIsKnown, OnlyJob, IdleJob
<1>5. TaskIdsUnique'
  <2>1. OneTaskPerId(saved') BY DEF TaskIdsUnique
  <2>2. \A i \in Ids(tasks') \cup Ids(saved') : i < nextId
    BY <1>1 DEF TaskIdsUnique, Active, Steps
  <2>3. OneTaskPerId(job'[w].snap) /\ \A i \in Ids(job'[w].snap) : i < nextId
    <3>1. OneTaskPerId({}) /\ Ids({}) = {} BY DEF OneTaskPerId, Ids
    <3> HIDE DEF Ids, OneTaskPerId
    <3> QED BY <1>1, <2>2, <3>1 DEF TaskIdsUnique, Active, Steps
  <2>4. \A v \in Workers : Cloning(v)' => Cloning(v) /\ job'[v].id = job[v].id
    BY DEF Cloning, OnlyJob, IdleJob, Steps
  <2>5. \A v \in Workers : Active(v)' => Active(v) /\ job'[v].id = job[v].id
    BY DEF Active, OnlyJob, IdleJob, Steps
  <2> HIDE DEF Cloning, Active, Ids, OneTaskPerId
  <2>6. \A v \in Workers : OneTaskPerId(job'[v].snap)
          /\ (Active(v)' => job'[v].id < nextId /\ \A i \in Ids(job'[v].snap) : i < nextId)
    BY <2>3, <2>5 DEF TaskIdsUnique, OnlyJob
  <2> QED BY <2>1, <2>2, <2>4, <2>6 DEF TaskIdsUnique
<1>6. RunningIsInFlight'
  <2>1. \A v \in Workers \ {w} : Unfinished(v)' <=> Unfinished(v)
    BY DEF Unfinished, OnlyJob
  <2>2. Unfinished(w)' => Unfinished(w) /\ job'[w].id = job[w].id
    BY DEF Unfinished, IdleJob
  <2>3. \A v \in Workers : Unfinished(v) => Cloning(v) BY DEF Unfinished, Cloning, Steps
  <2>4. \A v \in Workers : Cloning(w) /\ Cloning(v) /\ job[w].id = job[v].id => w = v
    BY DEF TaskIdsUnique
  <2> HIDE DEF Unfinished, Cloning, Running
  <2>5. \A t \in tasks' : Running(t) =>
          t.id \in stuck' \/ \E v \in Workers : Unfinished(v)' /\ job'[v].id = t.id
    <3> SUFFICES ASSUME NEW t \in tasks', Running(t)
                 PROVE  t.id \in stuck' \/ \E v \in Workers : Unfinished(v)' /\ job'[v].id = t.id
      OBVIOUS
    <3>1. PICK u \in tasks : Running(u) /\ u.id = t.id OBVIOUS
    <3>2. CASE t.id \in stuck BY <3>2
    <3>3. ASSUME NEW v \in Workers, Unfinished(v), job[v].id = t.id
          PROVE  t.id \in stuck' \/ (Unfinished(v)' /\ job'[v].id = t.id)
      <4>1. CASE v = w BY <2>2, <3>3, <4>1 DEF Cloning, OnlyJob, IdleJob
      <4>2. CASE v # w BY <2>1, <3>3, <4>2 DEF OnlyJob
      <4> QED BY <4>1, <4>2
    <3> QED BY <3>1, <3>2, <3>3 DEF RunningIsInFlight
  <2>6. \A v \in Workers : Unfinished(v)' => \E t \in tasks' : t.id = job'[v].id /\ Running(t)
    <3> SUFFICES ASSUME NEW v \in Workers, Unfinished(v)'
                 PROVE  \E t \in tasks' : t.id = job'[v].id /\ Running(t)
      OBVIOUS
    <3>1. Unfinished(v) /\ job'[v].id = job[v].id BY <2>1, <2>2 DEF OnlyJob
    <3>2. PICK t \in tasks : t.id = job[v].id /\ Running(t)
      BY <3>1 DEF RunningIsInFlight
    <3> QED BY <2>3, <2>4, <3>1, <3>2
  <2> QED BY <2>5, <2>6 DEF RunningIsInFlight, Running
<1> QED BY <1>2, <1>3, <1>4, <1>5, <1>6

LEMMA WorkSafe ==
  ASSUME TypeOK, Safe, NEW w \in Workers, Work(w) PROVE Safe'
<1> USE DEF history
<1>1. job[w].pc \in Steps
  BY DEF Work, Push, Snapshot, SaveFirst, SaveFirstFails, AppendLog, SaveLog, Finish,
         LoadPaths, StorePaths, PathFails, SaveEnd, SaveClear, Steps
<1>2. OneTaskPerId(tasks) /\ tasks \subseteq Task BY DEF Safe, TaskIdsUnique, TypeOK
<1>3. \A t \in tasks : Running(t) => \E u \in tasks : Running(u) /\ u.id = t.id OBVIOUS
(* Steps that leave the list alone.                                        *)
<1>4. ASSUME UNCHANGED <<up, nextId, tasks>>, OnlyJob(w),
             saved' \in {saved, job[w].snap}, stuck \subseteq stuck',
             job'[w].snap \in {{}, job[w].snap, tasks},
             job'[w] = IdleJob \/
               /\ job'[w].pc \in Steps \ {"push"} /\ job'[w].id = job[w].id
               /\ Cloning(w)
               /\ Unfinished(w)' => Unfinished(w)
               /\ job'[w].pc = "exit" => job'[w].result # "running",
             Unfinished(w) => Unfinished(w)' \/ job[w].id \in stuck'
      PROVE  Safe'
  <2> HIDE DEF Running
  <2> QED BY <1>1, <1>2, <1>3, <1>4, EditStep
<1>5. CASE Push(w)
  <2> DEFINE i == job[w].id
  <2>0. job[w].pc \in Steps \ {"clear"} BY <1>5 DEF Push, Steps
  <2>1. /\ OnlyJob(w) /\ job'[w].pc = "list" /\ job'[w].id = i /\ job'[w].snap = job[w].snap
        /\ job'[w].result = job[w].result
    BY <1>5, <2>0, PcFacts DEF Push
  <2>2. /\ tasks' = tasks \cup {NewTask(w)} /\ NewTask(w).id = i /\ Running(NewTask(w))
        /\ UNCHANGED <<up, nextId, saved, stuck>>
    BY <1>5 DEF Push, NewTask, Running
  <2>3. i \notin Ids(tasks) /\ i < nextId /\ up
    BY <1>1, <1>5, BusyIsUp DEF Push, Safe, PushIsNew, TaskIdsUnique, Active
  <2>4. \A v \in Workers : Cloning(w) /\ Cloning(v) /\ job[w].id = job[v].id => w = v
    BY DEF Safe, TaskIdsUnique
  <2>5. DownIsIdle' BY <2>2, <2>3 DEF DownIsIdle
  <2>6. PushIsNew'
    <3>1. \A v \in Workers \ {w} : job[v].pc = "push" => job[v].id # i /\ job[v].id \notin Ids(tasks)
      BY <1>5, <2>4 DEF Push, Cloning, Steps, Safe, PushIsNew
    <3>2. Ids(tasks') = Ids(tasks) \cup {i} BY <2>2 DEF Ids
    <3> QED BY <2>1, <3>1, <3>2 DEF PushIsNew, OnlyJob
  <2>7. ExitIsKnown' BY <2>1 DEF Safe, ExitIsKnown, OnlyJob
  <2>8. TaskIdsUnique'
    <3>1. OneTaskPerId(tasks') BY <1>2, <2>2, <2>3 DEF OneTaskPerId, Ids
    <3>2. Ids(tasks') = Ids(tasks) \cup {i} BY <2>2 DEF Ids
    <3>3. \A v \in Workers : /\ Active(v)' <=> Active(v)
                             /\ Cloning(v)' <=> Cloning(v)
                             /\ job'[v].id = job[v].id /\ job'[v].snap = job[v].snap
      BY <1>5, <2>1 DEF Active, Cloning, OnlyJob, Push, Steps
    <3> HIDE DEF Active, Cloning, OneTaskPerId, Ids, i
    <3> QED BY <2>2, <2>3, <3>1, <3>2, <3>3 DEF Safe, TaskIdsUnique
  <2>9. RunningIsInFlight'
    <3>1. \A v \in Workers : Unfinished(v) => Unfinished(v)' /\ job'[v].id = job[v].id
      BY <2>1 DEF Unfinished, OnlyJob
    <3>2. \A v \in Workers : Unfinished(v)' => Unfinished(v) \/ v = w
      BY <2>1 DEF Unfinished, OnlyJob
    <3>3. Unfinished(w)' BY <2>1 DEF Unfinished
    <3> HIDE DEF Unfinished, Running, i
    <3> QED BY <2>1, <2>2, <3>1, <3>2, <3>3 DEF Safe, RunningIsInFlight, OnlyJob
  <2> QED BY <2>5, <2>6, <2>7, <2>8, <2>9 DEF Safe
<1>6. CASE Snapshot(w)
  <2>0. job[w].pc \in Steps \ {"clear"} BY <1>6 DEF Snapshot, Steps
  <2>1. OnlyJob(w) /\ job'[w].pc = "save" /\ job'[w].id = job[w].id /\ job'[w].snap = tasks
    BY ZenonT(60), <1>6, <2>0, SnapFacts DEF Snapshot
  <2> QED BY <1>4, <1>6, <2>1 DEF Snapshot, Unfinished, Cloning, Steps
<1>7. CASE SaveFirst(w)
  <2>0. job[w].pc \in Steps \ {"clear"} BY <1>7 DEF SaveFirst, Steps
  <2>1. OnlyJob(w) /\ job'[w].pc = "git" /\ job'[w].id = job[w].id /\ job'[w].snap = {}
    BY ZenonT(60), <1>7, <2>0, SnapFacts DEF SaveFirst
  <2> QED BY <1>4, <1>7, <2>1 DEF SaveFirst, WriteSnapshot, Unfinished, Cloning, Steps
<1>8. CASE SaveFirstFails(w)
  <2>1. OnlyJob(w) /\ job'[w] = IdleJob BY <1>8, EndFacts DEF SaveFirstFails
  <2>2. job'[w].snap = {} BY <2>1 DEF IdleJob
  <2> QED BY <1>4, <1>8, <2>1, <2>2 DEF SaveFirstFails, WriteFails
<1>9. CASE AppendLog(w)
  <2>0. job[w].pc \in Steps \ {"clear"} BY <1>9 DEF AppendLog, Steps
  <2>1. OnlyJob(w) /\ job'[w].pc = "log" /\ job'[w].id = job[w].id /\ job'[w].snap = tasks'
    BY ZenonT(60), <1>9, <2>0, SnapFacts DEF AppendLog
  <2>2. /\ OneTaskPerId(tasks') /\ Ids(tasks') = Ids(tasks)
        /\ \A t \in tasks' : \E u \in tasks : u.id = t.id /\ u.status = t.status
        /\ \A u \in tasks : \E t \in tasks' : u.id = t.id /\ u.status = t.status
    BY <1>2, <1>9, LogFacts DEF AppendLog
  <2>3. /\ \A t \in tasks' : Running(t) => \E u \in tasks : Running(u) /\ u.id = t.id
        /\ \A t \in tasks : Running(t) => \E u \in tasks' : Running(u) /\ u.id = t.id
    BY <2>2 DEF Running
  <2>4. UNCHANGED <<up, nextId, saved, stuck>> BY <1>9 DEF AppendLog
  <2>5. Unfinished(w) /\ Unfinished(w)' /\ Cloning(w) /\ job'[w].pc \in Steps \ {"push"}
        /\ job'[w].pc # "exit"
    BY <1>9, <2>1 DEF AppendLog, Unfinished, Cloning, Steps
  <2> HIDE DEF Running, Unfinished, Cloning
  <2> QED BY <1>1, <2>1, <2>2, <2>3, <2>4, <2>5, EditStep
<1>10. CASE SaveLog(w)
  <2>0. job[w].pc \in Steps \ {"clear"} BY <1>10 DEF SaveLog, Steps
  <2>1. /\ OnlyJob(w) /\ job'[w].id = job[w].id /\ job'[w].snap = {}
        /\ job'[w].result = job[w].result
        /\ job'[w].pc = IF job[w].result = "running" THEN "git" ELSE "exit"
    <3>1. PICK pc \in {"git", "exit"} :
                  /\ pc = IF job[w].result = "running" THEN "git" ELSE "exit"
                  /\ Becomes(w, [job[w] EXCEPT !.pc = pc, !.snap = {}])
      BY <1>10 DEF SaveLog, AfterLog
    <3>2. /\ OnlyJob(w) /\ job'[w].pc = pc /\ job'[w].id = job[w].id
          /\ job'[w].snap = {} /\ job'[w].result = job[w].result
      BY ZenonT(60), <2>0, <3>1, SnapFacts
    <3> QED BY <3>1, <3>2
  <2>2. saved' \in {saved, job[w].snap} BY <1>10 DEF SaveLog, WriteSnapshot, WriteFails
  <2> QED BY <1>4, <1>10, <2>1, <2>2 DEF SaveLog, Unfinished, Cloning, Steps
<1>11. CASE Finish(w)
  <2>0. job[w].pc \in Steps \ {"clear"} BY <1>11 DEF Finish, Steps
  <2>1. OnlyJob(w) /\ job'[w].pc \in {"load", "done"} /\ job'[w].id = job[w].id
        /\ job'[w].snap = tasks'
    <3>1. PICK pc \in {"load", "done"} :
            Becomes(w, [job[w] EXCEPT !.pc = pc, !.snap = tasks'])
      BY <1>11 DEF Finish
    <3> QED BY ZenonT(60), <2>0, <3>1, SnapFacts
  <2>2. job[w].result \in Results /\ job[w].result # "running"
    BY <1>11, <2>0, CloneFacts DEF Finish, Safe, ExitIsKnown
  <2>3. tasks' = WithStatus(tasks, job[w].id, job[w].result) /\ UNCHANGED <<up, nextId, saved, stuck>>
    BY <1>11 DEF Finish
  <2>4. /\ OneTaskPerId(tasks') /\ Ids(tasks') = Ids(tasks)
        /\ \A t \in tasks' : IF t.id = job[w].id THEN ~Running(t) ELSE t \in tasks
        /\ \A t \in tasks : t.id # job[w].id => t \in tasks'
    BY <1>2, <2>2, <2>3, StatusFacts DEF Running
  <2>5. ~Unfinished(w)' /\ Cloning(w) /\ job'[w].pc \in Steps \ {"push"} /\ job'[w].pc # "exit"
    BY <1>11, <2>1 DEF Finish, Unfinished, Cloning, Steps
  <2> HIDE DEF Running, Unfinished, Cloning
  <2>6. /\ \A t \in tasks' : Running(t) => \E u \in tasks : Running(u) /\ u.id = t.id
        /\ \A t \in tasks : Running(t) =>
             (\E u \in tasks' : Running(u) /\ u.id = t.id) \/ t.id = job[w].id
        /\ \A t \in tasks' : t.id = job[w].id => ~Running(t)
    BY <2>4
  <2> QED BY <1>1, <2>1, <2>3, <2>4, <2>5, <2>6, EditStep
<1>12. CASE LoadPaths(w)
  <2>0. job[w].pc \in Steps \ {"clear"} BY <1>12 DEF LoadPaths, Steps
  <2>1. OnlyJob(w) /\ job'[w].pc = "store" /\ job'[w].id = job[w].id /\ job'[w].snap = job[w].snap
    BY <1>12, <2>0, MapFacts DEF LoadPaths
  <2> QED BY <1>4, <1>12, <2>1 DEF LoadPaths, Unfinished, Cloning, Steps
<1>13. CASE StorePaths(w) \/ PathFails(w)
  <2>0. job[w].pc \in Steps \ {"clear"} BY <1>13 DEF StorePaths, PathFails, Steps
  <2>1. OnlyJob(w) /\ job'[w].pc = "done" /\ job'[w].id = job[w].id /\ job'[w].snap = job[w].snap
    BY <1>13, <2>0, MapFacts DEF StorePaths, PathFails
  <2> QED BY <1>4, <1>13, <2>1 DEF StorePaths, PathFails, Unfinished, Cloning, Steps
<1>14. CASE SaveEnd(w) \/ SaveClear(w)
  <2>1. OnlyJob(w) /\ job'[w] = IdleJob BY <1>14, EndFacts DEF SaveEnd, SaveClear
  <2>2. job'[w].snap = {} BY <2>1 DEF IdleJob
  <2>3. saved' \in {saved, job[w].snap} BY <1>14 DEF SaveEnd, SaveClear, WriteSnapshot, WriteFails
  <2> QED BY <1>4, <1>14, <2>1, <2>2, <2>3 DEF SaveEnd, SaveClear, Unfinished
<1> QED BY <1>5, <1>6, <1>7, <1>8, <1>9, <1>10, <1>11, <1>12, <1>13, <1>14 DEF Work

LEMMA GitSafe ==
  ASSUME TypeOK, Safe, NEW w \in Workers, GitSucceeds(w) \/ GitFails(w) PROVE Safe'
<1>1. job[w].pc = "git" /\ job[w].pc \in Steps \ {"clear"} /\ job[w].pc \in Steps
  BY DEF GitSucceeds, GitFails, Steps
<1>2. UNCHANGED <<up, nextId, tasks, saved, stuck>> BY DEF GitSucceeds, GitFails, history
<1>3. PICK pc \in {"git", "exit"}, s \in {"succeeded", "failed"} :
        Becomes(w, [job[w] EXCEPT !.pc = pc, !.result = s])
  BY DEF GitSucceeds, GitFails
<1>4. /\ OnlyJob(w) /\ job'[w].pc = pc /\ job'[w].id = job[w].id
      /\ job'[w].snap = job[w].snap /\ job'[w].result = s
  BY <1>1, <1>3, ResultFacts
<1>5. Unfinished(w) /\ Unfinished(w)' /\ Cloning(w) /\ job'[w].pc \in Steps \ {"push"}
  BY <1>1, <1>4 DEF Unfinished, Cloning, Steps
<1>6. OneTaskPerId(tasks) BY DEF Safe, TaskIdsUnique
<1> HIDE DEF Unfinished, Cloning, Running
<1> QED BY <1>1, <1>2, <1>4, <1>5, <1>6, EditStep

(* A command takes an idle worker: nobody else has its id.                 *)
LEMMA CommandSafe ==
  ASSUME TypeOK, Safe, NEW w \in Workers, Prepare(w) \/ Clear(w) PROVE Safe'
<1> USE DEF Safe
<1>1. up /\ up' /\ job[w].pc \notin Steps /\ UNCHANGED <<saved, stuck>>
  <2>1. up /\ up' = up /\ ~Active(w) /\ UNCHANGED <<saved, stuck>>
    <3>1. CASE Prepare(w) BY <3>1 DEF Prepare, history
    <3>2. CASE Clear(w) BY <3>2 DEF Clear, history
    <3> QED BY <3>1, <3>2
  <2> QED BY <2>1 DEF Active, Steps
<1>2. DownIsIdle' BY <1>1 DEF DownIsIdle
<1>3. CASE Prepare(w)
  <2>1. PICK r \in Repos, d \in Dirs :
          Becomes(w, [IdleJob EXCEPT !.pc = "push", !.id = nextId, !.repo = r, !.dir = d])
    BY <1>3 DEF Prepare
  <2>2. OnlyJob(w) /\ job'[w].pc = "push" /\ job'[w].id = nextId /\ job'[w].snap = {}
    <3>1. /\ job'[w] = [IdleJob EXCEPT !.pc = "push", !.id = nextId, !.repo = r, !.dir = d]
          /\ OnlyJob(w)
      BY <2>1, BecomesFacts DEF OnlyJob
    <3> QED BY <3>1 DEF IdleJob
  <2>3. tasks' = tasks /\ nextId' = nextId + 1 /\ nextId \in Nat
    BY <1>3 DEF Prepare, TypeOK
  <2>4. \A i \in Ids(tasks) \cup Ids(saved) : i \in Nat /\ i < nextId
    BY <1>1 DEF TaskIdsUnique, TypeOK, Task, Ids
  <2>5. \A v \in Workers : Active(v) => /\ job[v].id \in Nat /\ job[v].id < nextId
                                        /\ \A i \in Ids(job[v].snap) : i \in Nat /\ i < nextId
    <3>1. \A v \in Workers : job[v].id \in Nat /\ job[v].snap \subseteq Task BY JobFacts
    <3>2. \A v \in Workers : \A i \in Ids(job[v].snap) : i \in Nat BY <3>1 DEF Ids, Task
    <3> HIDE DEF Ids, Active
    <3> QED BY <3>1, <3>2 DEF TaskIdsUnique
  <2>6. PushIsNew'
    <3>1. nextId \notin Ids(tasks) BY <2>3, <2>4
    <3> HIDE DEF Ids
    <3> QED BY <2>2, <2>3, <3>1 DEF PushIsNew, OnlyJob, Ids
  <2>7. ExitIsKnown' BY <2>2 DEF ExitIsKnown, OnlyJob
  <2>8. TaskIdsUnique'
    <3>1. OneTaskPerId({}) /\ Ids({}) = {} BY DEF OneTaskPerId, Ids
    <3>2. /\ \A v \in Workers \ {w} : /\ Cloning(v)' <=> Cloning(v)
                                      /\ Active(v)' <=> Active(v)
          /\ \A v \in Workers : Cloning(v) => Active(v)
      BY <2>2 DEF Cloning, Active, OnlyJob, Steps
    <3>3. Ids(tasks)' = Ids(tasks) /\ Ids(saved)' = Ids(saved) BY <1>1, <2>3
    <3> HIDE DEF Cloning, Active, Ids, OneTaskPerId
    <3>4. \A i \in Ids(tasks') \cup Ids(saved') : i < nextId'
      BY <1>1, <2>3, <2>4
    <3>5. \A v \in Workers : /\ OneTaskPerId(job'[v].snap)
                             /\ Active(v)' => job'[v].id < nextId'
                                  /\ \A i \in Ids(job'[v].snap) : i < nextId'
      <4>1. CASE TRUE
        <5>1. ASSUME NEW v \in Workers, v # w, Active(v)'
              PROVE  job'[v].id < nextId' /\ \A i \in Ids(job'[v].snap) : i < nextId'
          BY <2>2, <2>3, <2>5, <3>2, <5>1 DEF OnlyJob
        <5>2. OneTaskPerId(job'[w].snap) /\ job'[w].id < nextId'
              /\ \A i \in Ids(job'[w].snap) : i < nextId'
          BY <2>2, <2>3, <3>1
        <5>3. \A v \in Workers \ {w} : OneTaskPerId(job'[v].snap)
          BY <2>2 DEF TaskIdsUnique, OnlyJob
        <5> QED BY <5>1, <5>2, <5>3
      <4> QED BY <4>1
    <3>6. \A u, v \in Workers :
            Cloning(u)' /\ Cloning(v)' /\ job'[u].id = job'[v].id => u = v
      <4>1. \A v \in Workers \ {w} : Cloning(v)' => job'[v].id # nextId /\ job'[v].id = job[v].id
        BY <2>2, <2>3, <2>5, <3>2 DEF OnlyJob
      <4> QED BY <2>2, <3>2, <4>1 DEF TaskIdsUnique
    <3>7. OneTaskPerId(tasks') /\ OneTaskPerId(saved') BY <1>1, <2>3 DEF TaskIdsUnique
    <3> QED BY <3>4, <3>5, <3>6, <3>7 DEF TaskIdsUnique
  <2>9. RunningIsInFlight'
    <3>1. \A v \in Workers : /\ Unfinished(v)' <=> Unfinished(v)
                             /\ Unfinished(v) => job'[v].id = job[v].id
      BY <1>1, <2>2 DEF Unfinished, OnlyJob, Steps
    <3> HIDE DEF Unfinished, Running
    <3> QED BY <1>1, <2>3, <3>1 DEF RunningIsInFlight
  <2> QED BY <1>2, <2>6, <2>7, <2>8, <2>9
<1>4. CASE Clear(w)
  <2>1. /\ OnlyJob(w) /\ job'[w].pc = "clear" /\ job'[w].id = 0 /\ job'[w].snap = tasks'
        /\ tasks' = {t \in tasks : Running(t)} /\ nextId' = nextId
    <3>1. Becomes(w, [IdleJob EXCEPT !.pc = "clear", !.snap = tasks']) BY <1>4 DEF Clear
    <3>2. OnlyJob(w) /\ job'[w] = [IdleJob EXCEPT !.pc = "clear", !.snap = tasks']
      BY <3>1, BecomesFacts DEF OnlyJob
    <3>3. tasks' = {t \in tasks : Running(t)} /\ nextId' = nextId BY <1>4 DEF Clear
    <3> QED BY <3>2, <3>3 DEF IdleJob
  <2>2. Ids(tasks') \subseteq Ids(tasks) /\ OneTaskPerId(tasks')
    BY <2>1 DEF Ids, OneTaskPerId, TaskIdsUnique
  <2>3. PushIsNew' BY <2>1, <2>2 DEF PushIsNew, OnlyJob
  <2>4. ExitIsKnown' BY <2>1 DEF ExitIsKnown, OnlyJob
  <2>5. TaskIdsUnique'
    <3>1. /\ \A v \in Workers : Cloning(v)' => Cloning(v) /\ job'[v] = job[v]
          /\ \A v \in Workers \ {w} : (Active(v)' <=> Active(v)) /\ job'[v] = job[v]
      BY <2>1 DEF Cloning, Active, OnlyJob
    <3>2. 0 < nextId BY DEF TypeOK
    <3> HIDE DEF Cloning, Active, Ids, OneTaskPerId
    <3>3. \A i \in Ids(tasks') \cup Ids(saved') : i < nextId
      BY <1>1, <2>1, <2>2 DEF TaskIdsUnique
    <3>4. \A v \in Workers : /\ OneTaskPerId(job'[v].snap)
                             /\ Active(v)' => job'[v].id < nextId
                                  /\ \A i \in Ids(job'[v].snap) : i < nextId
      BY <2>1, <2>2, <3>1, <3>2, <3>3 DEF TaskIdsUnique
    <3> QED BY <1>1, <2>1, <2>2, <3>1, <3>3, <3>4 DEF TaskIdsUnique
  <2>6. RunningIsInFlight'
    <3>1. \A v \in Workers : /\ Unfinished(v)' <=> Unfinished(v)
                             /\ Unfinished(v) => job'[v].id = job[v].id
      BY <1>1, <2>1 DEF Unfinished, OnlyJob, Steps
    <3> HIDE DEF Unfinished, Running
    <3> QED BY <1>1, <2>1, <3>1 DEF RunningIsInFlight
  <2> QED BY <1>2, <2>3, <2>4, <2>5, <2>6
<1> QED BY <1>3, <1>4

LEMMA EnvironmentSafe ==
  ASSUME TypeOK, Safe, Crash \/ Restart \/ \E c \in disk : UserRemoves(c) PROVE Safe'
<1> USE DEF Safe
<1>1. OneTaskPerId({}) /\ Ids({}) = {} BY DEF OneTaskPerId, Ids
<1>2. CASE Crash
  <2>1. \A w \in Workers : job'[w] = IdleJob BY <1>2 DEF Crash
  <2>2. tasks' = {} /\ up' = FALSE /\ saved' = saved BY <1>2 DEF Crash
  <2>3. \A w \in Workers : job'[w].pc = "idle" /\ job'[w].snap = {}
    BY <2>1 DEF IdleJob
  <2>4. DownIsIdle' /\ PushIsNew' /\ ExitIsKnown'
    BY <2>1, <2>3 DEF DownIsIdle, PushIsNew, ExitIsKnown
  <2>5. TaskIdsUnique'
    <3>1. \A w \in Workers : ~Active(w)' /\ ~Cloning(w)'
      BY <2>3 DEF Active, Cloning, Steps
    <3> HIDE DEF Active, Cloning, OneTaskPerId, Ids
    <3> QED BY <1>1, <2>2, <2>3, <3>1 DEF TaskIdsUnique
  <2>6. RunningIsInFlight' BY <2>2, <2>3 DEF RunningIsInFlight, Unfinished
  <2> QED BY <2>4, <2>5, <2>6
<1>3. CASE Restart
  <2>1. \A w \in Workers : job'[w] = IdleJob BY <1>3 DEF Restart, DownIsIdle
  <2>2. tasks' = Interrupted(saved) /\ saved' = Interrupted(saved) /\ up' = TRUE
        /\ \A i \in Ids(Interrupted(saved)) : i < nextId'
    BY <1>3 DEF Restart, FirstId
  <2>3. \A w \in Workers : job'[w].pc = "idle" /\ job'[w].snap = {}
    BY <2>1 DEF IdleJob
  <2> DEFINE e(t) == IF Running(t) THEN [t EXCEPT !.status = "failed"] ELSE t
  <2>4. \A t \in saved : e(t).id = t.id /\ e(t).status # "running"
    BY DEF TypeOK, Task, Running
  <2>5. Interrupted(saved) = {e(t) : t \in saved} BY DEF Interrupted
  <2> HIDE DEF e
  <2>6. OneTaskPerId(Interrupted(saved)) BY <2>4, <2>5 DEF TaskIdsUnique, OneTaskPerId
  <2>7. \A t \in Interrupted(saved) : ~Running(t) BY <2>4, <2>5 DEF Running
  <2>8. DownIsIdle' /\ PushIsNew' /\ ExitIsKnown'
    BY <2>1, <2>3 DEF DownIsIdle, PushIsNew, ExitIsKnown
  <2>9. TaskIdsUnique'
    <3>1. \A w \in Workers : ~Active(w)' /\ ~Cloning(w)'
      BY <2>3 DEF Active, Cloning, Steps
    <3> HIDE DEF Active, Cloning, OneTaskPerId, Ids
    <3> QED BY <1>1, <2>2, <2>3, <2>6, <3>1 DEF TaskIdsUnique
  <2>10. RunningIsInFlight' BY <2>2, <2>3, <2>7 DEF RunningIsInFlight, Unfinished, Running
  <2> QED BY <2>8, <2>9, <2>10
<1>4. ASSUME NEW c \in disk, UserRemoves(c) PROVE Safe'
  BY <1>4 DEF UserRemoves, history, DownIsIdle, PushIsNew, ExitIsKnown, TaskIdsUnique,
     RunningIsInFlight, Active, Cloning, Unfinished
<1> QED BY <1>2, <1>3, <1>4

LEMMA InvariantStep == IInv /\ [Next]_vars => IInv'
<1> SUFFICES ASSUME IInv, [Next]_vars PROVE IInv' OBVIOUS
<1>1. TypeOK /\ Safe BY DEF IInv, Safe
<1>2. TypeOK' BY <1>1, TypeStep
<1>3. ASSUME UNCHANGED vars PROVE Safe'
  <2>1. UNCHANGED <<up, tasks, saved, nextId, job, stuck>> BY <1>3 DEF vars
  <2>2. (DownIsIdle /\ PushIsNew /\ ExitIsKnown)'
    BY <1>1, <2>1 DEF Safe, DownIsIdle, PushIsNew, ExitIsKnown
  <2>3. TaskIdsUnique' BY <1>1, <2>1 DEF Safe, TaskIdsUnique, Active, Cloning
  <2>4. RunningIsInFlight' BY <1>1, <2>1 DEF Safe, RunningIsInFlight, Unfinished
  <2> QED BY <2>2, <2>3, <2>4 DEF Safe
<1>4. ASSUME Next PROVE Safe'
  <2>1. ASSUME NEW w \in Workers,
               Prepare(w) \/ Clear(w) \/ Work(w) \/ GitSucceeds(w) \/ GitFails(w)
        PROVE  Safe'
    BY <1>1, <2>1, WorkSafe, GitSafe, CommandSafe
  <2>2. ASSUME Crash \/ Restart \/ \E c \in disk : UserRemoves(c) PROVE Safe'
    BY <1>1, <2>2, EnvironmentSafe
  <2> QED BY <1>4, <2>1, <2>2 DEF Next
<1> QED BY <1>2, <1>3, <1>4 DEF IInv, Safe

LEMMA InvariantInit == Init => IInv
<1> SUFFICES ASSUME Init PROVE IInv OBVIOUS
<1>1. TypeOK BY TypeInit
<1>2. \A w \in Workers : job[w] = IdleJob BY DEF Init
<1>3. \A w \in Workers : job[w].pc = "idle" /\ job[w].snap = {} BY <1>2 DEF IdleJob
<1>4. tasks = {} /\ saved = {} BY DEF Init
<1>5. DownIsIdle /\ PushIsNew /\ ExitIsKnown /\ RunningIsInFlight
  BY <1>2, <1>3, <1>4 DEF DownIsIdle, PushIsNew, ExitIsKnown, RunningIsInFlight, Unfinished
<1>6. TaskIdsUnique
  BY <1>3, <1>4 DEF TaskIdsUnique, Active, Cloning, Steps, OneTaskPerId, Ids
<1> QED BY <1>1, <1>5, <1>6 DEF IInv

LEMMA Invariant == Spec => []IInv
BY InvariantInit, InvariantStep, PTL DEF Spec

(* Ids identify tasks in every copy of the list, across clearing, crashes  *)
(* and restarts.                                                           *)
THEOREM IdsIdentifyTasks == Spec => []TaskIdsUnique
<1>1. IInv => TaskIdsUnique BY DEF IInv
<1> QED BY <1>1, Invariant, PTL

(* A task is shown as running exactly while its clone is under way.        *)
THEOREM RunningIsTruthful == Spec => []RunningIsInFlight
<1>1. IInv => RunningIsInFlight BY DEF IInv
<1> QED BY <1>1, Invariant, PTL

(* Only the end of its own clone changes the outcome of a task.            *)
Kept == \A t \in tasks, u \in tasks' : t.id = u.id /\ ~Running(t) => u.status = t.status

LEMMA KeptStep == IInv /\ [Next]_vars /\ up /\ up' => Kept
<1> SUFFICES ASSUME IInv, [Next]_vars, up, up' PROVE Kept OBVIOUS
<1>1. TypeOK /\ OneTaskPerId(tasks) /\ tasks \subseteq Task BY DEF IInv, TaskIdsUnique, TypeOK
<1>2. ASSUME tasks' \subseteq tasks PROVE Kept BY <1>1, <1>2 DEF Kept, OneTaskPerId
<1>3. ASSUME NEW w \in Workers, Push(w) PROVE Kept
  <2>1. tasks' = tasks \cup {NewTask(w)} /\ NewTask(w).id = job[w].id
    BY <1>3 DEF Push, NewTask
  <2>2. job[w].id \notin Ids(tasks) BY <1>3 DEF Push, IInv, PushIsNew
  <2> QED BY <1>1, <2>1, <2>2 DEF Kept, OneTaskPerId, Ids
<1>4. ASSUME NEW w \in Workers, AppendLog(w) PROVE Kept
  <2>1. \A u \in tasks' : \E t \in tasks : t.id = u.id /\ t.status = u.status
    BY <1>1, <1>4, LogFacts DEF AppendLog
  <2> QED BY <1>1, <2>1 DEF Kept, OneTaskPerId
<1>5. ASSUME NEW w \in Workers, Finish(w) PROVE Kept
  <2>1. job[w].result \in Results
    BY <1>1, <1>5, CloneFacts DEF Finish, Steps
  <2>2. \A u \in tasks' : u.id # job[w].id => u \in tasks
    BY <1>1, <1>5, <2>1, StatusFacts DEF Finish
  <2>3. \E t \in tasks : t.id = job[w].id /\ Running(t)
    BY <1>5 DEF Finish, IInv, RunningIsInFlight, Unfinished
  <2> QED BY <1>1, <2>2, <2>3 DEF Kept, OneTaskPerId
<1>6. ASSUME NEW w \in Workers, Work(w) PROVE Kept
  <2>1. CASE Push(w) \/ AppendLog(w) \/ Finish(w) BY <1>3, <1>4, <1>5, <2>1
  <2>2. CASE ~(Push(w) \/ AppendLog(w) \/ Finish(w))
    <3>1. tasks' = tasks
      BY <1>6, <2>2 DEF Work, Snapshot, SaveFirst, SaveFirstFails, SaveLog,
         LoadPaths, StorePaths, PathFails, SaveEnd, SaveClear
    <3> QED BY <1>2, <3>1
  <2> QED BY <2>1, <2>2
<1>7. ASSUME NEW w \in Workers, Prepare(w) \/ Clear(w) \/ GitSucceeds(w) \/ GitFails(w)
      PROVE  Kept
  <2>1. tasks' \subseteq tasks BY <1>7 DEF Prepare, Clear, GitSucceeds, GitFails
  <2> QED BY <1>2, <2>1
<1>8. ~Crash /\ ~Restart BY DEF Crash, Restart
<1>9. ASSUME NEW c \in disk, UserRemoves(c) PROVE Kept BY <1>2, <1>9 DEF UserRemoves
<1>10. CASE UNCHANGED vars BY <1>2, <1>10 DEF vars
<1> QED BY <1>6, <1>7, <1>8, <1>9, <1>10 DEF Next

(* While the host runs, a task that ended keeps the outcome it ended with. *)
THEOREM OutcomesAreFinal == Spec => StatusFinal
<1>1. IInv /\ [Next]_vars => [up /\ up' => Kept]_vars BY KeptStep
<1> QED BY <1>1, Invariant, PTL DEF Spec, StatusFinal, Kept
-----------------------------------------------------------------------------
(* The list is saved, or an older one was saved over it or its save failed,*)
(* or a worker is still to write it: whoever changes the list holds its    *)
(* newest snapshot until another change.                                   *)
Newest(j) ==
  \/ j.pc = "list"
  \/ j.pc \in {"save", "log", "load", "store", "done", "clear"} /\ j.snap = tasks

Accounted == up => saved = tasks \/ behind \/ \E w \in Workers : Newest(job[w])

(* The stored path of a repository is its latest clone, or a worker is     *)
(* still to store it.                                                      *)
Stores(j, r) == j.pc \in {"load", "store"} /\ j.repo = r /\ j.dir = latest[r]

Known == \A r \in Repos :
  latest[r] # None => paths[r] = latest[r] \/ \E w \in Workers : Stores(job[w], r)

(* A step that changes neither the list nor its copy, after which every    *)
(* worker that held the newest list still holds it.                        *)
LEMMA AccountedKept ==
  ASSUME Accounted, UNCHANGED <<up, tasks, saved, behind>>,
         \A v \in Workers : Newest(job[v]) => Newest(job'[v])
  PROVE  Accounted'
BY DEF Accounted, Newest

(* Writing a snapshot, whether it goes through or not.                     *)
LEMMA WriteAccounted ==
  ASSUME Accounted, NEW w \in Workers, WriteSnapshot(w) \/ WriteFails(w),
         UNCHANGED <<up, tasks>>, OnlyJob(w), job[w].pc # "list"
  PROVE  Accounted'
<1>1. CASE job[w].snap = tasks
  BY <1>1 DEF Accounted, WriteSnapshot, WriteFails
<1>2. CASE job[w].snap # tasks
  <2>1. \A v \in Workers : Newest(job[v]) => Newest(job[v])' BY <1>2 DEF Newest, OnlyJob
  <2> QED BY <1>2, <2>1 DEF Accounted, WriteSnapshot, WriteFails
<1> QED BY <1>1, <1>2

LEMMA AccountedStep == TypeOK /\ Accounted /\ [Next]_vars => Accounted'
<1> SUFFICES ASSUME TypeOK, Accounted, [Next]_vars PROVE Accounted' OBVIOUS
<1> USE DEF history
<1>1. ASSUME NEW w \in Workers, Push(w) \/ Snapshot(w) \/ AppendLog(w) \/ Finish(w)
      PROVE  Accounted'
  <2>1. job[w].pc \in Steps \ {"clear"} BY <1>1 DEF Push, Snapshot, AppendLog, Finish, Steps
  <2>2. CASE Push(w)
    <3>1. job'[w].pc = "list" BY <2>1, <2>2, PcFacts DEF Push
    <3> QED BY <3>1 DEF Accounted, Newest
  <2>3. CASE Snapshot(w) \/ AppendLog(w) \/ Finish(w)
    <3>1. PICK pc \in {"save", "log", "load", "done"} :
            Becomes(w, [job[w] EXCEPT !.pc = pc, !.snap = tasks'])
      BY <2>3 DEF Snapshot, AppendLog, Finish
    <3>2. job'[w].pc = pc /\ job'[w].snap = tasks' BY ZenonT(60), <2>1, <3>1, SnapFacts
    <3> QED BY <3>2 DEF Accounted, Newest
  <2> QED BY <1>1, <2>2, <2>3
<1>2. ASSUME NEW w \in Workers,
             SaveFirst(w) \/ SaveFirstFails(w) \/ SaveLog(w) \/ SaveEnd(w) \/ SaveClear(w)
      PROVE  Accounted'
  <2>1. /\ WriteSnapshot(w) \/ WriteFails(w)
        /\ UNCHANGED <<up, tasks>> /\ job[w].pc # "list"
    BY <1>2 DEF SaveFirst, SaveFirstFails, SaveLog, SaveEnd, SaveClear
  <2>2. \E j : Becomes(w, j)
    BY <1>2 DEF SaveFirst, SaveFirstFails, SaveLog, SaveEnd, SaveClear, AfterLog, Ends
  <2>3. OnlyJob(w) BY <2>2, BecomesFacts DEF OnlyJob
  <2> QED BY <2>1, <2>3, WriteAccounted
<1>3. ASSUME NEW w \in Workers, LoadPaths(w) \/ StorePaths(w) \/ PathFails(w)
      PROVE  Accounted'
  <2>1. job[w].pc \in Steps \ {"clear"} BY <1>3 DEF LoadPaths, StorePaths, PathFails, Steps
  <2>2. PICK pc \in {"store", "done"} :
          \E m : Becomes(w, [job[w] EXCEPT !.pc = pc, !.map = m])
    BY <1>3 DEF LoadPaths, StorePaths, PathFails
  <2>5. PICK m : Becomes(w, [job[w] EXCEPT !.pc = pc, !.map = m]) BY <2>2
  <2>3. OnlyJob(w) /\ job'[w].pc = pc /\ job'[w].snap = job[w].snap
    BY <2>1, <2>5, MapFacts
  <2>4. UNCHANGED <<up, tasks, saved, behind>> /\ job[w].pc \in {"load", "store"}
    BY <1>3 DEF LoadPaths, StorePaths, PathFails
  <2> QED BY <2>3, <2>4, AccountedKept DEF Newest, OnlyJob
<1>4. ASSUME NEW w \in Workers, GitSucceeds(w) \/ GitFails(w) PROVE Accounted'
  <2>1. job[w].pc = "git" /\ UNCHANGED <<up, tasks, saved, behind>>
    BY <1>4 DEF GitSucceeds, GitFails
  <2>2. \E j : Becomes(w, j) BY <1>4 DEF GitSucceeds, GitFails
  <2>3. OnlyJob(w) BY <2>2, BecomesFacts DEF OnlyJob
  <2> QED BY <2>1, <2>3, AccountedKept DEF Newest, OnlyJob
<1>5. ASSUME NEW w \in Workers, Prepare(w) PROVE Accounted'
  <2>1. job[w].pc \notin Steps /\ UNCHANGED <<up, tasks, saved, behind>>
    BY <1>5 DEF Prepare, Active, Steps
  <2>2. \E j : Becomes(w, j) BY <1>5 DEF Prepare
  <2>3. OnlyJob(w) BY <2>2, BecomesFacts DEF OnlyJob
  <2> QED BY <2>1, <2>3, AccountedKept DEF Newest, OnlyJob, Steps
<1>6. ASSUME NEW w \in Workers, Clear(w) PROVE Accounted'
  <2>1. job'[w] = [IdleJob EXCEPT !.pc = "clear", !.snap = tasks']
    BY <1>6, BecomesFacts DEF Clear
  <2>2. job'[w].pc = "clear" /\ job'[w].snap = tasks' BY <2>1 DEF IdleJob
  <2> QED BY <2>2 DEF Accounted, Newest
<1>7. CASE Crash BY <1>7 DEF Crash, Accounted
<1>8. CASE Restart BY <1>8 DEF Restart, Accounted
<1>9. CASE (\E c \in disk : UserRemoves(c)) \/ UNCHANGED vars
  <2>1. UNCHANGED <<up, tasks, saved, behind, job>> BY <1>9 DEF UserRemoves, vars
  <2> QED BY <2>1, AccountedKept
<1> QED BY <1>1, <1>2, <1>3, <1>4, <1>5, <1>6, <1>7, <1>8, <1>9 DEF Next, Work

(* A worker that is not at its paths, before and after a step that leaves  *)
(* the paths alone.                                                        *)
LEMMA KnownKept ==
  ASSUME Known, NEW w \in Workers, UNCHANGED <<paths, latest>>, OnlyJob(w),
         job[w].pc \notin {"load", "store"}
  PROVE  Known'
<1>1. \A v \in Workers, r \in Repos : Stores(job[v], r) => Stores(job[v], r)'
  BY DEF Stores, OnlyJob
<1> QED BY <1>1 DEF Known, Stores

LEMMA FinishKnown ==
  ASSUME TypeOK, Known, NEW w \in Workers, Finish(w) PROVE Known'
<1>1. job[w].pc \in Steps \ {"clear"} /\ job[w].pc = "exit" /\ paths' = paths
  BY DEF Finish, Steps
<1>2. job[w] \in CloneJobs /\ job[w].repo \in Repos BY <1>1, CloneFacts
<1>3. \E j : Becomes(w, j) BY DEF Finish
<1>4. OnlyJob(w) BY <1>3, BecomesFacts DEF OnlyJob
<1>5. CASE latest' = latest BY <1>1, <1>4, <1>5, KnownKept
<1>6. CASE latest' # latest
  <2>1. /\ latest' = [latest EXCEPT ![job[w].repo] = job[w].dir]
        /\ Becomes(w, [job[w] EXCEPT !.pc = "load", !.snap = tasks'])
    BY <1>6 DEF Finish
  <2>2. job'[w] = [job[w] EXCEPT !.pc = "load", !.snap = tasks'] BY <2>1, BecomesFacts
  <2>3. job'[w].pc = "load" /\ job'[w].repo = job[w].repo /\ job'[w].dir = job[w].dir
    BY <1>2, <2>2 DEF CloneJobs
  <2>4. latest \in [Repos -> LocalDirs \cup {None}] BY DEF TypeOK, Paths
  <2> SUFFICES ASSUME NEW r \in Repos, latest'[r] # None, paths'[r] # latest'[r]
               PROVE  \E v \in Workers : Stores(job[v], r)'
    BY DEF Known, Stores
  <2>5. CASE r = job[w].repo BY <1>2, <2>1, <2>3, <2>4, <2>5 DEF Stores
  <2>6. CASE r # job[w].repo
    <3>1. latest'[r] = latest[r] /\ paths'[r] = paths[r] BY <1>1, <2>1, <2>4, <2>6
    <3>2. PICK v \in Workers : Stores(job[v], r) BY <3>1 DEF Known
    <3>3. v # w BY <1>1, <3>2 DEF Stores
    <3>4. job'[v] = job[v] BY <1>4, <3>3 DEF OnlyJob
    <3> QED BY <3>1, <3>2, <3>4 DEF Stores
  <2> QED BY <2>5, <2>6
<1> QED BY <1>5, <1>6

LEMMA PathsKnown ==
  ASSUME TypeOK, Known, NEW w \in Workers, LoadPaths(w) \/ StorePaths(w) \/ PathFails(w)
  PROVE  Known'
<1>1. job[w].pc \in Steps \ {"clear"} /\ job[w].pc \in {"load", "store"}
  BY DEF LoadPaths, StorePaths, PathFails, Steps
<1>2. job[w] \in CloneJobs /\ job[w].repo \in Repos BY <1>1, CloneFacts
<1>3. \E j : Becomes(w, j) BY DEF LoadPaths, StorePaths, PathFails
<1>4. OnlyJob(w) BY <1>3, BecomesFacts DEF OnlyJob
<1>5. latest \in [Repos -> LocalDirs \cup {None}] BY DEF TypeOK, Paths
<1>6. CASE LoadPaths(w)
  <2>1. job'[w] = [job[w] EXCEPT !.pc = "store", !.map = paths]
    BY <1>6, BecomesFacts DEF LoadPaths
  <2>2. job'[w].pc = "store" /\ job'[w].repo = job[w].repo /\ job'[w].dir = job[w].dir
    BY <1>2, <2>1 DEF CloneJobs
  <2>3. UNCHANGED <<paths, latest>> BY <1>6 DEF LoadPaths, history
  <2>4. \A v \in Workers, r \in Repos : Stores(job[v], r) => Stores(job[v], r)'
    BY <1>4, <2>2, <2>3 DEF Stores, OnlyJob
  <2> QED BY <2>3, <2>4 DEF Known, Stores
(* What another worker is still to store, it still is.                     *)
<1>7. ASSUME NEW r \in Repos, StillToStore(w, r), latest'[r] = latest[r]
      PROVE  \E v \in Workers : Stores(job[v], r)'
  <2>1. PICK v \in Workers \ {w} :
          job[v].pc \in {"load", "store"} /\ job[v].repo = r /\ job[v].dir = latest[r]
    BY <1>7 DEF StillToStore
  <2> QED BY <1>4, <1>7, <2>1 DEF Stores, OnlyJob
<1>8. ASSUME NEW r \in Repos, ~StillToStore(w, r), latest[r] # None,
             ~Stores(job[w], r)
      PROVE  paths[r] = latest[r]
  BY <1>8 DEF Known, Stores, StillToStore
<1>9. CASE StorePaths(w)
  <2> SUFFICES ASSUME NEW r \in Repos, latest'[r] # None, paths'[r] # latest'[r]
               PROVE  \E v \in Workers : Stores(job[v], r)'
    BY DEF Known, Stores
  <2>1. job[w].map \in [Repos -> LocalDirs \cup {None}] BY <1>9 DEF StorePaths, TypeOK, Paths
  <2>2. /\ paths'[r] = IF r = job[w].repo THEN job[w].dir ELSE job[w].map[r]
        /\ latest'[r] = IF StillToStore(w, r) THEN latest[r]
                        ELSE IF r = job[w].repo THEN job[w].dir
                        ELSE IF job[w].map[r] = paths[r] THEN latest[r] ELSE None
    BY <1>9, <2>1 DEF StorePaths, LatestAfterStore
  <2>3. CASE StillToStore(w, r) BY <1>7, <2>2, <2>3
  <2>4. CASE ~StillToStore(w, r)
    <3>1. r # job[w].repo /\ job[w].map[r] = paths[r] BY <2>2, <2>4
    <3> QED BY <1>8, <2>2, <2>4, <3>1 DEF Stores
  <2> QED BY <2>3, <2>4
<1>10. CASE PathFails(w)
  <2> SUFFICES ASSUME NEW r \in Repos, latest'[r] # None, paths'[r] # latest'[r]
               PROVE  \E v \in Workers : Stores(job[v], r)'
    BY DEF Known, Stores
  <2>1. paths' = paths /\ latest'[r] = latest[r]
    BY <1>5, <1>10 DEF PathFails
  <2>2. CASE StillToStore(w, r) BY <1>7, <2>1, <2>2
  <2>3. CASE ~StillToStore(w, r)
    <3>1. Stores(job[w], r) BY <1>8, <2>1, <2>3
    <3>2. latest'[r] = None BY <1>2, <1>5, <1>10, <2>3, <3>1 DEF PathFails, Stores
    <3> QED BY <3>2
  <2> QED BY <2>2, <2>3
<1> QED BY <1>6, <1>9, <1>10

LEMMA KnownStep == TypeOK /\ DownIsIdle /\ Known /\ [Next]_vars => Known'
<1> SUFFICES ASSUME TypeOK, DownIsIdle, Known, [Next]_vars PROVE Known' OBVIOUS
<1> USE DEF history
<1>1. ASSUME NEW w \in Workers, LoadPaths(w) \/ StorePaths(w) \/ PathFails(w) \/ Finish(w)
      PROVE  Known'
  BY <1>1, PathsKnown, FinishKnown
<1>2. ASSUME NEW w \in Workers,
             \/ Push(w) \/ Snapshot(w) \/ SaveFirst(w) \/ SaveFirstFails(w)
             \/ AppendLog(w) \/ SaveLog(w) \/ SaveEnd(w) \/ SaveClear(w)
             \/ GitSucceeds(w) \/ GitFails(w) \/ Prepare(w) \/ Clear(w)
      PROVE  Known'
  <2>1. job[w].pc \notin {"load", "store"} /\ UNCHANGED <<paths, latest>>
    BY <1>2 DEF Push, Snapshot, SaveFirst, SaveFirstFails, AppendLog, SaveLog, SaveEnd, SaveClear,
                GitSucceeds, GitFails, Prepare, Clear, Active
  <2>2. \E j : Becomes(w, j)
    BY <1>2 DEF Push, Snapshot, SaveFirst, SaveFirstFails, AppendLog, SaveLog, SaveEnd, SaveClear,
                GitSucceeds, GitFails, Prepare, Clear, AfterLog, Ends
  <2>3. OnlyJob(w) BY <2>2, BecomesFacts DEF OnlyJob
  <2> QED BY <2>1, <2>3, KnownKept
<1>3. CASE Crash
  <2> SUFFICES ASSUME NEW r \in Repos, latest'[r] # None PROVE paths'[r] = latest'[r]
    BY DEF Known
  <2>1. /\ paths' = paths /\ latest'[r] = latest[r]
        /\ \A w \in Workers : ~Stores(job[w], r)
    BY <1>3 DEF Crash, Stores
  <2> QED BY <2>1 DEF Known
<1>4. CASE Restart \/ (\E c \in disk : UserRemoves(c)) \/ UNCHANGED vars
  <2>1. UNCHANGED <<paths, latest, job>> BY <1>4 DEF Restart, UserRemoves, vars
  <2> QED BY <2>1 DEF Known, Stores
<1> QED BY <1>1, <1>2, <1>3, <1>4 DEF Next, Work

LEMMA KnownAlways == Spec => [](Accounted /\ Known)
<1>1. Init => Accounted /\ Known BY DEF Init, Accounted, Known
<1>2. IInv /\ Accounted /\ Known /\ [Next]_vars => (Accounted /\ Known)'
  BY AccountedStep, KnownStep DEF IInv
<1> QED BY <1>1, <1>2, Invariant, PTL DEF Spec

(* Any number of commands and clones at once: with nothing left to write,  *)
(* the setting holds the list that is in memory, unless an older snapshot  *)
(* landed on it last or its own write failed.                              *)
THEOREM TasksAreSaved == Spec => []QuietMeansSaved
<1>1. Accounted => QuietMeansSaved BY DEF Accounted, Newest, QuietMeansSaved, Writing
<1> QED BY <1>1, KnownAlways, PTL

(* Any number of clones that end at once: a repository's latest clone that *)
(* is still on disk is the one that connecting its remote will find, unless*)
(* its path could not be stored or another clone's map was stored over it. *)
THEOREM LatestCloneIsFound == Spec => []LatestIsFound
<1>1. Known => LatestIsFound
  <2> SUFFICES ASSUME Known, \A w \in Workers : ~Writing(w),
                      NEW r \in Repos, latest[r] # None, <<r, latest[r]>> \in disk
               PROVE  latest[r] \in LatestClone(r)
    BY DEF LatestIsFound
  <2>1. paths[r] = latest[r] BY DEF Known, Stores, Writing
  <2> QED BY <2>1 DEF LatestClone
<1> QED BY <1>1, KnownAlways, PTL
=============================================================================
