------------------------------- MODULE Remote -------------------------------
(***************************************************************************)
(* The remote of a local clone: connect_repository_remote points origin at *)
(* the SSH alias of the repository and marks the work tree;                *)
(* test_repository_remote checks the mark, origin, the key and the way to  *)
(* GitHub.  Each is a chain of git and ssh commands, and meanwhile work    *)
(* trees, keys and repositories change.  Binding and cloning are in        *)
(* KeyBinding and CloneTasks; here each is one step, with what it leaves   *)
(* behind.  Repositories of one name share a directory.                    *)
(***************************************************************************)
EXTENDS Naturals

CONSTANTS
  Repos,       \* repositories synced from GitHub
  Dirs,        \* work tree paths on this machine
  Paths,       \* private key paths on this machine
  Workers,     \* commands in flight: one while the Repos screen stays open
  None,
  MaxKeys,     \* bound: key pairs generated
  MaxNames,    \* bound: the names a repository has in turn, 1 for no renaming
  MaxChanges   \* bound: how often something happens outside the two commands

ASSUME RemoteAssumption ==
  /\ None \notin Repos \cup Dirs \cup Paths
  /\ MaxKeys \in Nat /\ MaxNames \in Nat \ {0} /\ MaxChanges \in Nat

VARIABLES
  name,      \* name[r]: how often GitHub renamed r before the last sync, and 1
  tree,      \* tree[d]: the work tree at d
  latest,    \* latest[r]: where the last successful clone of r went
  file,      \* file[p]: the key pair at p, 0 for none
  deploy,    \* deploy[k]: the repository whose deploy key pair k is
  binding,   \* binding[r]: the key path and the key pair of r's binding
  block,     \* block[r]: the name and the key path of r's alias in ~/.ssh/config
  nextKey,   \* key pairs generated so far, and 1
  changes,   \* how much happened outside
  job,       \* job[w]: the command in flight on w
  ready      \* history: ready[d] is the last repository connected there, if
             \* nobody has touched what its test is about since

world == <<name, tree, latest, file, deploy, binding, block, nextKey>>
vars == <<world, changes, job, ready>>
-----------------------------------------------------------------------------
Keys == 1..MaxKeys
Names == 1..MaxNames

\* "git@deploykeys-<id>-<name>:<owner>/<name>.git"
Urls == Repos \X Names
Url(r) == <<r, name[r]>>

\* A fresh clone has origin and no mark.  wired: history, the urls that were
\* set as origin since the clone.
Trees == [origin : Urls, markRepo : Repos \cup {None}, markUrl : Urls \cup {None},
          wired : SUBSET Urls]

ASSUME NoTree == None \notin Trees

Cloned(u) == [origin |-> u, markRepo |-> None, markUrl |-> None, wired |-> {}]

Idle == [op |-> "idle", pc |-> "idle", repo |-> None, url |-> None, path |-> None,
         dir |-> None, alone |-> FALSE]

ConnectSteps == {"look", "set", "mark repo", "mark url", "list"}
TestSteps == {"look", "get repo", "get url", "origin", "ssh", "reach", "passed"}

Active(w) == job[w].op # "idle"
Quiet == \A w \in Workers : ~Active(w)
At(w, op, pc) == job[w].op = op /\ job[w].pc = pc
Becomes(w, j) == job' = [job EXCEPT ![w] = j]
Goto(w, pc) == Becomes(w, [job[w] EXCEPT !.pc = pc])
Ends(w) == Becomes(w, Idle)

\* active_binding_for_target: there is a binding, and a key at its path.
Usable(r) == binding[r] # None /\ file[binding[r].path] # 0

\* ssh knows the alias of the url, and GitHub takes one of the keys offered,
\* that of the alias or that of p, for the deploy key of the url's repository.
Reaches(u, p) ==
  /\ block[u[1]] # None /\ block[u[1]].name = u[2]
  /\ \E q \in {p, block[u[1]].path} : file[q] # 0 /\ deploy[file[q]] = u[1]

Init ==
  /\ name = [r \in Repos |-> 1]
  /\ tree = [d \in Dirs |-> None]
  /\ latest = [r \in Repos |-> None]
  /\ file = [p \in Paths |-> 0]
  /\ deploy = [k \in Keys |-> None]
  /\ binding = [r \in Repos |-> None]
  /\ block = [r \in Repos |-> None]
  /\ nextKey = 1 /\ changes = 0
  /\ job = [w \in Workers |-> Idle]
  /\ ready = [d \in Dirs |-> None]
-----------------------------------------------------------------------------
(* Both commands.                                                          *)

\* find_repository and active_binding_for_target: the url comes from the row.
Start(w) ==
  /\ ~Active(w)
  /\ \E r \in {q \in Repos : Usable(q)}, op \in {"connect", "test"} :
       job' = [v \in Workers |->
                 IF v # w THEN [job[v] EXCEPT !.alone = FALSE]
                 ELSE [Idle EXCEPT !.op = op, !.pc = "look", !.repo = r, !.url = Url(r),
                                   !.path = binding[r].path, !.alone = Quiet]]
  /\ UNCHANGED <<world, changes, ready>>

\* latest_successful_clone_path.
Look(w) ==
  /\ job[w].pc = "look"
  /\ latest[job[w].repo] # None /\ tree[latest[job[w].repo]] # None
  /\ Becomes(w, [job[w] EXCEPT !.dir = latest[job[w].repo],
                               !.pc = IF job[w].op = "connect" THEN "set" ELSE "get repo"])
  /\ UNCHANGED <<world, changes, ready>>

\* A check refuses, or a git or ssh command cannot be started or fails.
Fails(w) ==
  /\ Active(w) /\ job[w].pc # "passed"
  /\ Ends(w)
  /\ UNCHANGED <<world, changes, ready>>
-----------------------------------------------------------------------------
(* connect_repository_remote.                                              *)

In(w) == tree[job[w].dir]
Edited(w, t) == tree' = [tree EXCEPT ![job[w].dir] = t]

\* Mutant of SetOrigin: goes on when git refuses.
SetOriginOrNot(w) ==
  /\ At(w, "connect", "set")
  /\ In(w) # None
  /\ \/ Edited(w, [In(w) EXCEPT !.origin = job[w].url, !.wired = @ \cup {job[w].url}])
     \/ UNCHANGED tree
  /\ ready' = [ready EXCEPT ![job[w].dir] = IF job[w].repo = @ THEN @ ELSE None]
  /\ Goto(w, "mark repo")
  /\ UNCHANGED <<name, latest, file, deploy, binding, block, nextKey, changes>>

\* git remote set-url origin.
SetOrigin(w) ==
  /\ At(w, "connect", "set")
  /\ In(w) # None
  /\ Edited(w, [In(w) EXCEPT !.origin = job[w].url, !.wired = @ \cup {job[w].url}])
  /\ ready' = [ready EXCEPT ![job[w].dir] = IF job[w].repo = @ THEN @ ELSE None]
  /\ Goto(w, "mark repo")
  /\ UNCHANGED <<name, latest, file, deploy, binding, block, nextKey, changes>>

\* mark_repository_remote_connected: two git config commands.
MarkRepo(w) ==
  /\ At(w, "connect", "mark repo")
  /\ In(w) # None
  /\ Edited(w, [In(w) EXCEPT !.markRepo = job[w].repo])
  /\ Goto(w, "mark url")
  /\ UNCHANGED <<name, latest, file, deploy, binding, block, nextKey, changes, ready>>

\* Mutant of MarkUrl: forgotten.
MarkUrlNot(w) ==
  /\ At(w, "connect", "mark url")
  /\ Goto(w, "list")
  /\ UNCHANGED <<world, changes, ready>>

MarkUrl(w) ==
  /\ At(w, "connect", "mark url")
  /\ In(w) # None
  /\ Edited(w, [In(w) EXCEPT !.markUrl = job[w].url])
  /\ Goto(w, "list")
  /\ UNCHANGED <<name, latest, file, deploy, binding, block, nextKey, changes, ready>>

\* git remote -v, and "connected".
ConnectDone(w) ==
  /\ At(w, "connect", "list")
  /\ In(w) # None
  /\ ready' = IF job[w].alone /\ job[w].url = Url(job[w].repo)
                THEN [ready EXCEPT ![job[w].dir] = job[w].repo] ELSE ready
  /\ Ends(w)
  /\ UNCHANGED <<world, changes>>
-----------------------------------------------------------------------------
(* test_repository_remote.                                                 *)

\* ensure_local_connection_marker: two git config --get commands.
GetRepo(w) ==
  /\ At(w, "test", "get repo")
  /\ In(w) # None /\ In(w).markRepo = job[w].repo
  /\ Goto(w, "get url")
  /\ UNCHANGED <<world, changes, ready>>

GetUrl(w) ==
  /\ At(w, "test", "get url")
  /\ In(w) # None /\ In(w).markUrl = job[w].url
  /\ Goto(w, "origin")
  /\ UNCHANGED <<world, changes, ready>>

\* git remote -v and ensure_git_remote_matches.
CheckOrigin(w) ==
  /\ At(w, "test", "origin")
  /\ In(w) # None /\ In(w).origin = job[w].url
  /\ Goto(w, "ssh")
  /\ UNCHANGED <<world, changes, ready>>

\* ssh -T git@github.com: GitHub greets every key it knows.
CheckSsh(w) ==
  /\ At(w, "test", "ssh")
  /\ file[job[w].path] # 0 /\ deploy[file[job[w].path]] # None
  /\ Goto(w, "reach")
  /\ UNCHANGED <<world, changes, ready>>

\* Mutant of Reach: ssh has told enough.
ReachNot(w) ==
  /\ At(w, "test", "reach")
  /\ Goto(w, "passed")
  /\ UNCHANGED <<world, changes, ready>>

\* git ls-remote origin, whatever origin is by now.
Reach(w) ==
  /\ At(w, "test", "reach")
  /\ In(w) # None /\ Reaches(In(w).origin, job[w].path)
  /\ Goto(w, "passed")
  /\ UNCHANGED <<world, changes, ready>>

TestDone(w) ==
  /\ At(w, "test", "passed")
  /\ Ends(w)
  /\ UNCHANGED <<world, changes, ready>>
-----------------------------------------------------------------------------
(* What happens outside.                                                   *)
Happens == changes < MaxChanges /\ changes' = changes + 1

\* The process ends.  A command of a job may still be carried out: that is the
\* end one step later.
Crash ==
  /\ ~Quiet
  /\ Happens
  /\ job' = [w \in Workers |-> Idle]
  /\ UNCHANGED <<world, ready>>

\* create_key_for_target.
CreateKey(p) ==
  /\ file[p] = 0 /\ nextKey <= MaxKeys
  /\ file' = [file EXCEPT ![p] = nextKey]
  /\ nextKey' = nextKey + 1
  /\ UNCHANGED <<name, tree, latest, deploy, binding, block, changes, job, ready>>

\* update_key with another directory: bindings keep the path they were made with.
RenameKey(p, q) ==
  /\ file[p] # 0 /\ file[q] = 0
  /\ Happens
  /\ file' = [file EXCEPT ![p] = 0, ![q] = file[p]]
  /\ UNCHANGED <<name, tree, latest, deploy, binding, block, nextKey, job, ready>>

\* bind_existing_key: GitHub takes a key once only, and a binding whose deploy
\* key is there is not replaced.
Bind(r, p) ==
  /\ file[p] # 0 /\ deploy[file[p]] = None
  /\ binding[r] # None => deploy[binding[r].key] # r
  /\ deploy' = [deploy EXCEPT ![file[p]] = r]
  /\ binding' = [binding EXCEPT ![r] = [path |-> p, key |-> file[p]]]
  /\ block' = [block EXCEPT ![r] = [name |-> name[r], path |-> p]]
  /\ UNCHANGED <<name, tree, latest, file, nextKey, changes, job, ready>>

UserDeletesDeployKey(k) ==
  /\ deploy[k] # None
  /\ Happens
  /\ deploy' = [deploy EXCEPT ![k] = None]
  /\ UNCHANGED <<name, tree, latest, file, binding, block, nextKey, job, ready>>

\* clone_repository: prepare_clone_task renews the alias; the path must be free.
Clone(r, d) ==
  /\ Usable(r) /\ tree[d] = None
  /\ block' = [block EXCEPT ![r] = [name |-> name[r], path |-> binding[r].path]]
  /\ file[binding[r].path] # 0 /\ deploy[file[binding[r].path]] = r
  /\ tree' = [tree EXCEPT ![d] = Cloned(Url(r))]
  /\ latest' = [latest EXCEPT ![r] = d]
  /\ UNCHANGED <<name, file, deploy, binding, nextKey, changes, job, ready>>

\* Somebody removes a work tree; not under the feet of a command.
RemoveTree(d) ==
  /\ tree[d] # None /\ \A w \in Workers : job[w].dir # d
  /\ Happens
  /\ tree' = [tree EXCEPT ![d] = None]
  /\ ready' = [ready EXCEPT ![d] = None]
  /\ UNCHANGED <<name, latest, file, deploy, binding, block, nextKey, job>>

\* Somebody sets origin by hand.
UserSetsOrigin(d, u) ==
  /\ tree[d] # None /\ \A w \in Workers : job[w].dir # d
  /\ Happens
  /\ tree' = [tree EXCEPT ![d].origin = u]
  /\ ready' = [ready EXCEPT ![d] = None]
  /\ UNCHANGED <<name, latest, file, deploy, binding, block, nextKey, job>>

\* A sync finds the repository under a new name.
Sync(r) ==
  /\ name[r] < MaxNames
  /\ Happens
  /\ name' = [name EXCEPT ![r] = @ + 1]
  /\ ready' = [d \in Dirs |-> IF ready[d] = r THEN None ELSE ready[d]]
  /\ UNCHANGED <<tree, latest, file, deploy, binding, block, nextKey, job>>
-----------------------------------------------------------------------------
Connect(w) == SetOrigin(w) \/ MarkRepo(w) \/ MarkUrl(w) \/ ConnectDone(w)
Test(w) == \/ GetRepo(w) \/ GetUrl(w) \/ CheckOrigin(w)
           \/ CheckSsh(w) \/ Reach(w) \/ TestDone(w)

Outside ==
  \/ Crash
  \/ \E p \in Paths : CreateKey(p)
  \/ \E p, q \in Paths : RenameKey(p, q)
  \/ \E r \in Repos : \/ Sync(r)
                      \/ \E p \in Paths : Bind(r, p)
                      \/ \E d \in Dirs : Clone(r, d)
  \/ \E k \in Keys : UserDeletesDeployKey(k)
  \/ \E d \in Dirs : RemoveTree(d) \/ \E u \in Urls : UserSetsOrigin(d, u)

Next ==
  \/ \E w \in Workers : Start(w) \/ Look(w) \/ Fails(w) \/ Connect(w) \/ Test(w)
  \/ Outside

Spec == Init /\ [][Next]_vars
-----------------------------------------------------------------------------
JobsOf(op, steps) ==
  [op : {op}, pc : steps, repo : Repos, url : Urls, path : Paths,
   dir : Dirs \cup {None}, alone : BOOLEAN]
Jobs == JobsOf("connect", ConnectSteps) \cup JobsOf("test", TestSteps)

TypeOK ==
  /\ name \in [Repos -> Names]
  /\ tree \in [Dirs -> Trees \cup {None}]
  /\ latest \in [Repos -> Dirs \cup {None}]
  /\ file \in [Paths -> Keys \cup {0}]
  /\ deploy \in [Keys -> Repos \cup {None}]
  /\ binding \in [Repos -> [path : Paths, key : Keys] \cup {None}]
  /\ block \in [Repos -> [name : Names, path : Paths] \cup {None}]
  /\ nextKey \in 1..(MaxKeys + 1) /\ changes \in 0..MaxChanges
  /\ job \in [Workers -> Jobs \cup {Idle}]
  /\ \A w \in Workers : job[w].pc \notin {"idle", "look"} => job[w].dir \in Dirs
  /\ ready \in [Dirs -> Repos \cup {None}]

(* A work tree marked with a url had it set as origin: whatever crashes,   *)
(* fails or overlaps, the mark never says more than was done.              *)
MarkedWasWired ==
  \A d \in Dirs : tree[d] # None /\ tree[d].markUrl # None =>
    tree[d].markUrl \in tree[d].wired

(* Connect leaves what Test looks for: while nobody touches the work tree  *)
(* and the repository keeps its name, the three checks of a test pass.     *)
ConnectSatisfiesTest ==
  \A d \in Dirs : ready[d] # None =>
    /\ tree[d] # None
    /\ tree[d].markRepo = ready[d]
    /\ tree[d].markUrl = Url(ready[d]) /\ tree[d].origin = Url(ready[d])

(* A test that passes alone has reached the repository that was tested,    *)
(* with its own deploy key and under its alias: a key that was renamed     *)
(* away, another key that took its path, or an alias of an old name do not *)
(* pass for it.                                                            *)
TestMeansReachable ==
  [][\A w \in Workers : job[w].alone /\ job'[w].pc = "passed" /\ job[w].pc # "passed" =>
       /\ tree[job[w].dir].origin = job[w].url
       /\ Reaches(job[w].url, job[w].path)]_vars
=============================================================================
