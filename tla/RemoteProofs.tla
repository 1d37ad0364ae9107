---------------------------- MODULE RemoteProofs ----------------------------
(***************************************************************************)
(* Proofs about Remote for any repositories, directories, key paths and    *)
(* number of commands in flight, without a bound on what happens outside.  *)
(***************************************************************************)
EXTENDS Remote, TLAPS

USE RemoteAssumption, NoTree

(* A command that is alone is the only one. *)
Alone ==
  \A w, v \in Workers : job[w].alone /\ v # w => ~Active(v)

(* A work tree does not go while a command is at it. *)
TreeStays ==
  \A w \in Workers : job[w].dir # None => tree[job[w].dir] # None

(* What a connect that has got to pc has done to its work tree, whatever   *)
(* else is going on, and what is still true of it if nothing else is.      *)
Wires ==
  \A w \in Workers : job[w].pc \in {"mark repo", "mark url", "list"} =>
    job[w].url \in tree[job[w].dir].wired

Halfway ==
  \A w \in Workers : job[w].alone =>
    /\ job[w].pc \in {"mark repo", "mark url", "list"} =>
         tree[job[w].dir].origin = job[w].url
    /\ job[w].pc \in {"mark url", "list"} => tree[job[w].dir].markRepo = job[w].repo
    /\ job[w].pc = "list" => tree[job[w].dir].markUrl = job[w].url
    /\ job[w].op = "test" /\ job[w].pc \in {"ssh", "reach"} =>
         tree[job[w].dir].origin = job[w].url

(* A connect writes over nothing that is still promised to another         *)
(* repository, and of its own repository it knows the current url.         *)
Owns ==
  \A w \in Workers :
    /\ job[w].pc \in {"mark repo", "mark url", "list"} =>
         ready[job[w].dir] \in {None, job[w].repo}
    /\ Active(w) /\ (\E d \in Dirs : ready[d] = job[w].repo) =>
         job[w].url = Url(job[w].repo)

Inv == /\ Alone /\ TreeStays /\ Wires /\ Halfway /\ Owns
       /\ MarkedWasWired /\ ConnectSatisfiesTest
-----------------------------------------------------------------------------
LEMMA IdleStaysIdle == [Idle EXCEPT !.alone = FALSE] = Idle
<1> DEFINE Idles == [op : {"idle"}, pc : {"idle"}, repo : {None}, url : {None},
                     path : {None}, dir : {None}, alone : {FALSE}]
<1>1. [Idle EXCEPT !.alone = FALSE] \in Idles BY DEF Idle
<1>2. ASSUME NEW j \in Idles PROVE j = Idle BY DEF Idle
<1> QED BY <1>1, <1>2

(* The commands by what they are about to do. *)
LEMMA JobTypes ==
  ASSUME TypeOK, NEW w \in Workers
  PROVE  /\ Active(w) => job[w] \in Jobs
         /\ ~Active(w) => job[w] = Idle
         /\ job[w].pc = "look" => job[w] \in Jobs
         /\ job[w].pc \in ConnectSteps \ {"look"} =>
              job[w] \in JobsOf("connect", ConnectSteps) /\ job[w].dir \in Dirs
         /\ job[w].pc \in TestSteps \ {"look"} =>
              job[w] \in JobsOf("test", TestSteps) /\ job[w].dir \in Dirs
<1>1. job[w] \in Jobs \cup {Idle} BY DEF TypeOK
<1>2. Active(w) => job[w] \in Jobs BY <1>1 DEF Active, Idle
<1>3. ~Active(w) => job[w] = Idle BY <1>1 DEF Active, Jobs, JobsOf
<1>4. job[w].pc = "look" => job[w] \in Jobs BY <1>1 DEF Idle
<1>5. job[w].pc \notin {"idle", "look"} => job[w].dir \in Dirs BY DEF TypeOK
<1>6. job[w] \in JobsOf("connect", ConnectSteps) => job[w].pc \in ConnectSteps
  BY DEF JobsOf
<1>7. job[w] \in JobsOf("test", TestSteps) => job[w].pc \in TestSteps
  BY DEF JobsOf
<1>8. /\ Idle.pc \notin ConnectSteps \cup TestSteps
      /\ ConnectSteps \cap TestSteps = {"look"}
  BY DEF Idle, ConnectSteps, TestSteps
<1>9. "idle" \notin ConnectSteps \cup TestSteps BY DEF ConnectSteps, TestSteps
<1> QED BY <1>1, <1>2, <1>3, <1>4, <1>5, <1>6, <1>7, <1>8, <1>9 DEF Jobs

LEMMA UrlType ==
  ASSUME TypeOK, NEW r \in Repos
  PROVE  Url(r) \in Urls
BY DEF TypeOK, Url, Urls

LEMMA BecomesType ==
  ASSUME TypeOK, NEW w \in Workers, NEW j \in Jobs \cup {Idle}, Becomes(w, j),
         j.pc \notin {"idle", "look"} => j.dir \in Dirs
  PROVE  /\ job' \in [Workers -> Jobs \cup {Idle}]
         /\ \A v \in Workers : job'[v].pc \notin {"idle", "look"} => job'[v].dir \in Dirs
BY DEF TypeOK, Becomes

LEMMA GotoType ==
  ASSUME TypeOK, NEW w \in Workers, NEW pc, Goto(w, pc), job[w].dir \in Dirs,
         \/ job[w] \in JobsOf("connect", ConnectSteps) /\ pc \in ConnectSteps
         \/ job[w] \in JobsOf("test", TestSteps) /\ pc \in TestSteps
  PROVE  /\ job' \in [Workers -> Jobs \cup {Idle}]
         /\ \A v \in Workers : job'[v].pc \notin {"idle", "look"} => job'[v].dir \in Dirs
         /\ job' = [job EXCEPT ![w] = [job[w] EXCEPT !.pc = pc]]
<1>1. [job[w] EXCEPT !.pc = pc] \in Jobs /\ [job[w] EXCEPT !.pc = pc].dir \in Dirs
  BY DEF Jobs, JobsOf
<1> QED BY <1>1, BecomesType DEF Goto, Becomes

LEMMA EndsType ==
  ASSUME TypeOK, NEW w \in Workers, Ends(w)
  PROVE  /\ job' \in [Workers -> Jobs \cup {Idle}]
         /\ \A v \in Workers : job'[v].pc \notin {"idle", "look"} => job'[v].dir \in Dirs
BY BecomesType DEF Ends, Idle
-----------------------------------------------------------------------------
(* Every step keeps the types. *)
LEMMA Typing == TypeOK /\ [Next]_vars => TypeOK'
<1> SUFFICES ASSUME TypeOK, [Next]_vars PROVE TypeOK'
  OBVIOUS
<1>1. ASSUME NEW w \in Workers, Start(w) PROVE TypeOK'
  <2>1. PICK r \in Repos, op \in {"connect", "test"} :
          /\ Usable(r)
          /\ job' = [v \in Workers |->
                 IF v # w THEN [job[v] EXCEPT !.alone = FALSE]
                 ELSE [Idle EXCEPT !.op = op, !.pc = "look", !.repo = r, !.url = Url(r),
                                   !.path = binding[r].path, !.alone = Quiet]]
    BY <1>1 DEF Start
  <2>2. Url(r) \in Urls /\ binding[r].path \in Paths /\ Quiet \in BOOLEAN
    BY <2>1, UrlType DEF Usable, TypeOK, Quiet
  <2>3. [Idle EXCEPT !.op = op, !.pc = "look", !.repo = r, !.url = Url(r),
                     !.path = binding[r].path, !.alone = Quiet] \in Jobs
    BY <2>2 DEF Jobs, JobsOf, Idle, ConnectSteps, TestSteps
  <2>4. \A v \in Workers : [job[v] EXCEPT !.alone = FALSE] \in Jobs \cup {Idle}
                            /\ [job[v] EXCEPT !.alone = FALSE].pc = job[v].pc
                            /\ [job[v] EXCEPT !.alone = FALSE].dir = job[v].dir
    <3> TAKE v \in Workers
    <3>1. CASE job[v] = Idle
      <4>1. [job[v] EXCEPT !.alone = FALSE] = Idle BY <3>1, IdleStaysIdle
      <4> QED BY <3>1, <4>1
    <3>2. CASE job[v] \in Jobs BY <3>2 DEF Jobs, JobsOf
    <3> QED BY <3>1, <3>2 DEF TypeOK
  <2>5. job' \in [Workers -> Jobs \cup {Idle}]
    BY <2>1, <2>3, <2>4
  <2>6. \A v \in Workers : job'[v].pc \notin {"idle", "look"} => job'[v].dir \in Dirs
    BY <2>1, <2>4 DEF TypeOK, Idle
  <2> QED BY <1>1, <2>5, <2>6 DEF Start, world, TypeOK
<1>2. ASSUME NEW w \in Workers, Look(w) PROVE TypeOK'
  <2>1. job[w] \in Jobs BY <1>2, JobTypes DEF Look
  <2>2. latest[job[w].repo] \in Dirs BY <1>2, <2>1 DEF Look, TypeOK, Jobs, JobsOf
  <2>3. [job[w] EXCEPT !.dir = latest[job[w].repo],
           !.pc = IF job[w].op = "connect" THEN "set" ELSE "get repo"] \in Jobs
    BY <2>1, <2>2 DEF Jobs, JobsOf, ConnectSteps, TestSteps
  <2>4. [job[w] EXCEPT !.dir = latest[job[w].repo],
           !.pc = IF job[w].op = "connect" THEN "set" ELSE "get repo"].dir \in Dirs
    BY <2>1, <2>2 DEF Jobs, JobsOf
  <2> QED BY <1>2, <2>3, <2>4, BecomesType DEF Look, world, TypeOK
<1>3. ASSUME NEW w \in Workers, Fails(w) PROVE TypeOK'
  BY <1>3, EndsType DEF Fails, world, TypeOK
<1>4. ASSUME NEW w \in Workers, Connect(w) PROVE TypeOK'
  <2>0. /\ job[w] \in JobsOf("connect", ConnectSteps) /\ job[w].dir \in Dirs
        /\ job[w].url \in Urls /\ job[w].repo \in Repos
    BY <1>4, JobTypes DEF Connect, SetOrigin, MarkRepo, MarkUrl, ConnectDone, At, ConnectSteps, JobsOf
  <2>1. tree[job[w].dir] # None => tree[job[w].dir] \in Trees
    BY <2>0 DEF TypeOK
  <2>2. CASE SetOrigin(w)
    <3>1. [In(w) EXCEPT !.origin = job[w].url, !.wired = @ \cup {job[w].url}] \in Trees
      BY <2>0, <2>1, <2>2 DEF SetOrigin, In, Trees
    <3>2. tree' \in [Dirs -> Trees \cup {None}]
      BY <2>2, <3>1 DEF SetOrigin, Edited, TypeOK
    <3>3. ready' \in [Dirs -> Repos \cup {None}]
      BY <2>2 DEF SetOrigin, TypeOK
    <3> QED BY <2>0, <2>2, <3>2, <3>3, GotoType DEF SetOrigin, TypeOK, ConnectSteps
  <2>3. CASE MarkRepo(w)
    <3>1. [In(w) EXCEPT !.markRepo = job[w].repo] \in Trees
      BY <2>0, <2>1, <2>3 DEF MarkRepo, In, Trees
    <3>2. tree' \in [Dirs -> Trees \cup {None}]
      BY <2>3, <3>1 DEF MarkRepo, Edited, TypeOK
    <3> QED BY <2>0, <2>3, <3>2, GotoType DEF MarkRepo, TypeOK, ConnectSteps
  <2>4. CASE MarkUrl(w)
    <3>1. [In(w) EXCEPT !.markUrl = job[w].url] \in Trees
      BY <2>0, <2>1, <2>4 DEF MarkUrl, In, Trees
    <3>2. tree' \in [Dirs -> Trees \cup {None}]
      BY <2>4, <3>1 DEF MarkUrl, Edited, TypeOK
    <3> QED BY <2>0, <2>4, <3>2, GotoType DEF MarkUrl, TypeOK, ConnectSteps
  <2>5. CASE ConnectDone(w)
    <3>1. ready' \in [Dirs -> Repos \cup {None}]
      BY <2>0, <2>5 DEF ConnectDone, TypeOK
    <3> QED BY <2>5, <3>1, EndsType DEF ConnectDone, world, TypeOK
  <2> QED BY <1>4, <2>2, <2>3, <2>4, <2>5 DEF Connect
<1>5. ASSUME NEW w \in Workers, Test(w) PROVE TypeOK'
  <2>0. job[w] \in JobsOf("test", TestSteps) /\ job[w].dir \in Dirs
    BY <1>5, JobTypes
    DEF Test, GetRepo, GetUrl, CheckOrigin, CheckSsh, Reach, TestDone, At, TestSteps
  <2>1. (\E pc \in TestSteps : Goto(w, pc)) \/ Ends(w)
    BY <1>5 DEF Test, GetRepo, GetUrl, CheckOrigin, CheckSsh, Reach, TestDone, TestSteps
  <2>2. UNCHANGED <<world, changes, ready>>
    BY <1>5 DEF Test, GetRepo, GetUrl, CheckOrigin, CheckSsh, Reach, TestDone
  <2> QED BY <2>0, <2>1, <2>2, GotoType, EndsType DEF world, TypeOK
<1>6. ASSUME Crash PROVE TypeOK'
  BY <1>6 DEF Crash, Happens, world, TypeOK, Idle
<1>7. ASSUME NEW p \in Paths, CreateKey(p) PROVE TypeOK'
  BY <1>7 DEF CreateKey, TypeOK, Keys
<1>8. ASSUME NEW p \in Paths, NEW q \in Paths, RenameKey(p, q) PROVE TypeOK'
  BY <1>8 DEF RenameKey, Happens, TypeOK
<1>9. ASSUME NEW r \in Repos, Sync(r) PROVE TypeOK'
  BY <1>9 DEF Sync, Happens, TypeOK, Names
<1>10. ASSUME NEW r \in Repos, NEW p \in Paths, Bind(r, p) PROVE TypeOK'
  <2>1. file[p] \in Keys /\ name[r] \in Names BY <1>10 DEF Bind, TypeOK
  <2>2. /\ deploy' \in [Keys -> Repos \cup {None}]
        /\ binding' \in [Repos -> [path : Paths, key : Keys] \cup {None}]
        /\ block' \in [Repos -> [name : Names, path : Paths] \cup {None}]
    BY <1>10, <2>1 DEF Bind, TypeOK
  <2> QED BY <1>10, <2>2 DEF Bind, TypeOK
<1>11. ASSUME NEW r \in Repos, NEW d \in Dirs, Clone(r, d) PROVE TypeOK'
  <2>1. binding[r].path \in Paths /\ name[r] \in Names
    BY <1>11 DEF Clone, Usable, TypeOK
  <2>2. Cloned(Url(r)) \in Trees BY UrlType DEF Cloned, Trees
  <2>3. /\ block' \in [Repos -> [name : Names, path : Paths] \cup {None}]
        /\ tree' \in [Dirs -> Trees \cup {None}]
        /\ latest' \in [Repos -> Dirs \cup {None}]
    BY <1>11, <2>1, <2>2 DEF Clone, TypeOK
  <2> QED BY <1>11, <2>3 DEF Clone, TypeOK
<1>12. ASSUME NEW k \in Keys, UserDeletesDeployKey(k) PROVE TypeOK'
  BY <1>12 DEF UserDeletesDeployKey, Happens, TypeOK
<1>13. ASSUME NEW d \in Dirs, RemoveTree(d) PROVE TypeOK'
  BY <1>13 DEF RemoveTree, Happens, TypeOK
<1>14. ASSUME NEW d \in Dirs, NEW u \in Urls, UserSetsOrigin(d, u) PROVE TypeOK'
  <2>1. [tree[d] EXCEPT !.origin = u] \in Trees
    BY <1>14 DEF UserSetsOrigin, TypeOK, Trees
  <2>2. tree' = [tree EXCEPT ![d] = [tree[d] EXCEPT !.origin = u]]
    BY <1>14 DEF UserSetsOrigin
  <2> QED BY <1>14, <2>1, <2>2 DEF UserSetsOrigin, Happens, TypeOK
<1>15. CASE UNCHANGED vars
  BY <1>15 DEF vars, world, TypeOK
<1> QED
  BY <1>1, <1>2, <1>3, <1>4, <1>5, <1>6, <1>7, <1>8, <1>9, <1>10, <1>11, <1>12,
     <1>13, <1>14, <1>15 DEF Next, Outside

LEMMA TypingInit == Init => TypeOK
BY DEF Init, TypeOK, Names, Idle

(* The type invariant holds of every run. *)
THEOREM TypeCorrect == Spec => []TypeOK
<1> QED BY TypingInit, Typing, PTL DEF Spec
-----------------------------------------------------------------------------
(* What a step does to the commands. *)
LEMMA GotoMoves ==
  ASSUME TypeOK, NEW w \in Workers, NEW pc, Goto(w, pc), job[w] \in Jobs
  PROVE  /\ job'[w].pc = pc
         /\ job'[w].op = job[w].op /\ job'[w].repo = job[w].repo
         /\ job'[w].url = job[w].url /\ job'[w].path = job[w].path
         /\ job'[w].dir = job[w].dir /\ job'[w].alone = job[w].alone
         /\ \A v \in Workers : v # w => job'[v] = job[v]
BY DEF TypeOK, Goto, Becomes, Jobs, JobsOf

LEMMA EndsMoves ==
  ASSUME TypeOK, NEW w \in Workers, Ends(w)
  PROVE  /\ job'[w] = Idle
         /\ \A v \in Workers : v # w => job'[v] = job[v]
BY DEF TypeOK, Ends, Becomes

LEMMA IdleIs ==
  /\ Idle.op = "idle" /\ Idle.pc = "idle" /\ Idle.dir = None /\ Idle.alone = FALSE
BY DEF Idle

LEMMA JobDir ==
  ASSUME TypeOK, NEW w \in Workers
  PROVE  job[w].dir \in Dirs \cup {None}
<1>1. CASE job[w] = Idle BY <1>1, IdleIs
<1>2. CASE job[w] \in Jobs BY <1>2 DEF Jobs, JobsOf
<1> QED BY <1>1, <1>2 DEF TypeOK

LEMMA SameTrees ==
  ASSUME Inv, UNCHANGED <<name, tree, ready>>
  PROVE  MarkedWasWired' /\ ConnectSatisfiesTest'
<1>1. MarkedWasWired' BY DEF Inv, MarkedWasWired
<1>2. \A r : Url(r)' = Url(r) BY DEF Url
<1>3. ConnectSatisfiesTest' BY <1>2 DEF Inv, ConnectSatisfiesTest
<1> QED BY <1>1, <1>3

(* A command that ends takes nothing from what is promised. *)
LEMMA EndsKeeps ==
  ASSUME TypeOK, Inv, NEW w \in Workers, Ends(w), UNCHANGED <<world, ready>>
  PROVE  Inv'
<1>1. Alone'
  BY EndsMoves, IdleIs DEF Inv, Alone, Active
<1>2. TreeStays' /\ Wires' /\ Halfway'
  BY ZenonT(60), EndsMoves, IdleIs DEF Inv, TreeStays, Wires, Halfway, world
<1>3. Owns'
  BY ZenonT(60), EndsMoves, IdleIs DEF Inv, Owns, Active, Url, world
<1>4. MarkedWasWired' /\ ConnectSatisfiesTest'
  BY SameTrees DEF world
<1> QED BY <1>1, <1>2, <1>3, <1>4 DEF Inv

LEMMA StartKeeps ==
  ASSUME TypeOK, Inv, NEW w \in Workers, Start(w)
  PROVE  Inv'
<1>1. PICK r \in Repos, op \in {"connect", "test"} :
        job' = [v \in Workers |->
               IF v # w THEN [job[v] EXCEPT !.alone = FALSE]
               ELSE [Idle EXCEPT !.op = op, !.pc = "look", !.repo = r, !.url = Url(r),
                                 !.path = binding[r].path, !.alone = Quiet]]
  BY DEF Start
<1>2. /\ job'[w].op = op /\ job'[w].pc = "look" /\ job'[w].repo = r /\ job'[w].url = Url(r)
      /\ job'[w].dir = None /\ job'[w].alone = Quiet
  BY <1>1 DEF Idle
<1>3. ASSUME NEW v \in Workers, v # w
      PROVE  /\ job'[v].op = job[v].op /\ job'[v].pc = job[v].pc /\ job'[v].repo = job[v].repo
             /\ job'[v].url = job[v].url /\ job'[v].dir = job[v].dir /\ job'[v].alone = FALSE
  <2>1. job'[v] = [job[v] EXCEPT !.alone = FALSE] BY <1>1, <1>3
  <2>2. CASE job[v] = Idle
    <3>1. job'[v] = Idle BY <2>1, <2>2, IdleStaysIdle
    <3> QED BY <2>2, <3>1, IdleIs
  <2>3. CASE job[v] \in Jobs BY <2>1, <2>3 DEF Jobs, JobsOf
  <2> QED BY <2>2, <2>3 DEF TypeOK
<1>4. UNCHANGED <<world, ready>> BY DEF Start
<1>5. Alone' BY ZenonT(60), <1>2, <1>3 DEF Alone, Quiet, Active
<1>6. TreeStays' BY <1>2, <1>3, <1>4 DEF Inv, TreeStays, world
<1>7. Wires' BY <1>2, <1>3, <1>4 DEF Inv, Wires, world
<1>8. Halfway' BY <1>2, <1>3 DEF Halfway
<1>9. Owns' BY ZenonT(60), <1>2, <1>3, <1>4 DEF Inv, Owns, Active, Url, world
<1>10. MarkedWasWired' /\ ConnectSatisfiesTest'
  BY <1>4, SameTrees DEF world
<1> QED BY <1>5, <1>6, <1>7, <1>8, <1>9, <1>10 DEF Inv

LEMMA LookKeeps ==
  ASSUME TypeOK, Inv, NEW w \in Workers, Look(w)
  PROVE  Inv'
<1>1. job[w] \in Jobs /\ Active(w) BY JobTypes, IdleIs DEF Look, Active
<1>2. /\ job'[w].op = job[w].op /\ job'[w].repo = job[w].repo
      /\ job'[w].url = job[w].url /\ job'[w].alone = job[w].alone
      /\ job'[w].pc \in {"set", "get repo"}
      /\ tree[job'[w].dir] # None
      /\ \A v \in Workers : v # w => job'[v] = job[v]
  BY <1>1 DEF Look, Becomes, TypeOK, Jobs, JobsOf
<1>3. UNCHANGED <<world, ready>> BY DEF Look
<1>4. Alone' BY ZenonT(60), <1>1, <1>2 DEF Inv, Alone, Active
<1>5. TreeStays' BY <1>2, <1>3 DEF Inv, TreeStays, world
<1>6. Wires' BY <1>2, <1>3 DEF Inv, Wires, world
<1>6a. Halfway'
  <2>1. tree' = tree BY <1>3 DEF world
  <2>2. ASSUME NEW v \in Workers, v # w PROVE job'[v] = job[v] BY <1>2, <2>2
  <2>3. job'[w].pc \notin {"mark repo", "mark url", "list", "ssh", "reach"} BY <1>2
  <2> QED BY ZenonT(60), <2>1, <2>2, <2>3 DEF Inv, Halfway
<1>7. Owns'
  <2>1. \A r : Url(r)' = Url(r) BY <1>3 DEF Url, world
  <2> QED BY ZenonT(60), <1>1, <1>2, <1>3, <2>1 DEF Inv, Owns, Active, world
<1>8. MarkedWasWired' /\ ConnectSatisfiesTest'
  BY <1>3, SameTrees DEF world
<1> QED BY <1>4, <1>5, <1>6, <1>6a, <1>7, <1>8 DEF Inv
-----------------------------------------------------------------------------
(* Connect, command by command: each edits the work tree at the directory  *)
(* of the command, and what the invariant needs of the new one is:         *)
EditsTo(w, pc, new) ==
  LET d == job[w].dir IN
  /\ job[w].pc \in {"set", "mark repo", "mark url"}
  /\ Goto(w, pc) /\ name' = name
  /\ tree[d] # None /\ tree' = [tree EXCEPT ![d] = new]
  /\ \A e \in Dirs : ready'[e] = IF e = d /\ ready[e] # job[w].repo THEN None ELSE ready[e]
  /\ tree[d].wired \subseteq new.wired /\ job[w].url \in new.wired
  /\ new.markUrl # None => new.markUrl \in new.wired
  /\ ready[d] = job[w].repo => /\ new.markRepo = job[w].repo
                               /\ new.markUrl = job[w].url /\ new.origin = job[w].url
  /\ job[w].alone => /\ new.origin = job[w].url
                     /\ pc \in {"mark url", "list"} => new.markRepo = job[w].repo
                     /\ pc = "list" => new.markUrl = job[w].url

LEMMA EditKeeps ==
  ASSUME TypeOK, Inv, NEW w \in Workers, NEW new \in Trees,
         NEW pc \in {"mark repo", "mark url", "list"}, EditsTo(w, pc, new)
  PROVE  Inv'
<1> DEFINE d == job[w].dir
<1> USE DEF EditsTo
<1>1. /\ job[w] \in JobsOf("connect", ConnectSteps) /\ d \in Dirs
      /\ job[w] \in Jobs /\ Active(w) /\ job[w].repo \in Repos
  BY JobTypes, IdleIs DEF ConnectSteps, Active, Jobs, JobsOf
<1>2. tree'[d] = new /\ \A e \in Dirs : e # d => tree'[e] = tree[e]
  BY <1>1 DEF TypeOK
<1>3. new # None OBVIOUS
<1>4. /\ job'[w].pc = pc /\ job'[w].op = "connect"
      /\ job'[w].repo = job[w].repo /\ job'[w].url = job[w].url
      /\ job'[w].dir = d /\ job'[w].alone = job[w].alone
      /\ \A v \in Workers : v # w => job'[v] = job[v]
  BY ZenonT(60), <1>1, GotoMoves DEF JobsOf
<1>5. \A v \in Workers : job[v].dir \in Dirs \cup {None} BY JobDir
<1>6. \A r : Url(r)' = Url(r) BY DEF Url
<1>7. Alone'
  <2>1. \A v \in Workers : job'[v].alone = job[v].alone /\ (Active(v)' => Active(v))
    BY <1>1, <1>4 DEF Active
  <2> QED BY <2>1 DEF Inv, Alone
<1>8. TreeStays'
  <2>1. \A e \in Dirs : tree[e] # None => tree'[e] # None BY <1>2, <1>3
  <2>2. \A v \in Workers : job'[v].dir = job[v].dir BY <1>4
  <2> QED BY <1>5, <2>1, <2>2 DEF Inv, TreeStays
<1>9. Wires'
  <2> SUFFICES ASSUME NEW v \in Workers, job'[v].pc \in {"mark repo", "mark url", "list"}
               PROVE  job'[v].url \in tree'[job'[v].dir].wired
    BY DEF Wires
  <2>1. CASE v = w BY <1>2, <1>4, <2>1
  <2>2. CASE v # w
    <3>1. job[v].dir \in Dirs BY <1>4, <2>2 DEF TypeOK
    <3> QED BY ZenonT(60), <1>2, <1>4, <2>2, <3>1 DEF Inv, Wires
  <2> QED BY <2>1, <2>2
<1>10. Halfway'
  <2>1. ASSUME NEW v \in Workers, v # w, job'[v].alone
        PROVE  job'[v].pc \notin {"mark repo", "mark url", "list", "ssh", "reach"}
    <3>1. job[v].alone /\ ~Active(w) BY <1>4, <2>1 DEF Inv, Alone
    <3> QED BY <1>1, <3>1
  <2>2. tree'[job'[w].dir] = new /\ job'[w].op # "test" BY <1>2, <1>4
  <2>3. job'[w].alone =>
          /\ new.origin = job'[w].url
          /\ job'[w].pc \in {"mark url", "list"} => new.markRepo = job'[w].repo
          /\ job'[w].pc = "list" => new.markUrl = job'[w].url
    BY <1>4
  <2> QED BY <2>1, <2>2, <2>3 DEF Halfway
<1>11. Owns'
  <2>1. ASSUME NEW v \in Workers, job'[v].pc \in {"mark repo", "mark url", "list"}
        PROVE  ready'[job'[v].dir] \in {None, job'[v].repo}
    <3>1. CASE v = w BY <1>1, <1>4, <3>1
    <3>2. CASE v # w
      <4>1. job[v].dir \in Dirs BY <1>4, <2>1, <3>2 DEF TypeOK
      <4>2. ready[job[v].dir] \in {None, job[v].repo}
        BY <1>4, <2>1, <3>2 DEF Inv, Owns
      <4>3. ready'[job[v].dir] \in {None, ready[job[v].dir]} BY <4>1
      <4> QED BY <1>4, <3>2, <4>2, <4>3
    <3> QED BY <3>1, <3>2
  <2>2. ASSUME NEW v \in Workers, Active(v)', NEW e \in Dirs, ready'[e] = job'[v].repo
        PROVE  job'[v].url = Url(job[v].repo)
    <3>1. job'[v].repo = job[v].repo /\ job'[v].url = job[v].url /\ Active(v)
      <4>1. CASE v = w BY <1>1, <1>4, <4>1
      <4>2. CASE v # w BY <1>4, <2>2, <4>2 DEF Active
      <4> QED BY <4>1, <4>2
    <3>2. job[v].repo \in Repos /\ job[v].repo # None
      <4>1. job[v] \in Jobs BY <3>1, JobTypes
      <4> QED BY <4>1 DEF Jobs, JobsOf
    <3>3. ready[e] = job[v].repo
      BY <2>2, <3>1, <3>2
    <3> QED BY <3>1, <3>3 DEF Inv, Owns
  <2>3. \A v \in Workers : Active(v)' => job'[v].repo = job[v].repo
    BY <1>4 DEF Active
  <2> QED BY <1>6, <2>1, <2>2, <2>3 DEF Owns
<1>12. MarkedWasWired'
  BY <1>2 DEF Inv, MarkedWasWired
<1>13. ConnectSatisfiesTest'
  <2> SUFFICES ASSUME NEW e \in Dirs, ready'[e] # None
               PROVE  /\ tree'[e] # None /\ tree'[e].markRepo = ready'[e]
                      /\ tree'[e].markUrl = Url(ready'[e]) /\ tree'[e].origin = Url(ready'[e])
    BY <1>6 DEF ConnectSatisfiesTest
  <2>1. CASE e # d BY ZenonT(60), <1>2, <2>1 DEF Inv, ConnectSatisfiesTest
  <2>2. CASE e = d
    <3>1. ready[d] = job[w].repo /\ ready'[d] = job[w].repo BY <1>1, <2>2
    <3>2. job[w].url = Url(job[w].repo) BY <1>1, <3>1 DEF Inv, Owns
    <3> QED BY <1>2, <1>3, <2>2, <3>1, <3>2
  <2> QED BY <2>1, <2>2
<1> QED BY <1>7, <1>8, <1>9, <1>10, <1>11, <1>12, <1>13 DEF Inv

(* The work tree a connect command is at, and what is promised of it. *)
LEMMA Edits ==
  ASSUME TypeOK, Inv, NEW w \in Workers, At(w, "connect", job[w].pc),
         job[w].pc \in {"set", "mark repo", "mark url"}, In(w) # None
  PROVE  /\ job[w].dir \in Dirs /\ job[w].repo \in Repos /\ job[w].url \in Urls
         /\ In(w) \in Trees
         /\ In(w).markUrl # None => In(w).markUrl \in In(w).wired
         /\ ready[job[w].dir] = job[w].repo =>
              /\ In(w).markRepo = job[w].repo
              /\ In(w).markUrl = job[w].url /\ In(w).origin = job[w].url
         /\ job[w].pc # "set" =>
              /\ job[w].url \in In(w).wired
              /\ \A e \in Dirs : ready[e] =
                   IF e = job[w].dir /\ ready[e] # job[w].repo THEN None ELSE ready[e]
         /\ job[w].alone /\ job[w].pc # "set" => In(w).origin = job[w].url
         /\ job[w].alone /\ job[w].pc = "mark url" => In(w).markRepo = job[w].repo
<1>1. /\ job[w] \in JobsOf("connect", ConnectSteps) /\ job[w].dir \in Dirs /\ Active(w)
  BY JobTypes, IdleIs DEF ConnectSteps, Active
<1>2. job[w].repo \in Repos /\ job[w].url \in Urls BY <1>1 DEF JobsOf
<1>3. In(w) \in Trees BY <1>1 DEF In, TypeOK
<1>4. In(w).markUrl # None => In(w).markUrl \in In(w).wired
  BY <1>1 DEF In, Inv, MarkedWasWired
<1>5. ready[job[w].dir] = job[w].repo =>
        /\ In(w).markRepo = job[w].repo
        /\ In(w).markUrl = job[w].url /\ In(w).origin = job[w].url
  <2> SUFFICES ASSUME ready[job[w].dir] = job[w].repo
               PROVE  /\ In(w).markRepo = job[w].repo
                      /\ In(w).markUrl = job[w].url /\ In(w).origin = job[w].url
    OBVIOUS
  <2>1. job[w].url = Url(job[w].repo) BY <1>1 DEF Inv, Owns
  <2> QED BY <1>1, <1>2, <2>1 DEF Inv, ConnectSatisfiesTest, In
<1>6. job[w].pc # "set" => job[w].url \in In(w).wired
  BY DEF Inv, Wires, In
<1>7. job[w].pc # "set" => ready[job[w].dir] \in {None, job[w].repo}
  BY DEF Inv, Owns
<1>8. job[w].alone /\ job[w].pc # "set" => In(w).origin = job[w].url
  BY DEF Inv, Halfway, In
<1>9. job[w].alone /\ job[w].pc = "mark url" => In(w).markRepo = job[w].repo
  BY DEF Inv, Halfway, In
<1> QED BY <1>1, <1>2, <1>3, <1>4, <1>5, <1>6, <1>7, <1>8, <1>9

LEMMA SetOriginKeeps ==
  ASSUME TypeOK, Inv, NEW w \in Workers, SetOrigin(w)
  PROVE  Inv'
<1> DEFINE d == job[w].dir
           new == [In(w) EXCEPT !.origin = job[w].url, !.wired = @ \cup {job[w].url}]
<1>1. At(w, "connect", "set") /\ job[w].pc = "set" /\ In(w) # None /\ Goto(w, "mark repo")
  BY DEF SetOrigin, At
<1>2. /\ d \in Dirs /\ job[w].url \in Urls /\ In(w) \in Trees
      /\ In(w).markUrl # None => In(w).markUrl \in In(w).wired
      /\ ready[d] = job[w].repo => In(w).markRepo = job[w].repo /\ In(w).markUrl = job[w].url
  BY <1>1, Edits
<1>3. /\ new.origin = job[w].url /\ new.wired = In(w).wired \cup {job[w].url}
      /\ new.markRepo = In(w).markRepo /\ new.markUrl = In(w).markUrl
  BY <1>2 DEF Trees
<1>4. new \in Trees BY <1>2 DEF Trees
<1>5. tree' = [tree EXCEPT ![d] = new] BY Zenon DEF SetOrigin, Edited
<1>6. \A e \in Dirs : ready'[e] = IF e = d /\ ready[e] # job[w].repo THEN None ELSE ready[e]
  BY <1>2 DEF SetOrigin, TypeOK
<1>7. name' = name /\ tree[d] = In(w) BY DEF SetOrigin, In
<1> HIDE DEF new
<1>8. /\ tree[d].wired \subseteq new.wired /\ job[w].url \in new.wired
      /\ new.markUrl # None => new.markUrl \in new.wired
      /\ ready[d] = job[w].repo => /\ new.markRepo = job[w].repo
                                   /\ new.markUrl = job[w].url /\ new.origin = job[w].url
      /\ job[w].alone => new.origin = job[w].url
  BY <1>2, <1>3, <1>7
<1>9. EditsTo(w, "mark repo", new) BY <1>1, <1>5, <1>6, <1>7, <1>8 DEF EditsTo
<1> QED BY <1>4, <1>9, EditKeeps

LEMMA MarkRepoKeeps ==
  ASSUME TypeOK, Inv, NEW w \in Workers, MarkRepo(w)
  PROVE  Inv'
<1> DEFINE d == job[w].dir
           new == [In(w) EXCEPT !.markRepo = job[w].repo]
<1>1. /\ At(w, "connect", "mark repo") /\ job[w].pc = "mark repo" /\ In(w) # None
      /\ Goto(w, "mark url") /\ name' = name /\ ready' = ready
  BY DEF MarkRepo, At
<1>2. /\ d \in Dirs /\ job[w].repo \in Repos /\ In(w) \in Trees
      /\ In(w).markUrl # None => In(w).markUrl \in In(w).wired
      /\ ready[d] = job[w].repo => In(w).markUrl = job[w].url /\ In(w).origin = job[w].url
      /\ job[w].url \in In(w).wired
      /\ \A e \in Dirs : ready[e] = IF e = d /\ ready[e] # job[w].repo THEN None ELSE ready[e]
      /\ job[w].alone => In(w).origin = job[w].url
  BY <1>1, Edits
<1>3. /\ new.origin = In(w).origin /\ new.wired = In(w).wired
      /\ new.markRepo = job[w].repo /\ new.markUrl = In(w).markUrl
  BY <1>2 DEF Trees
<1>4. new \in Trees BY <1>2 DEF Trees
<1>5. tree' = [tree EXCEPT ![d] = new] BY Zenon DEF MarkRepo, Edited
<1>6. tree[d] = In(w) BY DEF In
<1> HIDE DEF new
<1>7. /\ tree[d].wired \subseteq new.wired /\ job[w].url \in new.wired
      /\ new.markUrl # None => new.markUrl \in new.wired
      /\ ready[d] = job[w].repo => /\ new.markRepo = job[w].repo
                                   /\ new.markUrl = job[w].url /\ new.origin = job[w].url
      /\ job[w].alone => new.origin = job[w].url /\ new.markRepo = job[w].repo
  BY <1>2, <1>3, <1>6
<1>8. EditsTo(w, "mark url", new) BY <1>1, <1>2, <1>5, <1>6, <1>7 DEF EditsTo
<1> QED BY <1>4, <1>8, EditKeeps

LEMMA MarkUrlKeeps ==
  ASSUME TypeOK, Inv, NEW w \in Workers, MarkUrl(w)
  PROVE  Inv'
<1> DEFINE d == job[w].dir
           new == [In(w) EXCEPT !.markUrl = job[w].url]
<1>1. /\ At(w, "connect", "mark url") /\ job[w].pc = "mark url" /\ In(w) # None
      /\ Goto(w, "list") /\ name' = name /\ ready' = ready
  BY DEF MarkUrl, At
<1>2. /\ d \in Dirs /\ job[w].url \in Urls /\ In(w) \in Trees
      /\ ready[d] = job[w].repo => In(w).markRepo = job[w].repo /\ In(w).origin = job[w].url
      /\ job[w].url \in In(w).wired
      /\ \A e \in Dirs : ready[e] = IF e = d /\ ready[e] # job[w].repo THEN None ELSE ready[e]
      /\ job[w].alone => In(w).origin = job[w].url /\ In(w).markRepo = job[w].repo
  BY <1>1, Edits
<1>3. /\ new.origin = In(w).origin /\ new.wired = In(w).wired
      /\ new.markRepo = In(w).markRepo /\ new.markUrl = job[w].url
  BY <1>2 DEF Trees
<1>4. new \in Trees BY <1>2 DEF Trees
<1>5. tree' = [tree EXCEPT ![d] = new] BY Zenon DEF MarkUrl, Edited
<1>6. tree[d] = In(w) BY DEF In
<1> HIDE DEF new
<1>7. /\ tree[d].wired \subseteq new.wired /\ job[w].url \in new.wired
      /\ new.markUrl # None => new.markUrl \in new.wired
      /\ ready[d] = job[w].repo => /\ new.markRepo = job[w].repo
                                   /\ new.markUrl = job[w].url /\ new.origin = job[w].url
      /\ job[w].alone => new.origin = job[w].url /\ new.markRepo = job[w].repo /\ new.markUrl = job[w].url
  BY <1>2, <1>3, <1>6
<1>8. EditsTo(w, "list", new) BY <1>1, <1>2, <1>5, <1>6, <1>7 DEF EditsTo
<1> QED BY <1>4, <1>8, EditKeeps

LEMMA ConnectDoneKeeps ==
  ASSUME TypeOK, Inv, NEW w \in Workers, ConnectDone(w)
  PROVE  Inv'
<1> DEFINE d == job[w].dir
<1>1. /\ job[w] \in JobsOf("connect", ConnectSteps) /\ d \in Dirs /\ Active(w)
      /\ job[w].pc = "list" /\ job[w].repo \in Repos
  BY JobTypes, IdleIs DEF ConnectDone, At, ConnectSteps, Active, JobsOf
<1>2. Ends(w) /\ UNCHANGED world BY DEF ConnectDone
<1>3. CASE ready' = ready BY <1>2, <1>3, EndsKeeps
<1>4. CASE /\ job[w].alone /\ job[w].url = Url(job[w].repo)
           /\ ready' = [ready EXCEPT ![d] = job[w].repo]
  <2>1. job'[w] = Idle /\ \A v \in Workers : v # w => job'[v] = job[v] /\ ~Active(v)
    BY <1>2, <1>4, EndsMoves DEF Inv, Alone
  <2>2. \A v \in Workers : job'[v] = Idle BY <2>1, JobTypes
  <2>3. Alone' /\ TreeStays' /\ Wires' /\ Halfway' /\ Owns'
    BY <2>2, IdleIs DEF Alone, TreeStays, Wires, Halfway, Owns, Active
  <2>4. MarkedWasWired' BY <1>2 DEF Inv, MarkedWasWired, world
  <2>5. ASSUME NEW e \in Dirs, ready'[e] # None
        PROVE  /\ tree[e] # None /\ tree[e].markRepo = ready'[e]
               /\ tree[e].markUrl = Url(ready'[e]) /\ tree[e].origin = Url(ready'[e])
    <3>1. CASE e # d
      <4>1. ready'[e] = ready[e] BY <1>4, <3>1 DEF TypeOK
      <4> QED BY <2>5, <4>1 DEF Inv, ConnectSatisfiesTest
    <3>2. CASE e = d
      <4>1. ready'[e] = job[w].repo BY <1>1, <1>4, <3>2 DEF TypeOK
      <4>2. tree[d] # None BY DEF ConnectDone, In
      <4>3. /\ tree[d].origin = job[w].url /\ tree[d].markRepo = job[w].repo
            /\ tree[d].markUrl = job[w].url
        BY <1>1, <1>4 DEF Inv, Halfway
      <4> QED BY <1>4, <3>2, <4>1, <4>2, <4>3
    <3> QED BY <3>1, <3>2
  <2>6. tree' = tree /\ \A r : Url(r)' = Url(r) BY <1>2 DEF world, Url
  <2>7. ConnectSatisfiesTest' BY <2>5, <2>6 DEF ConnectSatisfiesTest
  <2> QED BY <2>3, <2>4, <2>7 DEF Inv
<1> QED BY <1>3, <1>4 DEF ConnectDone
-----------------------------------------------------------------------------
(* A test changes nothing; from the moment it has read origin, origin is   *)
(* what it read as long as it is alone.                                    *)
LEMMA TestKeeps ==
  ASSUME TypeOK, Inv, NEW w \in Workers, Test(w)
  PROVE  Inv'
<1>1. CASE TestDone(w)
  <2>1. Ends(w) /\ UNCHANGED <<world, ready>> BY <1>1 DEF TestDone
  <2> QED BY <2>1, EndsKeeps
<1>2. CASE ~TestDone(w)
  <2>1. /\ job[w] \in JobsOf("test", TestSteps) /\ job[w] \in Jobs /\ Active(w)
        /\ UNCHANGED <<world, ready>>
    BY <1>2, JobTypes, IdleIs
    DEF Test, GetRepo, GetUrl, CheckOrigin, CheckSsh, Reach, At, TestSteps, Active, Jobs
  <2>2. PICK pc \in {"get url", "origin", "ssh", "reach", "passed"} :
          /\ Goto(w, pc)
          /\ pc \in {"ssh", "reach"} =>
               In(w).origin = job[w].url \/ job[w].pc \in {"ssh", "reach"}
    BY <1>2 DEF Test, GetRepo, GetUrl, CheckOrigin, CheckSsh, Reach, At
  <2>3. /\ job'[w].pc = pc /\ job'[w].op = job[w].op /\ job'[w].repo = job[w].repo
        /\ job'[w].url = job[w].url /\ job'[w].dir = job[w].dir
        /\ job'[w].alone = job[w].alone
        /\ \A v \in Workers : v # w => job'[v] = job[v]
    BY <2>1, <2>2, GotoMoves
  <2>4. job[w].op = "test" BY <2>1 DEF JobsOf
  <2>5. tree' = tree /\ ready' = ready /\ name' = name /\ \A r : Url(r)' = Url(r)
    BY <2>1 DEF world, Url
  <2>6. Alone'
    <3>1. \A v \in Workers : job'[v].alone = job[v].alone /\ (Active(v)' => Active(v))
      BY <2>3 DEF Active
    <3> QED BY <3>1 DEF Inv, Alone
  <2>7. TreeStays'
    <3>1. \A v \in Workers : job'[v].dir = job[v].dir BY <2>3
    <3> QED BY <2>5, <3>1 DEF Inv, TreeStays
  <2>8. Wires' BY <2>3, <2>5 DEF Inv, Wires
  <2>9. Halfway'
    <3>1. job[w].alone /\ pc \in {"ssh", "reach"} => tree[job[w].dir].origin = job[w].url
      BY <2>2, <2>4 DEF Inv, Halfway, In
    <3>2. \A v \in Workers : v # w => job'[v] = job[v] BY <2>3
    <3>3. /\ job'[w].pc = pc /\ job'[w].alone = job[w].alone
          /\ job'[w].dir = job[w].dir /\ job'[w].url = job[w].url
      BY <2>3
    <3> QED BY ZenonT(60), <2>5, <3>1, <3>2, <3>3 DEF Inv, Halfway
  <2>10. Owns'
    <3>1. \A v \in Workers : (Active(v)' => Active(v)) /\ job'[v].repo = job[v].repo
                              /\ job'[v].url = job[v].url
      BY <2>1, <2>3 DEF Active
    <3>2. \A v \in Workers : job'[v].pc \in {"mark repo", "mark url", "list"} => job'[v] = job[v]
      BY <2>3
    <3> QED BY ZenonT(60), <2>5, <3>1, <3>2 DEF Inv, Owns
  <2>11. MarkedWasWired' /\ ConnectSatisfiesTest' BY <2>5, SameTrees
  <2> QED BY <2>6, <2>7, <2>8, <2>9, <2>10, <2>11 DEF Inv
<1> QED BY <1>1, <1>2
-----------------------------------------------------------------------------
(* What happens outside leaves the commands alone. *)
LEMMA JobsStay ==
  ASSUME Inv, job' = job
  PROVE  Alone'
BY DEF Inv, Alone, Active

LEMMA CrashKeeps ==
  ASSUME TypeOK, Inv, Crash
  PROVE  Inv'
<1>1. \A w \in Workers : job'[w] = Idle BY DEF Crash
<1>2. UNCHANGED <<name, tree, ready>> BY DEF Crash, world
<1>3. Alone' /\ TreeStays' /\ Wires' /\ Halfway' /\ Owns'
  BY <1>1, IdleIs DEF Alone, TreeStays, Wires, Halfway, Owns, Active
<1> QED BY <1>2, <1>3, SameTrees DEF Inv

(* Keys, bindings and deploy keys are not what the invariant is about. *)
LEMMA KeysKeep ==
  ASSUME TypeOK, Inv, UNCHANGED <<name, tree, job, ready>>
  PROVE  Inv'
<1>1. TreeStays' /\ Wires' /\ Halfway' BY DEF Inv, TreeStays, Wires, Halfway
<1>2. \A r : Url(r)' = Url(r) BY DEF Url
<1>3. Owns' BY <1>2 DEF Inv, Owns, Active
<1> QED BY <1>1, <1>3, JobsStay, SameTrees DEF Inv

(* A work tree appears or goes only where no command is. *)
LEMMA TreeKeeps ==
  ASSUME TypeOK, Inv, NEW d \in Dirs, NEW new \in Trees \cup {None},
         UNCHANGED <<name, job>>, tree' = [tree EXCEPT ![d] = new],
         \A w \in Workers : job[w].dir # d,
         new # None => (new.markUrl # None => new.markUrl \in new.wired),
         ready'[d] = None, \A e \in Dirs : e # d => ready'[e] = ready[e]
  PROVE  Inv'
<1>1. tree'[d] = new /\ \A e \in Dirs : e # d => tree'[e] = tree[e] BY DEF TypeOK
<1>2. \A r : Url(r)' = Url(r) BY DEF Url
<1>3. \A w \in Workers : job[w].dir # None => job[w].dir \in Dirs /\ job[w].dir # d BY JobDir
<1>4. \A w \in Workers : job[w].pc \in {"mark repo", "mark url", "list", "ssh", "reach"} =>
        job[w].dir \in Dirs /\ tree'[job[w].dir] = tree[job[w].dir]
          /\ ready'[job[w].dir] = ready[job[w].dir]
  BY <1>1 DEF TypeOK
<1>5. TreeStays' BY <1>1, <1>3 DEF Inv, TreeStays
<1>6. Wires' BY <1>4 DEF Inv, Wires
<1>7. Halfway'
  <2> SUFFICES ASSUME NEW w \in Workers, job[w].alone,
                      job[w].pc \in {"mark repo", "mark url", "list", "ssh", "reach"}
               PROVE  /\ job[w].pc \in {"mark repo", "mark url", "list"} =>
                           tree'[job[w].dir].origin = job[w].url
                      /\ job[w].pc \in {"mark url", "list"} =>
                           tree'[job[w].dir].markRepo = job[w].repo
                      /\ job[w].pc = "list" => tree'[job[w].dir].markUrl = job[w].url
                      /\ job[w].op = "test" /\ job[w].pc \in {"ssh", "reach"} =>
                           tree'[job[w].dir].origin = job[w].url
    BY ZenonT(60) DEF Halfway
  <2>1. tree'[job[w].dir] = tree[job[w].dir] BY <1>4
  <2> QED BY ZenonT(60), <2>1 DEF Inv, Halfway
<1>8. Owns'
  <2>1. \A w \in Workers, e \in Dirs : Active(w) /\ ready'[e] = job[w].repo => ready[e] = job[w].repo
    <3>1. \A w \in Workers : Active(w) => job[w].repo # None
      BY JobTypes DEF Jobs, JobsOf
    <3> QED BY <3>1
  <2>2. \A w \in Workers : job[w].pc \in {"mark repo", "mark url", "list"} =>
          ready'[job[w].dir] \in {None, job[w].repo}
    BY <1>4 DEF Inv, Owns
  <2>3. \A w \in Workers : Active(w) /\ (\E e \in Dirs : ready'[e] = job[w].repo) =>
          job[w].url = Url(job[w].repo)
    BY <2>1 DEF Inv, Owns
  <2> QED BY <1>2, <2>2, <2>3 DEF Owns, Active
<1>9. MarkedWasWired' BY <1>1 DEF Inv, MarkedWasWired
<1>10. ConnectSatisfiesTest' BY <1>1, <1>2 DEF Inv, ConnectSatisfiesTest
<1> QED BY <1>5, <1>6, <1>7, <1>8, <1>9, <1>10, JobsStay DEF Inv

LEMMA CloneKeeps ==
  ASSUME TypeOK, Inv, NEW r \in Repos, NEW d \in Dirs, Clone(r, d)
  PROVE  Inv'
<1>1. Cloned(Url(r)) \in Trees /\ Cloned(Url(r)).markUrl = None
  BY UrlType DEF Cloned, Trees
<1>2. \A w \in Workers : job[w].dir # d BY DEF Clone, Inv, TreeStays
<1>3. ready[d] = None BY DEF Clone, Inv, ConnectSatisfiesTest
<1> QED BY <1>1, <1>2, <1>3, TreeKeeps DEF Clone

LEMMA RemoveTreeKeeps ==
  ASSUME TypeOK, Inv, NEW d \in Dirs, RemoveTree(d)
  PROVE  Inv'
<1>1. ready'[d] = None /\ \A e \in Dirs : e # d => ready'[e] = ready[e]
  BY DEF RemoveTree, TypeOK
<1> QED BY <1>1, TreeKeeps DEF RemoveTree

LEMMA UserSetsOriginKeeps ==
  ASSUME TypeOK, Inv, NEW d \in Dirs, NEW u \in Urls, UserSetsOrigin(d, u)
  PROVE  Inv'
<1> DEFINE new == [tree[d] EXCEPT !.origin = u]
<1>1. tree[d] \in Trees BY DEF UserSetsOrigin, TypeOK
<1>2. new \in Trees /\ new.markUrl = tree[d].markUrl /\ new.wired = tree[d].wired
  BY <1>1 DEF Trees
<1>3. tree[d].markUrl # None => tree[d].markUrl \in tree[d].wired
  BY DEF UserSetsOrigin, Inv, MarkedWasWired
<1>4. tree' = [tree EXCEPT ![d] = new] BY DEF UserSetsOrigin
<1>5. ready'[d] = None /\ \A e \in Dirs : e # d => ready'[e] = ready[e]
  BY DEF UserSetsOrigin, TypeOK
<1> HIDE DEF new
<1> QED BY ZenonT(60), <1>2, <1>3, <1>4, <1>5, TreeKeeps DEF UserSetsOrigin

LEMMA SyncKeeps ==
  ASSUME TypeOK, Inv, NEW r \in Repos, Sync(r)
  PROVE  Inv'
<1>1. tree' = tree /\ job' = job BY DEF Sync
<1>2. \A d \in Dirs : ready'[d] = IF ready[d] = r THEN None ELSE ready[d] BY DEF Sync
<1>3. \A q \in Repos : q # r => Url(q)' = Url(q) BY DEF Sync, Url, TypeOK
<1>4. TreeStays' /\ Wires' /\ Halfway' BY <1>1 DEF Inv, TreeStays, Wires, Halfway
<1>5. Owns'
  <2>1. \A w \in Workers : job[w].pc \in {"mark repo", "mark url", "list"} =>
          ready'[job[w].dir] \in {None, job[w].repo}
    <3>1. \A w \in Workers : job[w].pc \in {"mark repo", "mark url", "list"} =>
            job[w].dir \in Dirs /\ ready[job[w].dir] \in {None, job[w].repo}
      BY DEF TypeOK, Inv, Owns
    <3> QED BY <1>2, <3>1
  <2>2. ASSUME NEW w \in Workers, Active(w), NEW e \in Dirs, ready'[e] = job[w].repo
        PROVE  job[w].url = Url(job[w].repo)'
    <3>1. job[w].repo \in Repos
      <4>1. job[w] \in Jobs BY <2>2, JobTypes
      <4> QED BY <4>1 DEF Jobs, JobsOf
    <3>2. ready[e] = job[w].repo /\ job[w].repo # r BY <1>2, <2>2, <3>1
    <3>3. job[w].url = Url(job[w].repo) BY <2>2, <3>2 DEF Inv, Owns
    <3> QED BY <1>1, <1>3, <3>1, <3>2, <3>3 DEF Url
  <2> QED BY <1>1, <2>1, <2>2 DEF Owns, Active, Url
<1>6. MarkedWasWired' BY <1>1 DEF Inv, MarkedWasWired
<1>7. ConnectSatisfiesTest'
  <2> SUFFICES ASSUME NEW d \in Dirs, ready'[d] # None
               PROVE  /\ tree'[d] # None /\ tree'[d].markRepo = ready'[d]
                      /\ tree'[d].markUrl = <<ready'[d], name'[ready'[d]]>>
                      /\ tree'[d].origin = <<ready'[d], name'[ready'[d]]>>
    BY DEF ConnectSatisfiesTest, Url
  <2>1. ready[d] # r /\ ready'[d] = ready[d] /\ ready[d] \in Repos BY <1>2 DEF TypeOK
  <2>2. name'[ready[d]] = name[ready[d]] BY <2>1 DEF Sync, TypeOK
  <2> QED BY <1>1, <2>1, <2>2 DEF Inv, ConnectSatisfiesTest, Url
<1> QED BY <1>1, <1>4, <1>5, <1>6, <1>7, JobsStay DEF Inv
-----------------------------------------------------------------------------
LEMMA InvInit == Init => Inv
<1> SUFFICES ASSUME Init PROVE Inv
  OBVIOUS
<1>1. \A w \in Workers : job[w] = Idle BY DEF Init
<1>2. \A d \in Dirs : tree[d] = None /\ ready[d] = None BY DEF Init
<1>3. Alone /\ TreeStays /\ Wires /\ Halfway /\ Owns
  BY <1>1, IdleIs DEF Alone, TreeStays, Wires, Halfway, Owns, Active
<1> QED BY <1>2, <1>3 DEF Inv, MarkedWasWired, ConnectSatisfiesTest

LEMMA InvStep == TypeOK /\ Inv /\ [Next]_vars => Inv'
<1> SUFFICES ASSUME TypeOK, Inv, [Next]_vars PROVE Inv'
  OBVIOUS
<1>1. ASSUME NEW w \in Workers, Start(w) PROVE Inv' BY <1>1, StartKeeps
<1>2. ASSUME NEW w \in Workers, Look(w) PROVE Inv' BY <1>2, LookKeeps
<1>3. ASSUME NEW w \in Workers, Fails(w) PROVE Inv' BY <1>3, EndsKeeps DEF Fails
<1>4. ASSUME NEW w \in Workers, Connect(w) PROVE Inv'
  BY <1>4, SetOriginKeeps, MarkRepoKeeps, MarkUrlKeeps, ConnectDoneKeeps DEF Connect
<1>5. ASSUME NEW w \in Workers, Test(w) PROVE Inv' BY <1>5, TestKeeps
<1>6. ASSUME Crash PROVE Inv' BY <1>6, CrashKeeps
<1>7. ASSUME NEW p \in Paths, CreateKey(p) PROVE Inv'
  BY <1>7, KeysKeep DEF CreateKey
<1>8. ASSUME NEW p \in Paths, NEW q \in Paths, RenameKey(p, q) PROVE Inv'
  BY <1>8, KeysKeep DEF RenameKey
<1>9. ASSUME NEW r \in Repos, Sync(r) PROVE Inv' BY <1>9, SyncKeeps
<1>10. ASSUME NEW r \in Repos, NEW p \in Paths, Bind(r, p) PROVE Inv'
  BY <1>10, KeysKeep DEF Bind
<1>11. ASSUME NEW r \in Repos, NEW d \in Dirs, Clone(r, d) PROVE Inv'
  BY <1>11, CloneKeeps
<1>12. ASSUME NEW k \in Keys, UserDeletesDeployKey(k) PROVE Inv'
  BY <1>12, KeysKeep DEF UserDeletesDeployKey
<1>13. ASSUME NEW d \in Dirs, RemoveTree(d) PROVE Inv' BY <1>13, RemoveTreeKeeps
<1>14. ASSUME NEW d \in Dirs, NEW u \in Urls, UserSetsOrigin(d, u) PROVE Inv'
  BY <1>14, UserSetsOriginKeeps
<1>15. CASE UNCHANGED vars BY <1>15, KeysKeep DEF vars, world
<1> QED
  BY <1>1, <1>2, <1>3, <1>4, <1>5, <1>6, <1>7, <1>8, <1>9, <1>10, <1>11, <1>12,
     <1>13, <1>14, <1>15 DEF Next, Outside

LEMMA Invariance == Spec => [](TypeOK /\ Inv)
BY TypingInit, Typing, InvInit, InvStep, PTL DEF Spec

(* The mark of a work tree never says more than was done. *)
THEOREM MarksAreTrue == Spec => []MarkedWasWired
<1>1. TypeOK /\ Inv => MarkedWasWired BY DEF Inv
<1> QED BY <1>1, Invariance, PTL

(* What connect leaves is what test looks for. *)
THEOREM ConnectIsEnough == Spec => []ConnectSatisfiesTest
<1>1. TypeOK /\ Inv => ConnectSatisfiesTest BY DEF Inv
<1> QED BY <1>1, Invariance, PTL

LEMMA PassedSteps ==
  ASSUME TypeOK, Inv, [Next]_vars, NEW w \in Workers,
         job[w].alone, job'[w].pc = "passed", job[w].pc # "passed"
  PROVE  Reach(w)
<1>1. ASSUME NEW v \in Workers, v # w, \/ Look(v) \/ Fails(v) \/ Connect(v) \/ Test(v)
      PROVE  job'[w] = job[w]
  <2>1. (\E j : Becomes(v, j))
    BY <1>1 DEF Look, Fails, Connect, SetOrigin, MarkRepo, MarkUrl, ConnectDone,
      Test, GetRepo, GetUrl, CheckOrigin, CheckSsh, Reach, TestDone, Goto, Ends
  <2> QED BY <1>1, <2>1 DEF Becomes, TypeOK
<1>2. ASSUME NEW v \in Workers, Start(v) PROVE job'[w].pc # "passed"
  <2>1. CASE v = w
    <3>1. PICK r \in Repos, op \in {"connect", "test"} :
            job'[w] = [Idle EXCEPT !.op = op, !.pc = "look", !.repo = r, !.url = Url(r),
                                   !.path = binding[r].path, !.alone = Quiet]
      BY <1>2, <2>1 DEF Start
    <3> QED BY <3>1 DEF Idle
  <2>2. CASE v # w
    <3>1. job'[w] = [job[w] EXCEPT !.alone = FALSE] BY <1>2, <2>2 DEF Start
    <3>2. job'[w].pc = job[w].pc
      <4>1. CASE job[w] = Idle
        <5>1. job'[w] = Idle BY <3>1, <4>1, IdleStaysIdle
        <5> QED BY <4>1, <5>1
      <4>2. CASE job[w] \in Jobs BY <3>1, <4>2 DEF Jobs, JobsOf
      <4> QED BY <4>1, <4>2 DEF TypeOK
    <3> QED BY <3>2
  <2> QED BY <2>1, <2>2
<1>3. ASSUME Outside PROVE job'[w].pc # "passed"
  BY <1>3, IdleIs
  DEF Outside, Crash, CreateKey, RenameKey, Sync, Bind, Clone, UserDeletesDeployKey,
    RemoveTree, UserSetsOrigin
<1>4. ASSUME Fails(w) \/ Look(w) PROVE job'[w].pc # "passed"
  <2>1. CASE Fails(w) BY <2>1, EndsMoves, IdleIs DEF Fails
  <2>2. CASE Look(w)
    <3>1. job[w] \in Jobs BY <2>2, JobTypes DEF Look
    <3> QED BY <2>2, <3>1 DEF Look, Becomes, TypeOK, Jobs, JobsOf
  <2> QED BY <1>4, <2>1, <2>2
<1>5. ASSUME Connect(w) PROVE job'[w].pc # "passed"
  <2>1. job[w] \in Jobs
    BY <1>5, JobTypes, IdleIs
    DEF Connect, SetOrigin, MarkRepo, MarkUrl, ConnectDone, At, Active
  <2>2. CASE Ends(w) BY <2>2, EndsMoves, IdleIs
  <2>3. CASE \E pc \in {"mark repo", "mark url", "list"} : Goto(w, pc)
    BY <2>1, <2>3, GotoMoves
  <2> QED BY <1>5, <2>2, <2>3 DEF Connect, SetOrigin, MarkRepo, MarkUrl, ConnectDone
<1>6. ASSUME Test(w), ~Reach(w) PROVE job'[w].pc # "passed"
  <2>1. job[w] \in Jobs
    BY <1>6, JobTypes, IdleIs
    DEF Test, GetRepo, GetUrl, CheckOrigin, CheckSsh, Reach, TestDone, At, Active
  <2>2. CASE Ends(w) BY <2>2, EndsMoves, IdleIs
  <2>3. CASE \E pc \in {"get url", "origin", "ssh", "reach"} : Goto(w, pc)
    BY <2>1, <2>3, GotoMoves
  <2> QED BY <1>6, <2>2, <2>3 DEF Test, GetRepo, GetUrl, CheckOrigin, CheckSsh, TestDone
<1>7. job' = job => job'[w].pc # "passed" OBVIOUS
<1> QED BY <1>1, <1>2, <1>3, <1>4, <1>5, <1>6, <1>7 DEF Next, vars

LEMMA ReachReaches ==
  ASSUME TypeOK, Inv, NEW w \in Workers, Reach(w), job[w].alone
  PROVE  tree[job[w].dir].origin = job[w].url /\ Reaches(job[w].url, job[w].path)
<1>1. tree[job[w].dir].origin = job[w].url BY DEF Reach, At, Inv, Halfway
<1> QED BY <1>1 DEF Reach, In

(* A test that passes alone has reached the tested repository. *)
THEOREM PassedIsReached == Spec => TestMeansReachable
<1>1. TypeOK /\ Inv /\ [Next]_vars =>
        [\A w \in Workers : job[w].alone /\ job'[w].pc = "passed" /\ job[w].pc # "passed" =>
           /\ tree[job[w].dir].origin = job[w].url
           /\ Reaches(job[w].url, job[w].path)]_vars
  BY PassedSteps, ReachReaches
<1> QED BY <1>1, Invariance, PTL DEF TestMeansReachable, Spec
=============================================================================
