------------------------- MODULE SshKeyStoreProofs --------------------------
(***************************************************************************)
(* Proofs about SshKeyStore for every set of directories, algorithms and   *)
(* workers, on this machine and on a server, with any number of commands   *)
(* in flight and any faults.                                               *)
(***************************************************************************)
EXTENDS SshKeyStore, TLAPS

(* A pair on disk is in a directory that exists. *)
InMade == \A p \in disk : p \in Pair /\ p.path # <<>> /\ Head(p.path) \in made

CreateJobs ==
  [pc : {"slot", "mkdir", "gen", "insert"}, op : {"create"}, key : Keys,
   dir : Dirs, alg : Algs, new : {None}]
UpdateJobs ==
  [pc : {"files", "dup", "look", "move", "update", "back"}, op : {"update"},
   key : Keys, dir : Dirs, alg : Algs, new : Dirs]
DeleteJobs ==
  [pc : {"remove", "rmdir", "drop"}, op : {"delete"}, key : Keys,
   dir : Dirs, alg : Algs, new : {None}]

(* The types of the commands, by what they are about to do. *)
LEMMA JobTypes ==
  ASSUME TypeOK, NEW w \in Workers
  PROVE  /\ job[w].pc \in {"slot", "mkdir", "gen", "insert"} => job[w] \in CreateJobs
         /\ job[w].pc \in {"files", "dup", "look", "move", "update", "back"} => job[w] \in UpdateJobs
         /\ job[w].pc \in {"remove", "rmdir", "drop"} => job[w] \in DeleteJobs
BY DEF TypeOK, Jobs, Idle, CreateJobs, UpdateJobs, DeleteJobs

LEMMA BecomesType ==
  ASSUME TypeOK, NEW w \in Workers,
         NEW j \in CreateJobs \cup UpdateJobs \cup DeleteJobs \cup {Idle}, Becomes(w, j)
  PROVE  job' \in [Workers -> Jobs \cup {Idle}]
BY DEF TypeOK, Becomes, Jobs, CreateJobs, UpdateJobs, DeleteJobs

LEMMA EndsType ==
  ASSUME TypeOK, NEW w \in Workers, Ends(w)
  PROVE  job' \in [Workers -> Jobs \cup {Idle}]
BY BecomesType DEF Ends

LEMMA GotoType ==
  ASSUME TypeOK, NEW w \in Workers, NEW pc, Goto(w, pc),
         \/ job[w] \in CreateJobs /\ pc \in {"slot", "mkdir", "gen", "insert"}
         \/ job[w] \in UpdateJobs /\ pc \in {"files", "dup", "look", "move", "update", "back"}
         \/ job[w] \in DeleteJobs /\ pc \in {"remove", "rmdir", "drop"}
  PROVE  job' \in [Workers -> Jobs \cup {Idle}]
<1>1. [job[w] EXCEPT !.pc = pc] \in CreateJobs \cup UpdateJobs \cup DeleteJobs
  BY DEF CreateJobs, UpdateJobs, DeleteJobs
<1> QED BY <1>1, BecomesType DEF Goto

(* Marking the pairs of commands that overlap. *)
LEMMA CrowdType ==
  ASSUME TypeOK, NEW key \in Keys, Crowd(key)
  PROVE  stray' \subseteq Keys
<1>1. \A w \in Workers : Active(w) => job[w].key \in Keys
  BY JobTypes DEF Active, TypeOK, Jobs, CreateJobs, UpdateJobs, DeleteJobs, Idle
<1>2. stray \subseteq Keys BY DEF TypeOK
<1> QED BY <1>1, <1>2 DEF Crowd
-----------------------------------------------------------------------------
(* What a renamed directory makes of a path. *)
LEMMA MovedPath ==
  ASSUME NEW S, NEW s \in Seq(S), s # <<>>, NEW a \in S
  PROVE  /\ <<a>> \o Tail(s) \in Seq(S) /\ <<a>> \o Tail(s) # <<>>
         /\ Head(<<a>> \o Tail(s)) = a
         /\ Len(<<a>> \o Tail(s)) = Len(s)
         /\ \A i \in 2..Len(s) : (<<a>> \o Tail(s))[i] = s[i]
<1>1. Len(s) \in Nat \ {0} /\ Len(Tail(s)) = Len(s) - 1 /\ Tail(s) \in Seq(S)
  OBVIOUS
<1>2. <<a>> \in Seq(S) /\ Len(<<a>>) = 1 OBVIOUS
<1>3. \A i \in 1..(Len(s) - 1) : Tail(s)[i] = s[i + 1] BY <1>1
<1>4. <<a>> \o Tail(s) \in Seq(S) /\ Len(<<a>> \o Tail(s)) = Len(s) BY <1>1, <1>2
<1>5. (<<a>> \o Tail(s))[1] = a BY <1>1, <1>2
<1>6. \A i \in 2..Len(s) : (<<a>> \o Tail(s))[i] = Tail(s)[i - 1] BY <1>1, <1>2
<1> QED BY <1>1, <1>3, <1>4, <1>5, <1>6

LEMMA NestedPath ==
  ASSUME NEW S, NEW s \in Seq(S), s # <<>>, NEW a \in S, NEW b \in S
  PROVE  /\ <<a, b>> \o Tail(s) \in Seq(S) /\ <<a, b>> \o Tail(s) # <<>>
         /\ Head(<<a, b>> \o Tail(s)) = a
         /\ Len(<<a, b>> \o Tail(s)) = Len(s) + 1
         /\ (<<a, b>> \o Tail(s))[2] = b
         /\ \A i \in 2..Len(s) : (<<a, b>> \o Tail(s))[i + 1] = s[i]
<1>1. Len(s) \in Nat \ {0} /\ Len(Tail(s)) = Len(s) - 1 /\ Tail(s) \in Seq(S)
  OBVIOUS
<1>2. <<a, b>> \in Seq(S) /\ Len(<<a, b>>) = 2 OBVIOUS
<1>3. \A i \in 1..(Len(s) - 1) : Tail(s)[i] = s[i + 1] BY <1>1
<1>4. <<a, b>> \o Tail(s) \in Seq(S) /\ Len(<<a, b>> \o Tail(s)) = Len(s) + 1 BY <1>1, <1>2
<1>5. (<<a, b>> \o Tail(s))[1] = a /\ (<<a, b>> \o Tail(s))[2] = b BY <1>1, <1>2
<1>6. \A i \in 3..(Len(s) + 1) : (<<a, b>> \o Tail(s))[i] = Tail(s)[i - 2] BY <1>1, <1>2
<1> QED BY <1>1, <1>3, <1>4, <1>5, <1>6

(* Two paths that begin with the same name are the same if they are the    *)
(* same once the directory of that name has moved.                         *)
LEMMA MoveInjective ==
  ASSUME NEW S, NEW s \in Seq(S), NEW t \in Seq(S), s # <<>>, t # <<>>, Head(s) = Head(t),
         NEW a \in S, NEW b \in S, NEW to, to = <<a>> \/ to = <<a, b>>,
         to \o Tail(s) = to \o Tail(t)
  PROVE  s = t
<1>0. \/ <<a>> \o Tail(s) = <<a>> \o Tail(t)
      \/ <<a, b>> \o Tail(s) = <<a, b>> \o Tail(t)
  OBVIOUS
<1>1. Len(s) = Len(t)
  <2>1. Len(s) \in Nat /\ Len(t) \in Nat OBVIOUS
  <2> QED BY <1>0, <2>1, MovedPath, NestedPath
<1>2. \A i \in 2..Len(s) : s[i] = t[i]
  <2>1. CASE <<a>> \o Tail(s) = <<a>> \o Tail(t) BY <1>1, <2>1, MovedPath
  <2>2. CASE <<a, b>> \o Tail(s) = <<a, b>> \o Tail(t)
    <3>1. \A i \in 2..Len(s) : (<<a, b>> \o Tail(s))[i + 1] = s[i] BY NestedPath
    <3>2. \A i \in 2..Len(s) : (<<a, b>> \o Tail(t))[i + 1] = t[i] BY <1>1, NestedPath
    <3> QED BY <2>2, <3>1, <3>2
  <2> QED BY <1>0, <2>1, <2>2
<1>3. s[1] = t[1] OBVIOUS
<1>4. Len(s) \in Nat /\ \A i \in 1..Len(s) : s[i] = t[i] BY <1>2, <1>3
<1> QED BY <1>1, <1>4
-----------------------------------------------------------------------------
(* What a step does to the pairs on disk.  A new pair: *)
LEMMA NewPair ==
  ASSUME TypeOK, NEW d \in Dirs, NEW a \in Algs, NEW k \in Keys,
         made \subseteq made', d \in made',
         disk' = disk \cup {PairIn(d, a, k)}
  PROVE  /\ InMade'
         /\ OnePairPerPath /\ ~Found(d, a) => OnePairPerPath'
<1>1. PairIn(d, a, k) \in Pair /\ PairIn(d, a, k).path = <<d>> /\ PairIn(d, a, k).alg = a
  BY DEF PairIn, Pair
<1>2. InMade'
  <2>1. <<d>> # <<>> /\ Head(<<d>>) = d OBVIOUS
  <2> QED BY <1>1, <2>1 DEF InMade, TypeOK
<1>3. ASSUME OnePairPerPath, ~Found(d, a) PROVE OnePairPerPath'
  <2>1. \A p \in disk : ~(p.path = <<d>> /\ p.alg = a) BY <1>3 DEF Found
  <2> QED BY <1>1, <1>3, <2>1 DEF OnePairPerPath
<1> QED BY <1>2, <1>3

(* Fewer pairs, and no directory goes that one of them is in: *)
LEMMA FewerPairs ==
  ASSUME TypeOK, disk' \subseteq disk,
         \A p \in disk' : Head(p.path) \in made => Head(p.path) \in made'
  PROVE  InMade' /\ (OnePairPerPath => OnePairPerPath')
BY DEF TypeOK, InMade, OnePairPerPath

LEMMA SweptKeepsOthers ==
  ASSUME NEW d, NEW left, NEW p \in left, Head(p.path) \in made
  PROVE  Head(p.path) \in Swept(d, left)
BY DEF Swept

(* A renamed directory: *)
LEMMA MoveKeeps ==
  ASSUME TypeOK, NEW old \in Dirs, NEW new \in Dirs, Move(old, new)
  PROVE  /\ made' \subseteq Dirs
         /\ InMade'
         /\ OnePairPerPath => OnePairPerPath'
<1> DEFINE to == Place(old, new)
           path(p) == to \o Tail(p.path)
<1>1. /\ made \subseteq Dirs
      /\ \A p \in disk : p \in Pair /\ p.path \in Seq(Dirs) /\ p.path # <<>> /\ Head(p.path) \in made
  BY DEF TypeOK, Pair
<1>2. CanMove(old, new) /\ made' = (made \ {old}) \cup {new} /\ disk' = MovedTo(old, to)
  BY DEF Move
<1>3. to = <<new>> \/ to = <<new, old>> BY DEF Place
<1>4. ASSUME NEW p \in disk
      PROVE path(p) \in Seq(Dirs) /\ path(p) # <<>> /\ Head(path(p)) = new
  <2>1. p.path \in Seq(Dirs) /\ p.path # <<>> BY <1>1
  <2>2. CASE to = <<new>>
    <3>1. path(p) = <<new>> \o Tail(p.path) BY <2>2
    <3> HIDE DEF path
    <3> QED BY <2>1, <3>1, MovedPath
  <2>3. CASE to = <<new, old>>
    <3>1. path(p) = <<new, old>> \o Tail(p.path) BY <2>3
    <3> HIDE DEF path
    <3> QED BY <2>1, <3>1, NestedPath
  <2> QED BY <1>3, <2>2, <2>3
<1>5. \A q \in disk' : \E p \in disk :
        IF Head(p.path) = old THEN q = [p EXCEPT !.path = path(p)] ELSE q = p
  BY <1>2 DEF MovedTo, Moved
<1>6. InMade'
  <2>1. SUFFICES ASSUME NEW q \in disk'
                 PROVE  q \in Pair /\ q.path # <<>> /\ Head(q.path) \in made'
    BY DEF InMade
  <2>2. PICK p \in disk : IF Head(p.path) = old THEN q = [p EXCEPT !.path = path(p)] ELSE q = p
    BY <1>5
  <2>3. CASE Head(p.path) = old
    <3>1. q = [p EXCEPT !.path = path(p)] BY <2>2, <2>3
    <3>2. q \in Pair /\ q.path = path(p) BY <1>1, <1>4, <3>1 DEF Pair
    <3> QED BY <1>2, <1>4, <3>2
  <2>4. CASE Head(p.path) # old BY <1>1, <1>2, <2>2, <2>4
  <2> QED BY <2>3, <2>4
<1>7. ASSUME NEW p \in disk, NEW q \in disk, Head(q.path) # old, path(p) = q.path PROVE FALSE
  <2>1. Head(q.path) = new /\ q \in InDir(new) /\ new \in made BY <1>1, <1>4, <1>7 DEF InDir
  <2>2. onServer BY <1>2, <2>1 DEF CanMove
  <2>3. to = <<new, old>> BY <2>1, <2>2 DEF Place
  <2>4. Len(q.path) > 1 => q.path[2] # old BY <1>2, <2>1, <2>2 DEF CanMove
  <2>5. p.path \in Seq(Dirs) /\ p.path # <<>> /\ Len(p.path) \in Nat \ {0} BY <1>1
  <2>6. Len(path(p)) = Len(p.path) + 1 /\ path(p)[2] = old BY <2>3, <2>5, NestedPath
  <2> QED BY <1>7, <2>4, <2>5, <2>6
<1>8. ASSUME OnePairPerPath PROVE OnePairPerPath'
  <2>1. SUFFICES ASSUME NEW u \in disk', NEW v \in disk', u.path = v.path, u.alg = v.alg
                 PROVE  u = v
    BY DEF OnePairPerPath
  <2>2. PICK p \in disk : IF Head(p.path) = old THEN u = [p EXCEPT !.path = path(p)] ELSE u = p
    BY <1>5
  <2>3. PICK q \in disk : IF Head(q.path) = old THEN v = [q EXCEPT !.path = path(q)] ELSE v = q
    BY <1>5
  <2>4. /\ Head(p.path) = old => u.path = path(p)
        /\ Head(q.path) = old => v.path = path(q)
        /\ u.alg = p.alg /\ v.alg = q.alg
    BY <1>1, <2>2, <2>3 DEF Pair
  <2>5. CASE Head(p.path) = old /\ Head(q.path) = old
    <3>1. path(p) = path(q) BY <2>1, <2>4, <2>5
    <3>2. p.path = q.path
      <4>1. /\ p.path \in Seq(Dirs) /\ p.path # <<>> /\ q.path \in Seq(Dirs) /\ q.path # <<>>
            /\ Head(p.path) = Head(q.path)
        BY <1>1, <2>5
      <4>2. to \o Tail(p.path) = to \o Tail(q.path) BY <3>1
      <4> HIDE DEF to
      <4> QED BY <1>3, <4>1, <4>2, MoveInjective
    <3>3. p = q BY <1>8, <2>1, <2>4, <3>2 DEF OnePairPerPath
    <3> QED BY <2>2, <2>3, <2>5, <3>3
  <2>6. CASE Head(p.path) = old /\ Head(q.path) # old BY <1>7, <2>1, <2>3, <2>4, <2>6
  <2>7. CASE Head(p.path) # old /\ Head(q.path) = old BY <1>7, <2>1, <2>2, <2>4, <2>7
  <2>8. CASE Head(p.path) # old /\ Head(q.path) # old BY <1>8, <2>1, <2>2, <2>3, <2>8 DEF OnePairPerPath
  <2> QED BY <2>5, <2>6, <2>7, <2>8
<1> QED BY <1>1, <1>2, <1>6, <1>8
-----------------------------------------------------------------------------
(* The steps of each operation keep every variable in its type.            *)
LEMMA Steps ==
  ASSUME TypeOK, [Next]_vars
  PROVE  /\ OnePairPerPath => OnePairPerPath'
         /\ TypeOK'
<1> DEFINE JobsOK == job' \in [Workers -> Jobs \cup {Idle}]
           DiskOK == InMade' /\ (OnePairPerPath => OnePairPerPath')
<1>0. /\ onServer \in Places /\ target \in BOOLEAN /\ (~target => rows = {})
      /\ rows \subseteq Row /\ made \subseteq Dirs /\ InMade
      /\ nextKey \in 1..(MaxKeys + 1) /\ job \in [Workers -> Jobs \cup {Idle}]
      /\ stray \subseteq Keys /\ removed \subseteq Keys /\ MaxKeys \in Nat
  BY SshKeyStoreAssumption DEF TypeOK, InMade
<1>1. ASSUME UNCHANGED files PROVE DiskOK /\ made' \subseteq Dirs
  BY <1>0, <1>1 DEF files, InMade, OnePairPerPath
<1>2. ASSUME DiskOK, JobsOK, made' \subseteq Dirs, rows' \subseteq Row, stray' \subseteq Keys,
             removed' \subseteq Keys, UNCHANGED onServer, target' \in BOOLEAN,
             ~target' => rows' = {}, nextKey' \in 1..(MaxKeys + 1)
      PROVE  TypeOK' /\ (OnePairPerPath => OnePairPerPath')
  BY <1>0, <1>2 DEF TypeOK, InMade
<1>3. ASSUME NEW w \in Workers, Create(w)
      PROVE  TypeOK' /\ (OnePairPerPath => OnePairPerPath')
  <2> DEFINE Here == job[w].pc \in {"slot", "mkdir", "gen", "insert"}
  <2>0. ASSUME Here
        PROVE  /\ job[w] \in CreateJobs /\ job[w].dir \in Dirs /\ job[w].alg \in Algs
               /\ job[w].key \in Keys
               /\ Ends(w) => JobsOK
               /\ \A pc \in {"slot", "mkdir", "gen", "insert"} : Goto(w, pc) => JobsOK
    <3>1. job[w] \in CreateJobs BY <2>0, JobTypes
    <3> QED BY <3>1, EndsType, GotoType DEF CreateJobs
  <2>1. CASE StartCreate(w)
    <3>1. PICK d \in Dirs, a \in Algs :
            Becomes(w, [Idle EXCEPT !.pc = "slot", !.op = "create", !.key = nextKey,
                                    !.dir = d, !.alg = a])
      BY <2>1 DEF StartCreate
    <3>2. nextKey \in Keys /\ nextKey + 1 \in 1..(MaxKeys + 1)
      BY <1>0, <2>1 DEF StartCreate, Keys
    <3>3. [Idle EXCEPT !.pc = "slot", !.op = "create", !.key = nextKey, !.dir = d, !.alg = a]
            \in CreateJobs
      BY <3>2 DEF Idle, CreateJobs
    <3>4. JobsOK BY <3>1, <3>3, BecomesType
    <3>5. stray' \subseteq Keys BY <2>1, <3>2, CrowdType DEF StartCreate
    <3> QED BY <1>0, <1>1, <1>2, <2>1, <3>2, <3>4, <3>5 DEF StartCreate
  <2>2. CASE CheckSlot(w)
    <3>1. JobsOK BY <2>0, <2>2 DEF CheckSlot
    <3> QED BY <1>0, <1>1, <1>2, <2>2, <3>1 DEF CheckSlot
  <2>3. CASE MakeDir(w)
    <3>1. JobsOK /\ job[w].dir \in Dirs BY <2>0, <2>3 DEF MakeDir
    <3>2. DiskOK BY <2>3, FewerPairs DEF MakeDir
    <3> QED BY <1>0, <1>2, <2>3, <3>1, <3>2 DEF MakeDir
  <2>4. CASE CreateScript(w)
    <3>1. Here BY <2>4 DEF CreateScript
    <3>2. JobsOK BY <2>0, <2>4, <3>1 DEF CreateScript
    <3>3. stray' \subseteq Keys BY <1>0, <2>0, <2>4, <3>1 DEF CreateScript
    <3>4. ~Found(job[w].dir, job[w].alg)
      <4>1. job[w].dir \notin made /\ Head(<<job[w].dir>>) = job[w].dir BY <2>4 DEF CreateScript
      <4> QED BY <1>0, <4>1 DEF Found, InMade
    <3>5. DiskOK BY <2>0, <2>4, <3>1, <3>4, NewPair DEF CreateScript
    <3> QED BY <1>0, <1>2, <2>0, <2>4, <3>1, <3>2, <3>3, <3>5 DEF CreateScript
  <2>5. CASE Generate(w)
    <3>1. Here BY <2>5 DEF Generate
    <3>2. DiskOK BY <2>0, <2>5, <3>1, NewPair DEF Generate
    <3>3. JobsOK BY <2>0, <2>5, <3>1 DEF Generate
    <3> QED BY <1>0, <1>2, <2>5, <3>2, <3>3 DEF Generate
  <2>6. CASE GenerateFails(w)
    <3>1. JobsOK BY <2>0, <2>6 DEF GenerateFails
    <3>2. DiskOK BY <2>6, FewerPairs, SweptKeepsOthers DEF GenerateFails
    <3>3. made' \subseteq Dirs BY <1>0, <2>6 DEF GenerateFails, Swept
    <3> QED BY <1>0, <1>2, <2>6, <3>1, <3>2, <3>3 DEF GenerateFails
  <2>7. CASE GenerateFailsLate(w)
    <3>1. Here BY <2>7 DEF GenerateFailsLate
    <3>2. DiskOK BY <2>0, <2>7, <3>1, NewPair DEF GenerateFailsLate
    <3>3. JobsOK /\ job[w].key \in Keys BY <2>0, <2>7, <3>1 DEF GenerateFailsLate
    <3> QED BY <1>0, <1>2, <2>7, <3>2, <3>3 DEF GenerateFailsLate
  <2>8. CASE Insert(w)
    <3>1. Here BY <2>8 DEF Insert
    <3>2. JobsOK /\ job[w].key \in Keys /\ job[w].dir \in Dirs /\ job[w].alg \in Algs
      BY <2>0, <2>8, <3>1 DEF Insert
    <3>3. rows' \subseteq Row BY <1>0, <2>8, <3>2 DEF Insert, Row
    <3> QED BY <1>0, <1>1, <1>2, <2>8, <3>2, <3>3 DEF Insert
  <2>9. CASE InsertFails(w)
    <3>1. JobsOK /\ job[w].key \in Keys BY <2>0, <2>9 DEF InsertFails
    <3> QED BY <1>0, <1>1, <1>2, <2>9, <3>1 DEF InsertFails
  <2> QED BY <1>3, <2>1, <2>2, <2>3, <2>4, <2>5, <2>6, <2>7, <2>8, <2>9 DEF Create
<1>4. ASSUME NEW w \in Workers, Update(w)
      PROVE  TypeOK' /\ (OnePairPerPath => OnePairPerPath')
  <2> DEFINE Here == job[w].pc \in {"files", "dup", "look", "move", "update", "back"}
  <2>0. ASSUME Here
        PROVE  /\ job[w].dir \in Dirs /\ job[w].new \in Dirs /\ job[w].key \in Keys
               /\ Ends(w) => JobsOK
               /\ \A pc \in {"files", "dup", "look", "move", "update", "back"} :
                    Goto(w, pc) => JobsOK
    <3>1. job[w] \in UpdateJobs BY <2>0, JobTypes
    <3> QED BY <3>1, EndsType, GotoType DEF UpdateJobs
  <2>1. CASE StartUpdate(w)
    <3>1. PICK r \in rows, d \in Dirs :
            /\ Becomes(w, [pc |-> "files", op |-> "update", key |-> r.key, dir |-> r.dir,
                           alg |-> r.alg, new |-> d])
            /\ Crowd(r.key)
      BY <2>1 DEF StartUpdate
    <3>2. [pc |-> "files", op |-> "update", key |-> r.key, dir |-> r.dir, alg |-> r.alg,
           new |-> d] \in UpdateJobs
      BY <1>0 DEF Row, UpdateJobs
    <3>3. JobsOK BY <3>1, <3>2, BecomesType
    <3>4. stray' \subseteq Keys BY <1>0, <3>1, CrowdType DEF Row
    <3> QED BY <1>0, <1>1, <1>2, <2>1, <3>3, <3>4 DEF StartUpdate
  <2>2. CASE CheckFiles(w)
    <3>1. JobsOK BY <2>0, <2>2 DEF CheckFiles
    <3> QED BY <1>0, <1>1, <1>2, <2>2, <3>1 DEF CheckFiles
  <2>3. CASE CheckDuplicate(w)
    <3>1. JobsOK BY <2>0, <2>3 DEF CheckDuplicate
    <3> QED BY <1>0, <1>1, <1>2, <2>3, <3>1 DEF CheckDuplicate
  <2>4. CASE LookForDir(w)
    <3>1. JobsOK BY <2>0, <2>4 DEF LookForDir
    <3> QED BY <1>0, <1>1, <1>2, <2>4, <3>1 DEF LookForDir
  <2>5. CASE MoveDir(w)
    <3>1. Here BY <2>5 DEF MoveDir
    <3>2. DiskOK /\ made' \subseteq Dirs BY <2>0, <2>5, <3>1, MoveKeeps DEF MoveDir
    <3>3. JobsOK /\ stray' \subseteq Keys BY <1>0, <2>0, <2>5, <3>1 DEF MoveDir
    <3> QED BY <1>0, <1>2, <2>5, <3>2, <3>3 DEF MoveDir
  <2>6. CASE UpdateRow(w)
    <3>1. Here BY <2>6 DEF UpdateRow
    <3>2. JobsOK BY <2>0, <2>6, <3>1 DEF UpdateRow
    <3>3. rows' \subseteq Row /\ (rows = {} => rows' = {})
      BY <1>0, <2>0, <2>6, <3>1 DEF UpdateRow, WithDir, Row
    <3> QED BY <1>0, <1>1, <1>2, <2>6, <3>2, <3>3 DEF UpdateRow
  <2>7. CASE UpdateFails(w)
    <3>1. JobsOK BY <2>0, <2>7 DEF UpdateFails
    <3> QED BY <1>0, <1>1, <1>2, <2>7, <3>1 DEF UpdateFails
  <2>8. CASE MoveBack(w)
    <3>1. Here BY <2>8 DEF MoveBack
    <3>2. DiskOK /\ made' \subseteq Dirs BY <2>0, <2>8, <3>1, MoveKeeps DEF MoveBack
    <3>3. JobsOK BY <2>0, <2>8, <3>1 DEF MoveBack
    <3> QED BY <1>0, <1>2, <2>8, <3>2, <3>3 DEF MoveBack
  <2>9. CASE MoveBackFails(w)
    <3>1. JobsOK /\ job[w].key \in Keys BY <2>0, <2>9 DEF MoveBackFails
    <3> QED BY <1>0, <1>1, <1>2, <2>9, <3>1 DEF MoveBackFails
  <2> QED BY <1>4, <2>1, <2>2, <2>3, <2>4, <2>5, <2>6, <2>7, <2>8, <2>9 DEF Update
<1>5. ASSUME NEW w \in Workers, Delete(w)
      PROVE  TypeOK' /\ (OnePairPerPath => OnePairPerPath')
  <2> DEFINE Here == job[w].pc \in {"remove", "rmdir", "drop"}
  <2>0. ASSUME Here
        PROVE  /\ job[w].key \in Keys
               /\ Ends(w) => JobsOK
               /\ \A pc \in {"remove", "rmdir", "drop"} : Goto(w, pc) => JobsOK
    <3>1. job[w] \in DeleteJobs BY <2>0, JobTypes
    <3> QED BY <3>1, EndsType, GotoType DEF DeleteJobs
  <2>1. CASE StartDelete(w)
    <3>1. PICK r \in rows :
            /\ Becomes(w, [Idle EXCEPT !.pc = "remove", !.op = "delete", !.key = r.key,
                                       !.dir = r.dir, !.alg = r.alg])
            /\ Crowd(r.key)
      BY <2>1 DEF StartDelete
    <3>2. [Idle EXCEPT !.pc = "remove", !.op = "delete", !.key = r.key, !.dir = r.dir,
                       !.alg = r.alg] \in DeleteJobs
      BY <1>0 DEF Row, DeleteJobs, Idle
    <3>3. JobsOK BY <3>1, <3>2, BecomesType
    <3>4. stray' \subseteq Keys BY <1>0, <3>1, CrowdType DEF Row
    <3> QED BY <1>0, <1>1, <1>2, <2>1, <3>3, <3>4 DEF StartDelete
  <2>2. CASE RemoveFiles(w)
    <3>1. JobsOK BY <2>0, <2>2 DEF RemoveFiles
    <3>2. disk' \subseteq disk BY <2>2 DEF RemoveFiles
    <3>3. made' \subseteq Dirs /\ made' \in {made, Swept(job[w].dir, disk')}
      BY <1>0, <2>2 DEF RemoveFiles, Swept
    <3>4. DiskOK BY <3>2, <3>3, FewerPairs, SweptKeepsOthers
    <3> QED BY <1>0, <1>2, <2>2, <3>1, <3>3, <3>4 DEF RemoveFiles
  <2>3. CASE RemoveFilesFails(w)
    <3>1. JobsOK /\ job[w].key \in Keys BY <2>0, <2>3 DEF RemoveFilesFails
    <3> QED BY <1>0, <1>1, <1>2, <2>3, <3>1 DEF RemoveFilesFails
  <2>4. CASE RemoveDir(w)
    <3>1. JobsOK BY <2>0, <2>4 DEF RemoveDir
    <3>2. DiskOK BY <2>4, FewerPairs, SweptKeepsOthers DEF RemoveDir
    <3>3. made' \subseteq Dirs BY <1>0, <2>4 DEF RemoveDir, Swept
    <3> QED BY <1>0, <1>2, <2>4, <3>1, <3>2, <3>3 DEF RemoveDir
  <2>5. CASE DropRow(w)
    <3>1. JobsOK BY <2>0, <2>5 DEF DropRow
    <3>2. rows' \subseteq rows BY <2>5 DEF DropRow
    <3> QED BY <1>0, <1>1, <1>2, <2>5, <3>1, <3>2 DEF DropRow
  <2>6. CASE DropFails(w)
    <3>1. JobsOK /\ job[w].key \in Keys BY <2>0, <2>6 DEF DropFails
    <3> QED BY <1>0, <1>1, <1>2, <2>6, <3>1 DEF DropFails
  <2> QED BY <1>5, <2>1, <2>2, <2>3, <2>4, <2>5, <2>6 DEF Delete
<1>6. ASSUME NEW w \in Workers, GiveUp(w)
      PROVE  TypeOK' /\ (OnePairPerPath => OnePairPerPath')
  <2>1. JobsOK BY <1>6, EndsType DEF GiveUp
  <2> QED BY <1>0, <1>1, <1>2, <1>6, <2>1 DEF GiveUp
<1>7. ASSUME NEW d \in Dirs, UserRemoves(d)
      PROVE  TypeOK' /\ (OnePairPerPath => OnePairPerPath')
  <2>1. disk' \subseteq disk /\ \A p \in disk' : Head(p.path) # d
    BY <1>7 DEF UserRemoves, InDir
  <2>2. made' = made \ {d} BY <1>7 DEF UserRemoves
  <2>3. DiskOK BY <2>1, <2>2, FewerPairs
  <2>4. removed' \subseteq Keys BY <1>0, <1>7 DEF UserRemoves, InDir, InMade, Pair
  <2> QED BY <1>0, <1>2, <1>7, <2>2, <2>3, <2>4 DEF UserRemoves
<1>8. ASSUME DeleteConnection \/ Reconnect \/ Crash
      PROVE  TypeOK' /\ (OnePairPerPath => OnePairPerPath')
  <2>1. JobsOK BY <1>0, <1>8 DEF DeleteConnection, Reconnect, Crash
  <2>2. stray' \subseteq Keys
    <3>1. CASE DeleteConnection BY <1>0, <3>1 DEF DeleteConnection, Rowed, Row
    <3>2. CASE Reconnect BY <1>0, <3>2 DEF Reconnect
    <3>3. CASE Crash
      <4>1. \A w \in Workers : job[w].pc \in {"insert", "update", "back", "rmdir", "drop"}
                                => job[w].key \in Keys
        BY JobTypes DEF CreateJobs, UpdateJobs, DeleteJobs
      <4> QED BY <1>0, <3>3, <4>1 DEF Crash
    <3> QED BY <1>8, <3>1, <3>2, <3>3
  <2> QED BY <1>0, <1>1, <1>2, <1>8, <2>1, <2>2 DEF DeleteConnection, Reconnect, Crash
<1>9. CASE UNCHANGED vars BY <1>9 DEF vars, TypeOK, OnePairPerPath, Jobs
<1> QED BY <1>3, <1>4, <1>5, <1>6, <1>7, <1>8, <1>9 DEF Next

LEMMA Initially == ASSUME Init PROVE TypeOK /\ OnePairPerPath
BY SshKeyStoreAssumption DEF Init, TypeOK, OnePairPerPath, Keys
-----------------------------------------------------------------------------
(* Where the files are.  A pair is certain if no named event parted it     *)
(* from its row and no rename put its directory inside another.            *)
Certain == {p \in disk : Len(p.path) = 1 /\ p.key \notin stray}

(* A certain pair is where its row says, or where the command about to     *)
(* write, or rewrite, the row has put it.                                  *)
Settled(p) == \E r \in rows : r.key = p.key /\ r.alg = p.alg /\ p.path = <<r.dir>>
Placed(j, p) ==
  /\ j.key = p.key
  /\ \/ /\ j.pc \in {"update", "back"} /\ p.path = <<j.new>>
        /\ \E r \in rows : r.key = p.key /\ r.alg = p.alg
     \/ j.pc = "insert" /\ p.path = <<j.dir>> /\ p.alg = j.alg

(* And the other way round, on this machine.                               *)
Complete(r) == r.key \in stray \cup removed \/ PairIn(r.dir, r.alg, r.key) \in disk
Excused(j, r) ==
  /\ j.key = r.key
  /\ \/ j.pc \in {"update", "back"} /\ PairIn(j.new, r.alg, r.key) \in disk
     \/ j.pc \in {"rmdir", "drop"}

(* What a command may rely on from one step to the next.  Its directory,   *)
(* and the one it is about to rename it to, hold no certain pair but its   *)
(* own, even when other commands have made what it read stale.             *)
Sure(j) ==
  /\ j.pc # "idle" => j.key < nextKey
  /\ j.op = "create" =>
       /\ j.key \notin Rowed
       /\ j.pc \in {"slot", "mkdir", "gen"} => \A q \in disk : q.key # j.key
       /\ j.pc = "insert" =>
            j.key \in stray \cup removed \/ PairIn(j.dir, j.alg, j.key) \in disk
  /\ j.op \in {"update", "delete"} =>
       /\ j.key \notin stray => \A r \in rows : r.key = j.key => r.dir = j.dir /\ r.alg = j.alg
       /\ \A q \in Certain : q.path = <<j.dir>> => q.key = j.key
  /\ j.pc \in {"look", "move", "update", "back"} =>
       \A q \in Certain : q.path = <<j.new>> => q.key = j.key
  /\ j.pc \in {"dup", "look", "move", "back"} => j.new # j.dir
  /\ j.pc \in {"update", "back"} => \A q \in Certain : q.key = j.key => q.path = <<j.new>>
  /\ j.pc \in {"rmdir", "drop"} => \A q \in Certain : q.key # j.key

Fresh == /\ \A r \in rows : r.key < nextKey
         /\ \A q \in disk : q.key < nextKey
Unique == \A r, s \in rows : r.key = s.key \/ r.dir = s.dir => r = s

(* Commands that overlap have their pairs marked.                          *)
Marked(j, k) == /\ j.key \in stray
                /\ k.op = "create" => j.key # k.key

Books ==
  /\ TypeOK /\ Fresh /\ Unique
  /\ \A v, w \in Workers : v # w /\ Active(v) /\ Active(w) => Marked(job[v], job[w])
  /\ \A w \in Workers : Sure(job[w])
  /\ \A p \in Certain : Settled(p) \/ \E w \in Workers : Placed(job[w], p)
  /\ ~onServer => \A r \in rows : Complete(r) \/ \E w \in Workers : Excused(job[w], r)
-----------------------------------------------------------------------------
LEMMA IdleSure == Sure(Idle) /\ Sure(Idle)'
BY DEF Sure, Idle

(* While a command is under way the others vouch for nothing certain.      *)
LEMMA OnlyMine ==
  ASSUME Books, NEW w \in Workers, Active(w)
  PROVE  /\ \A v \in Workers \ {w} : Active(v) => job[v].key \in stray
         /\ \A p \in Certain : Settled(p) \/ Placed(job[w], p)
         /\ ~onServer => \A r \in rows : Complete(r) \/ Excused(job[w], r)
<1>1. \A v \in Workers \ {w} : Active(v) => job[v].key \in stray BY DEF Books, Marked
<1>2. ASSUME NEW p \in Certain, NEW v \in Workers, Placed(job[v], p) PROVE v = w
  <2>1. Active(v) BY <1>2 DEF Placed, Active
  <2> QED BY <1>1, <1>2, <2>1 DEF Placed, Certain
<1>3. ASSUME NEW r \in rows, NEW v \in Workers, Excused(job[v], r), r.key \notin stray PROVE v = w
  <2>1. Active(v) BY <1>3 DEF Excused, Active
  <2> QED BY <1>1, <1>3, <2>1 DEF Excused
<1> QED BY <1>1, <1>2, <1>3 DEF Books, Complete

(* A step of a command under way, which touches certain pairs and rows     *)
(* only if they are its own.                                               *)
StepOf(w, k) ==
  /\ Active(w) /\ Becomes(w, k)
  /\ k = Idle \/ (k.key = job[w].key /\ k.op = job[w].op)
  /\ UNCHANGED <<onServer, nextKey>> /\ stray \subseteq stray' /\ removed \subseteq removed'
  /\ \A q \in Certain' : q \in Certain \/ q.key = job[w].key
  /\ Rowed' \subseteq Rowed \cup {x \in {job[w].key} : job[w].op = "create"}
  /\ \A q \in disk' : (\E p \in disk : q.key = p.key) \/ (q.key = job[w].key /\ job[w].op = "create")

LEMMA StepSafe ==
  ASSUME Books, TypeOK', NEW w \in Workers, NEW k, StepOf(w, k), Sure(k)', Unique',
         \A p \in Certain' : Settled(p)' \/ Placed(k, p)',
         ~onServer => \A r \in rows' : Complete(r)' \/ Excused(k, r)'
  PROVE  Books'
<1>1. /\ job'[w] = k /\ \A v \in Workers \ {w} : job'[v] = job[v]
      /\ job[w].key < nextKey
  BY DEF StepOf, Becomes, Books, TypeOK, Sure, Active
<1>2. Fresh' BY <1>1 DEF Books, Fresh, StepOf, Rowed
<1>3. \A v, u \in Workers : v # u /\ Active(v)' /\ Active(u)' => Marked(job[v], job[u])'
  <2> SUFFICES ASSUME NEW v \in Workers, NEW u \in Workers, v # u, Active(v)', Active(u)'
               PROVE  Marked(job[v], job[u])'
    OBVIOUS
  <2>1. /\ Active(v) /\ job'[v].key = job[v].key /\ job'[v].op = job[v].op
        /\ Active(u) /\ job'[u].key = job[u].key /\ job'[u].op = job[u].op
    BY <1>1 DEF Active, StepOf, Idle
  <2>2. Marked(job[v], job[u]) BY <2>1 DEF Books
  <2> QED BY <2>1, <2>2 DEF Marked, StepOf
<1>4. \A v \in Workers : Sure(job[v])'
  <2>1. ASSUME NEW v \in Workers \ {w}, NEW j, j = job[v] PROVE Sure(j)'
    <3>1. Sure(j) BY <2>1 DEF Books
    <3>2. CASE Active(v)
      <4>1. j.key \in stray /\ (job[w].op = "create" => j.key # job[w].key)
            /\ job[w].key \in stray
        BY <2>1, <3>2 DEF Books, Marked, StepOf
      <4>2. j.key \in stray' /\ job[w].key \in stray' BY <4>1 DEF StepOf
      <4>3. \A q \in Certain' : q \in Certain BY <4>2 DEF StepOf, Certain
      <4>4. j.op = "create" => j.key \notin Rowed'
        BY <3>1, <4>1 DEF Sure, StepOf
      <4>5. (\A q \in disk : q.key # j.key) /\ j.op = "create" => \A q \in disk' : q.key # j.key
        BY <4>1 DEF StepOf
      <4> QED BY <3>1, <4>2, <4>3, <4>4, <4>5 DEF Sure, StepOf
    <3>3. CASE ~Active(v) 
      <4>1. j = Idle BY <2>1, <3>3 DEF Active, Books, TypeOK, Jobs
      <4> QED BY <4>1, IdleSure
    <3> QED BY <3>2, <3>3
  <2> QED BY <1>1, <2>1
<1>5. \A p \in Certain' : Settled(p)' \/ \E v \in Workers : Placed(job[v], p)'
  <2>1. \A p : Placed(k, p)' => Placed(job[w], p)' BY <1>1 DEF Placed
  <2> QED BY <2>1
<1>6. ~onServer' => \A r \in rows' : Complete(r)' \/ \E v \in Workers : Excused(job[v], r)'
  <2>1. \A r : Excused(k, r)' => Excused(job[w], r)' BY <1>1 DEF Excused
  <2> QED BY <2>1 DEF StepOf
<1> QED BY <1>2, <1>3, <1>4, <1>5, <1>6 DEF Books

(* A step that writes neither files nor rows.                              *)
LEMMA SameSafe ==
  ASSUME Books, TypeOK', NEW w \in Workers, NEW k, Active(w), Becomes(w, k),
         k = Idle \/ (k.key = job[w].key /\ k.op = job[w].op), Sure(k),
         UNCHANGED <<onServer, rows, disk, nextKey, removed>>, stray \subseteq stray',
         \A p \in Certain : Placed(job[w], p) => p.key \in stray' \/ Settled(p) \/ Placed(k, p),
         \A r \in rows : Excused(job[w], r) => r.key \in stray' \/ Complete(r) \/ Excused(k, r)
  PROVE  Books'
<1>1. Certain' \subseteq Certain BY DEF Certain
<1>2. StepOf(w, k) BY <1>1 DEF StepOf, Rowed
<1>3. Sure(k)' BY <1>1 DEF Sure, Rowed
<1>4. Unique' BY DEF Books, Unique
<1>5. \A p \in Certain' : Settled(p)' \/ Placed(k, p)'
  <2> TAKE p \in Certain'
  <2>1. p \in Certain /\ p.key \notin stray' BY <1>1 DEF Certain
  <2>2. Settled(p) \/ Placed(k, p) BY <2>1, OnlyMine
  <2> QED BY <2>2 DEF Settled, Placed
<1>6. ~onServer => \A r \in rows' : Complete(r)' \/ Excused(k, r)'
  <2> SUFFICES ASSUME ~onServer, NEW r \in rows PROVE Complete(r)' \/ Excused(k, r)'
    OBVIOUS
  <2>1. Complete(r) \/ Excused(k, r) \/ r.key \in stray' BY OnlyMine
  <2> QED BY <2>1 DEF Complete, Excused
<1> QED BY <1>2, <1>3, <1>4, <1>5, <1>6, StepSafe
-----------------------------------------------------------------------------
(* A command begins: if others are under way, all their pairs are marked.  *)
LEMMA StartSafe ==
  ASSUME Books, TypeOK', NEW w \in Workers, ~Active(w), NEW k, Becomes(w, k), k.pc # "idle",
         Crowd(k.key), Sure(k)',
         \/ k.op = "create" /\ k.key = nextKey
         \/ k.op # "create" /\ k.key \in Rowed,
         nextKey' \in {nextKey, nextKey + 1}, UNCHANGED <<onServer, rows, disk, removed>>
  PROVE  Books'
<1>1. job'[w] = k /\ \A v \in Workers \ {w} : job'[v] = job[v]
  BY DEF Becomes, Books, TypeOK
<1>2. nextKey \in Nat /\ nextKey <= nextKey' BY DEF Books, TypeOK
<1>3. stray \subseteq stray' /\ Certain' \subseteq Certain BY DEF Crowd, Certain
<1>4. \A v \in Workers \ {w} : Sure(job[v]) /\ (Active(v) => job[v].key < nextKey)
  BY DEF Books, Sure, Active
<1>5. Fresh' /\ Unique'
  <2>1. \A r \in rows : r.key \in Nat BY DEF Books, TypeOK, Row, Keys
  <2>2. \A q \in disk : q.key \in Nat BY DEF Books, TypeOK, Pair, Keys
  <2> QED BY <1>2, <2>1, <2>2 DEF Books, Fresh, Unique
<1>6. \A v \in Workers \ {w} : Active(v) =>
         /\ job[v].key \in stray' /\ k.key \in stray' /\ (k.op = "create" => job[v].key # k.key)
         /\ job[v].op = "create" => job[v].key # k.key
  <2> SUFFICES ASSUME NEW v \in Workers \ {w}, Active(v)
               PROVE  /\ job[v].key \in stray' /\ k.key \in stray'
                      /\ k.op = "create" => job[v].key # k.key
                      /\ job[v].op = "create" => job[v].key # k.key
    OBVIOUS
  <2>1. job[v].key \in stray' /\ k.key \in stray' BY DEF Crowd, Quiet
  <2>2. job[v].key < nextKey /\ (job[v].op = "create" => job[v].key \notin Rowed)
    BY <1>4 DEF Sure
  <2>3. job[v].key # nextKey BY <1>2, <2>2
  <2> QED BY <2>1, <2>2, <2>3
<1>7. \A v, u \in Workers : v # u /\ Active(v)' /\ Active(u)' => Marked(job[v], job[u])'
  <2> SUFFICES ASSUME NEW v \in Workers, NEW u \in Workers, v # u, Active(v)', Active(u)'
               PROVE  Marked(job[v], job[u])'
    OBVIOUS
  <2>1. CASE v # w /\ u # w
    <3>1. Marked(job[v], job[u]) BY <1>1, <2>1 DEF Active, Books
    <3> QED BY <1>1, <1>3, <2>1, <3>1 DEF Marked
  <2>2. CASE v = w
    <3>1. Active(u) /\ u \in Workers \ {w} /\ job'[u] = job[u] BY <1>1, <2>2 DEF Active
    <3> QED BY <1>1, <1>6, <2>2, <3>1 DEF Marked
  <2>3. CASE u = w
    <3>1. Active(v) /\ v \in Workers \ {w} /\ job'[v] = job[v] BY <1>1, <2>3 DEF Active
    <3> QED BY <1>1, <1>6, <2>3, <3>1 DEF Marked
  <2> QED BY <2>1, <2>2, <2>3
<1>8. \A v \in Workers : Sure(job[v])'
  <2>1. ASSUME NEW v \in Workers \ {w}, NEW j, j = job[v] PROVE Sure(j)'
    <3>1. Sure(j) BY <1>4, <2>1
    <3>2. j.pc # "idle" => j.key < nextKey'
      <4>1. j.pc # "idle" => j.key \in Nat BY <2>1 DEF Books, TypeOK, Jobs, Idle, Keys
      <4> QED BY <1>2, <3>1, <4>1 DEF Sure
    <3> QED BY <1>3, <3>1, <3>2 DEF Sure, Rowed
  <2> QED BY <1>1, <2>1
<1>9. \A p \in Certain' : Settled(p)' \/ \E v \in Workers : Placed(job[v], p)'
  <2> TAKE p \in Certain'
  <2>1. CASE Settled(p) BY <2>1 DEF Settled
  <2>2. ASSUME NEW v \in Workers, Placed(job[v], p) PROVE Placed(job[v], p)'
    <3>1. job'[v] = job[v] BY <1>1, <2>2 DEF Placed, Active
    <3> QED BY <2>2, <3>1 DEF Placed
  <2> QED BY <1>3, <2>1, <2>2 DEF Books
<1>10. ~onServer' => \A r \in rows' : Complete(r)' \/ \E v \in Workers : Excused(job[v], r)'
  <2> SUFFICES ASSUME ~onServer, NEW r \in rows
               PROVE  Complete(r)' \/ \E v \in Workers : Excused(job[v], r)'
    OBVIOUS
  <2>1. CASE Complete(r) BY <1>3, <2>1 DEF Complete
  <2>2. ASSUME NEW v \in Workers, Excused(job[v], r) PROVE Excused(job[v], r)'
    <3>1. job'[v] = job[v] BY <1>1, <2>2 DEF Excused, Active
    <3> QED BY <2>2, <3>1 DEF Excused
  <2> QED BY <2>1, <2>2 DEF Books
<1> QED BY <1>5, <1>7, <1>8, <1>9, <1>10 DEF Books

(* A rename or a deletion that begins with a row owns what is certain in   *)
(* the row's directory.                                                    *)
LEMMA StartOwns ==
  ASSUME Books, NEW r \in rows, Crowd(r.key), UNCHANGED disk
  PROVE  /\ \A s \in rows : s.key = r.key => s = r
         /\ \A q \in Certain' : q.path = <<r.dir>> => q.key = r.key
         /\ r.key < nextKey
<1>1. ASSUME NEW q \in Certain', q.path = <<r.dir>> PROVE q.key = r.key
  <2>1. q \in Certain /\ q.key \notin stray' BY DEF Certain, Crowd
  <2>2. ASSUME NEW v \in Workers, Placed(job[v], q) PROVE FALSE
    <3>1. Active(v) /\ job[v].key = q.key BY <2>2 DEF Placed, Active
    <3> QED BY <2>1, <3>1 DEF Crowd, Quiet
  <2>3. Settled(q) BY <2>1, <2>2 DEF Books
  <2> QED BY <1>1, <2>3 DEF Settled, Books, Unique
<1> QED BY <1>1 DEF Books, Unique, Fresh

LEMMA StartsKeepBooks ==
  ASSUME Books, TypeOK', NEW w \in Workers, StartCreate(w) \/ StartUpdate(w) \/ StartDelete(w)
  PROVE  Books'
<1>0. nextKey \in Nat BY DEF Books, TypeOK
<1>1. CASE StartCreate(w)
  <2>1. PICK d \in Dirs, a \in Algs :
          Becomes(w, [Idle EXCEPT !.pc = "slot", !.op = "create", !.key = nextKey,
                                  !.dir = d, !.alg = a])
    BY <1>1 DEF StartCreate
  <2>2. PICK k : k = [Idle EXCEPT !.pc = "slot", !.op = "create", !.key = nextKey,
                                  !.dir = d, !.alg = a]
    OBVIOUS
  <2>3. k.pc = "slot" /\ k.op = "create" /\ k.key = nextKey BY <2>2 DEF Idle
  <2>4. /\ ~Active(w) /\ Becomes(w, k) /\ Crowd(k.key) /\ nextKey' = nextKey + 1
        /\ UNCHANGED <<onServer, rows, disk, removed>>
    BY <1>1, <2>1, <2>2, <2>3 DEF StartCreate, files
  <2>5. nextKey \notin Rowed /\ \A q \in disk : q.key # nextKey
    BY <1>0 DEF Books, Fresh, Rowed
  <2>6. Sure(k)' BY <1>0, <2>3, <2>4, <2>5 DEF Sure, Rowed
  <2> QED BY <2>3, <2>4, <2>6, StartSafe
<1>2. CASE StartUpdate(w)
  <2>1. PICK r \in rows, d \in Dirs :
          /\ Becomes(w, [pc |-> "files", op |-> "update", key |-> r.key, dir |-> r.dir,
                         alg |-> r.alg, new |-> d])
          /\ Crowd(r.key)
    BY <1>2 DEF StartUpdate
  <2>2. PICK k : k = [pc |-> "files", op |-> "update", key |-> r.key, dir |-> r.dir,
                      alg |-> r.alg, new |-> d]
    OBVIOUS
  <2>3. k.pc = "files" /\ k.op = "update" /\ k.key = r.key /\ k.dir = r.dir /\ k.alg = r.alg
    BY <2>2
  <2>4. /\ ~Active(w) /\ Becomes(w, k) /\ Crowd(k.key) /\ k.key \in Rowed
        /\ UNCHANGED <<onServer, rows, disk, nextKey, removed>>
    BY <1>2, <2>1, <2>2, <2>3 DEF StartUpdate, files, Rowed
  <2>5. Sure(k)' BY <2>1, <2>3, <2>4, StartOwns DEF Sure
  <2> QED BY <2>3, <2>4, <2>5, StartSafe
<1>3. CASE StartDelete(w)
  <2>1. PICK r \in rows :
          /\ Becomes(w, [Idle EXCEPT !.pc = "remove", !.op = "delete", !.key = r.key,
                                     !.dir = r.dir, !.alg = r.alg])
          /\ Crowd(r.key)
    BY <1>3 DEF StartDelete
  <2>2. PICK k : k = [Idle EXCEPT !.pc = "remove", !.op = "delete", !.key = r.key,
                                  !.dir = r.dir, !.alg = r.alg]
    OBVIOUS
  <2>3. k.pc = "remove" /\ k.op = "delete" /\ k.key = r.key /\ k.dir = r.dir /\ k.alg = r.alg
    BY <2>2 DEF Idle
  <2>4. /\ ~Active(w) /\ Becomes(w, k) /\ Crowd(k.key) /\ k.key \in Rowed
        /\ UNCHANGED <<onServer, rows, disk, nextKey, removed>>
    BY <1>3, <2>1, <2>2, <2>3 DEF StartDelete, files, Rowed
  <2>5. Sure(k)' BY <2>1, <2>3, <2>4, StartOwns DEF Sure
  <2> QED BY <2>3, <2>4, <2>5, StartSafe
<1> QED BY <1>1, <1>2, <1>3
-----------------------------------------------------------------------------
(* What holds of the pair a command is about to write.                     *)
LEMMA WrittenPair ==
  ASSUME NEW d, NEW a, NEW x
  PROVE  /\ PairIn(d, a, x).path = <<d>> /\ PairIn(d, a, x).alg = a /\ PairIn(d, a, x).key = x
         /\ Len(<<d>>) = 1
BY DEF PairIn

LEMMA CreateKeepsBooks ==
  ASSUME Books, TypeOK', NEW w \in Workers,
         CheckSlot(w) \/ MakeDir(w) \/ CreateScript(w) \/ Generate(w) \/ GenerateFails(w)
           \/ GenerateFailsLate(w) \/ Insert(w) \/ InsertFails(w)
  PROVE  Books'
<1> DEFINE j == job[w]
           P == PairIn(j.dir, j.alg, j.key)
<1>0. /\ j.pc \in {"slot", "mkdir", "gen", "insert"} /\ j.op = "create" /\ Active(w)
      /\ j.dir \in Dirs /\ j.alg \in Algs /\ Sure(j)
  <2>1. TypeOK /\ j.pc \in {"slot", "mkdir", "gen", "insert"}
    BY DEF Books, CheckSlot, MakeDir, CreateScript, Generate, GenerateFails,
           GenerateFailsLate, Insert, InsertFails
  <2>2. j \in CreateJobs BY <2>1, JobTypes
  <2> QED BY <2>1, <2>2 DEF CreateJobs, Active, Books
<1>1. /\ \A p \in Certain : Settled(p) \/ Placed(j, p)
      /\ ~onServer => \A r \in rows : Complete(r) /\ ~Excused(j, r)
      /\ \A p \in Certain : Placed(j, p) => j.pc = "insert" /\ p.path = <<j.dir>> /\ p.alg = j.alg
  BY <1>0, OnlyMine DEF Placed, Excused
<1>2. /\ P.path = <<j.dir>> /\ P.alg = j.alg /\ P.key = j.key /\ Len(P.path) = 1
  BY WrittenPair
<1> HIDE DEF P
<1>3. ASSUME NEW pc \in {"mkdir", "gen"}, Goto(w, pc), j.pc \in {"slot", "mkdir"},
             UNCHANGED <<onServer, rows, disk, nextKey, stray, removed>>
      PROVE  Books'
  <2>1. PICK k : k = [j EXCEPT !.pc = pc] OBVIOUS
  <2>2. k.pc = pc /\ k.op = j.op /\ k.key = j.key /\ k.dir = j.dir /\ k.alg = j.alg /\ k.new = j.new
    <3>1. j \in CreateJobs BY <1>3, JobTypes DEF Books
    <3> QED BY <2>1, <3>1 DEF CreateJobs
  <2>3. Becomes(w, k) BY <1>3, <2>1 DEF Goto
  <2>4. Sure(k) BY <1>0, <1>3, <2>2 DEF Sure
  <2>5. \A r \in rows : ~Excused(j, r) BY <1>3 DEF Excused
  <2> QED BY <1>0, <1>1, <1>3, <2>2, <2>3, <2>4, <2>5, SameSafe
<1>4. ASSUME Ends(w), UNCHANGED <<onServer, rows, disk, nextKey, removed>>, stray \subseteq stray',
             j.pc = "insert" => j.key \in stray'
      PROVE  Books'
  <2>1. Becomes(w, Idle) /\ Sure(Idle) BY <1>4, IdleSure DEF Ends
  <2>2. \A p \in Certain : Placed(j, p) => p.key \in stray' BY <1>1, <1>4 DEF Placed
  <2>3. \A r \in rows : ~Excused(j, r) BY <1>0 DEF Excused
  <2> QED BY <1>0, <1>4, <2>1, <2>2, <2>3, SameSafe
<1>5. ASSUME j.pc \in {"mkdir", "gen"}, disk' = disk \cup {P},
             UNCHANGED <<onServer, rows, nextKey, removed>>,
             \/ Goto(w, "insert") /\ UNCHANGED stray
             \/ Ends(w) /\ stray' = stray \cup {j.key}
      PROVE  Books'
  <2>1. Unique' BY <1>5 DEF Books, Unique
  <2>2. \A p \in Certain : Settled(p) BY <1>1, <1>5
  <2>3. \A p \in Certain' : p \in Certain \/ p = P BY <1>5 DEF Certain
  <2>4. \A r \in rows : ~onServer => Complete(r)'
    BY <1>1, <1>5 DEF Complete
  <2>5. ASSUME NEW k, Becomes(w, k), k = Idle \/ (k.key = j.key /\ k.op = j.op)
        PROVE  StepOf(w, k)
    BY <1>0, <1>2, <1>5, <2>3, <2>5 DEF StepOf, Rowed
  <2>6. CASE Goto(w, "insert") /\ UNCHANGED stray
    <3>1. PICK k : k = [j EXCEPT !.pc = "insert"] OBVIOUS
    <3>2. /\ k.pc = "insert" /\ k.op = j.op /\ k.key = j.key
          /\ k.dir = j.dir /\ k.alg = j.alg /\ k.new = j.new
      <4>1. j \in CreateJobs BY <1>5, JobTypes DEF Books
      <4> QED BY <3>1, <4>1 DEF CreateJobs
    <3>3. Becomes(w, k) BY <2>6, <3>1 DEF Goto
    <3>4. PairIn(k.dir, k.alg, k.key) \in disk' BY <1>5, <3>2 DEF P
    <3>5. Sure(k)' BY <1>0, <1>5, <2>6, <3>2, <3>4 DEF Sure, Rowed
    <3>6. \A p \in Certain' : Settled(p)' \/ Placed(k, p)'
      <4> TAKE p \in Certain'
      <4>1. CASE p \in Certain BY <1>5, <2>2, <4>1 DEF Settled
      <4>2. CASE p = P BY <1>2, <3>2, <4>2 DEF Placed
      <4> QED BY <2>3, <4>1, <4>2
    <3>7. StepOf(w, k) BY <2>5, <3>2, <3>3
    <3> QED BY <1>5, <2>1, <2>4, <3>5, <3>6, <3>7, StepSafe
  <2>7. CASE Ends(w) /\ stray' = stray \cup {j.key}
    <3>1. StepOf(w, Idle) BY <2>5, <2>7 DEF Ends
    <3>2. \A p \in Certain' : Settled(p)' BY <1>2, <1>5, <2>2, <2>3, <2>7 DEF Settled, Certain
    <3> QED BY <1>5, <2>1, <2>4, <3>1, <3>2, IdleSure, StepSafe
  <2> QED BY <1>5, <2>6, <2>7
<1>6. CASE CheckSlot(w) BY <1>3, <1>6 DEF CheckSlot, files
<1>7. CASE MakeDir(w) BY <1>3, <1>7 DEF MakeDir
<1>8. CASE CreateScript(w) BY <1>5, <1>8 DEF CreateScript, P
<1>9. CASE Generate(w) BY <1>5, <1>9 DEF Generate, P
<1>10. CASE GenerateFails(w) BY <1>4, <1>10 DEF GenerateFails
<1>11. CASE GenerateFailsLate(w) BY <1>5, <1>11 DEF GenerateFailsLate, P
<1>12. CASE InsertFails(w) BY <1>4, <1>12 DEF InsertFails, files
<1>13. CASE Insert(w)
  <2>1. PICK n : n = [key |-> j.key, dir |-> j.dir, alg |-> j.alg] OBVIOUS
  <2>2. n.key = j.key /\ n.dir = j.dir /\ n.alg = j.alg /\ rows' = rows \cup {n}
    BY <1>13, <2>1 DEF Insert
  <2>3. /\ j.pc = "insert" /\ UNCHANGED <<onServer, disk, nextKey, stray, removed>>
        /\ Becomes(w, Idle) /\ \A r \in rows : r.dir # j.dir
    BY <1>13 DEF Insert, Ends, files
  <2>4. Certain' = Certain BY <2>3 DEF Certain
  <2>5. Unique'
    <3>1. \A r \in rows : r.key # n.key /\ r.dir # n.dir
      BY <1>0, <2>2, <2>3 DEF Sure, Rowed
    <3> QED BY <2>2, <3>1 DEF Unique, Books
  <2>6. \A p \in Certain' : Settled(p)'
    <3> TAKE p \in Certain'
    <3>1. CASE Settled(p) BY <2>2, <3>1 DEF Settled
    <3>2. CASE Placed(j, p)
      <4>1. p.key = n.key /\ p.path = <<n.dir>> /\ p.alg = n.alg
        BY <1>1, <2>2, <2>4, <3>2 DEF Placed
      <4> QED BY <2>2, <4>1 DEF Settled
    <3> QED BY <1>1, <2>4, <3>1, <3>2
  <2>7. ~onServer => \A r \in rows' : Complete(r)'
    <3>1. \A r \in rows : ~onServer => Complete(r)' BY <1>1, <2>3 DEF Complete
    <3>2. Complete(n)' BY <1>0, <2>2, <2>3 DEF Complete, Sure
    <3> QED BY <2>2, <3>1, <3>2
  <2>8. StepOf(w, Idle) BY <1>0, <2>2, <2>3, <2>4 DEF StepOf, Rowed
  <2> QED BY <2>3, <2>5, <2>6, <2>7, <2>8, IdleSure, StepSafe
<1> QED BY <1>6, <1>7, <1>8, <1>9, <1>10, <1>11, <1>12, <1>13
-----------------------------------------------------------------------------
(* The certain pairs after a directory moved: those it did not hold, and   *)
(* those it held, which are now where it went.                             *)
LEMMA MovedCertain ==
  ASSUME Books, NEW old \in Dirs, NEW new \in Dirs, Move(old, new), stray \subseteq stray',
         NEW q \in Certain'
  PROVE  \/ q \in Certain /\ q.path # <<old>>
         \/ /\ q.path = <<new>>
            /\ \E p \in Certain : p.path = <<old>> /\ p.key = q.key /\ p.alg = q.alg
<1> DEFINE to == Place(old, new)
<1>1. PICK p \in disk : q = IF Head(p.path) = old THEN Moved(p, to) ELSE p
  BY DEF Move, MovedTo, Certain
<1>2. /\ p \in Pair /\ p.path \in Seq(Dirs) /\ p.path # <<>>
      /\ Len(q.path) = 1 /\ q.key \notin stray
  BY DEF Books, TypeOK, Pair, Certain
<1>3. CASE Head(p.path) # old
  <2>1. q = p /\ q.path # <<old>> BY <1>1, <1>3
  <2> QED BY <1>2, <2>1 DEF Certain
<1>4. CASE Head(p.path) = old
  <2>1. q = [p EXCEPT !.path = to \o Tail(p.path)] BY <1>1, <1>4 DEF Moved
  <2>2. q.path = to \o Tail(p.path) /\ q.key = p.key /\ q.alg = p.alg
    BY <1>2, <2>1 DEF Pair
  <2>3. to = <<new>> \/ to = <<new, old>> BY DEF Place
  <2>4. Len(p.path) \in Nat \ {0} BY <1>2
  <2>5. CASE to = <<new, old>>
    <3>1. q.path = <<new, old>> \o Tail(p.path) BY <2>2, <2>5
    <3>2. Len(q.path) = Len(p.path) + 1 BY <1>2, <3>1, NestedPath
    <3>3. Len(p.path) + 1 # 1 BY <2>4
    <3> QED BY <1>2, <3>2, <3>3
  <2>6. CASE to = <<new>>
    <3>1. q.path = <<new>> \o Tail(p.path) BY <2>2, <2>6
    <3>2. /\ Len(p.path) = 1 /\ q.path \in Seq(Dirs) /\ Head(q.path) = new
      BY <1>2, <3>1, MovedPath
    <3>3. p.path = <<old>> BY <1>2, <1>4, <3>2
    <3>4. q.path = <<new>> BY <1>2, <3>2
    <3>5. p \in Certain BY <1>2, <2>2, <3>2 DEF Certain
    <3> QED BY <2>2, <3>3, <3>4, <3>5
  <2> QED BY <2>3, <2>5, <2>6
<1> QED BY <1>3, <1>4

(* On this machine a directory takes its pairs along.                      *)
LEMMA MovedHere ==
  ASSUME Books, NEW old \in Dirs, NEW new \in Dirs, Move(old, new), ~onServer,
         NEW a \in Algs, NEW x \in Keys
  PROVE  /\ PairIn(old, a, x) \in disk => PairIn(new, a, x) \in disk'
         /\ \A d \in Dirs \ {old} : PairIn(d, a, x) \in disk => PairIn(d, a, x) \in disk'
<1>1. disk' = MovedTo(old, <<new>>) BY DEF Move, Place
<1>2. ASSUME PairIn(old, a, x) \in disk PROVE PairIn(new, a, x) \in disk'
  <2>1. Head(<<old>>) = old /\ <<new>> \o Tail(<<old>>) = <<new>> OBVIOUS
  <2>2. PICK p \in disk : p = PairIn(old, a, x) BY <1>2
  <2>3. p.path = <<old>> /\ p = [path |-> <<old>>, alg |-> a, key |-> x] BY <2>2 DEF PairIn
  <2>4. Moved(p, <<new>>) = PairIn(new, a, x) BY <2>1, <2>3 DEF Moved, PairIn
  <2> QED BY <1>1, <2>1, <2>3, <2>4 DEF MovedTo
<1>3. ASSUME NEW d \in Dirs \ {old}, PairIn(d, a, x) \in disk PROVE PairIn(d, a, x) \in disk'
  <2>1. PairIn(d, a, x).path = <<d>> /\ Head(<<d>>) = d BY DEF PairIn
  <2> QED BY <1>1, <1>3, <2>1 DEF MovedTo
<1> QED BY <1>2, <1>3

(* The keys on disk are the same after a directory moved.                  *)
LEMMA MovedKeys ==
  ASSUME Books, NEW old, NEW new, Move(old, new), NEW q \in disk'
  PROVE  \E p \in disk : q.key = p.key
<1>1. PICK p \in disk : q = IF Head(p.path) = old THEN Moved(p, Place(old, new)) ELSE p
  BY DEF Move, MovedTo
<1>2. p \in Pair BY DEF Books, TypeOK
<1> QED BY <1>1, <1>2 DEF Moved, Pair

(* A directory moves for a command, from one name it owns to another.      *)
LEMMA MoveOwned ==
  ASSUME Books, NEW w \in Workers, Active(w), NEW k, Becomes(w, k),
         k = Idle \/ (k.key = job[w].key /\ k.op = job[w].op), job[w].op = "update",
         NEW old \in Dirs, NEW new \in Dirs, Move(old, new),
         \A q \in Certain : q.path = <<old>> => q.key = job[w].key,
         UNCHANGED <<onServer, rows, nextKey, removed>>, stray \subseteq stray'
  PROVE  StepOf(w, k) /\ Unique'
<1>1. \A q \in Certain' : q \in Certain \/ q.key = job[w].key BY MovedCertain
<1>2. \A q \in disk' : \E p \in disk : q.key = p.key BY MovedKeys
<1> QED BY <1>1, <1>2 DEF StepOf, Rowed, Books, Unique

LEMMA MoveDirKeepsBooks ==
  ASSUME Books, TypeOK', NEW w \in Workers, MoveDir(w)
  PROVE  Books'
<1> DEFINE j == job[w]
<1>0. /\ j.pc = "move" /\ j.op = "update" /\ Active(w) /\ Sure(j) /\ j \in UpdateJobs
      /\ j.dir \in Dirs /\ j.new \in Dirs /\ j.new # j.dir
      /\ Move(j.dir, j.new) /\ UNCHANGED <<onServer, rows, nextKey, removed>>
      /\ stray \subseteq stray'
  <2>1. TypeOK /\ j.pc = "move" BY DEF Books, MoveDir
  <2>2. j \in UpdateJobs BY <2>1, JobTypes
  <2>3. Sure(j) BY DEF Books
  <2> QED BY <2>1, <2>2, <2>3 DEF UpdateJobs, Active, MoveDir, Sure
<1>1. /\ \A p \in Certain : Settled(p)
      /\ ~onServer => \A r \in rows : Complete(r)
      /\ \A q \in Certain : q.path = <<j.dir>> \/ q.path = <<j.new>> => q.key = j.key
  BY <1>0, OnlyMine DEF Placed, Excused, Sure
<1>2. \A q \in Certain' : \/ q \in Certain /\ q.path # <<j.dir>>
                          \/ /\ q.path = <<j.new>> /\ q.key = j.key
                             /\ \E p \in Certain : p.path = <<j.dir>> /\ p.key = q.key /\ p.alg = q.alg
  BY <1>0, <1>1, MovedCertain
<1>3. CASE Goto(w, "update") /\ UNCHANGED stray
  <2>1. PICK k : k = [j EXCEPT !.pc = "update"] OBVIOUS
  <2>2. k.pc = "update" /\ k.op = j.op /\ k.key = j.key /\ k.dir = j.dir /\ k.new = j.new
        /\ k.alg = j.alg
    BY <1>0, <2>1 DEF UpdateJobs
  <2>3. Becomes(w, k) BY <1>3, <2>1 DEF Goto
  <2>4. StepOf(w, k) /\ Unique' BY <1>0, <1>1, <2>2, <2>3, MoveOwned
  <2>5. \A q \in Certain' : q.path # <<j.dir>>
    <3>1. <<j.new>> # <<j.dir>> BY <1>0
    <3> QED BY <1>2, <3>1
  <2>6. \A q \in Certain' : q.path = <<j.new>> => q.key = j.key BY <1>1, <1>2
  <2>7. \A q \in Certain' : q.key = j.key => q.path = <<j.new>>
    <3> SUFFICES ASSUME NEW q \in Certain', q.key = j.key, q \in Certain, q.path # <<j.dir>>
                 PROVE  FALSE
      BY <1>2
    <3>1. PICK r \in rows : r.key = q.key /\ q.path = <<r.dir>> BY <1>1 DEF Settled
    <3>2. r.dir = j.dir BY <1>0, <3>1 DEF Sure, Certain
    <3> QED BY <3>1, <3>2
  <2>8. Sure(k)'
    <3>1. k.key < nextKey' /\ (k.key \notin stray' => \A r \in rows' : r.key = k.key => r.dir = k.dir /\ r.alg = k.alg)
      BY <1>0, <1>3, <2>2 DEF Sure
    <3> QED BY <1>0, <2>2, <2>5, <2>6, <2>7, <3>1 DEF Sure
  <2>9. \A p \in Certain' : Settled(p)' \/ Placed(k, p)'
    <3> TAKE q \in Certain'
    <3>1. CASE q \in Certain BY <1>0, <1>1, <3>1 DEF Settled
    <3>2. CASE \E p \in Certain : q.path = <<j.new>> /\ q.key = j.key /\ p.key = q.key /\ p.alg = q.alg
      BY <1>0, <1>1, <2>2, <3>2 DEF Settled, Placed
    <3> QED BY <1>2, <3>1, <3>2
  <2>10. ~onServer => \A r \in rows' : Complete(r)' \/ Excused(k, r)'
    <3> SUFFICES ASSUME ~onServer, NEW r \in rows PROVE Complete(r)' \/ Excused(k, r)'
      BY <1>0
    <3>0. r.dir \in Dirs /\ r.alg \in Algs /\ r.key \in Keys BY DEF Books, TypeOK, Row
    <3>1. CASE r.key \in stray \cup removed BY <1>0, <3>1 DEF Complete
    <3>2. CASE r.key \notin stray /\ PairIn(r.dir, r.alg, r.key) \in disk /\ r.dir = j.dir
      <4>1. PairIn(r.dir, r.alg, r.key) \in Certain BY <3>2, WrittenPair DEF Certain
      <4>2. r.key = j.key BY <1>1, <3>2, <4>1, WrittenPair
      <4>3. PairIn(j.new, r.alg, r.key) \in disk' BY <1>0, <3>0, <3>2, MovedHere
      <4> QED BY <2>2, <4>2, <4>3 DEF Excused
    <3>3. CASE PairIn(r.dir, r.alg, r.key) \in disk /\ r.dir # j.dir
      <4>1. PairIn(r.dir, r.alg, r.key) \in disk' BY <1>0, <3>0, <3>3, MovedHere
      <4> QED BY <4>1 DEF Complete
    <3> QED BY <1>1, <3>1, <3>2, <3>3 DEF Complete
  <2> QED BY <1>0, <2>4, <2>8, <2>9, <2>10, StepSafe
<1>4. CASE onServer /\ Ends(w) /\ stray' = stray \cup {j.key}
  <2>1. StepOf(w, Idle) /\ Unique' BY <1>0, <1>1, <1>4, MoveOwned DEF Ends
  <2>2. \A p \in Certain' : Settled(p)'
    <3> TAKE q \in Certain'
    <3>1. q \in Certain BY <1>2, <1>4 DEF Certain
    <3> QED BY <1>0, <1>1, <3>1 DEF Settled
  <2> QED BY <1>4, <2>1, <2>2, IdleSure, StepSafe
<1> QED BY <1>3, <1>4 DEF MoveDir

LEMMA MoveBackKeepsBooks ==
  ASSUME Books, TypeOK', NEW w \in Workers, MoveBack(w)
  PROVE  Books'
<1> DEFINE j == job[w]
<1>0. /\ j.pc = "back" /\ j.op = "update" /\ Active(w) /\ Sure(j)
      /\ j.dir \in Dirs /\ j.new \in Dirs /\ j.new # j.dir
      /\ Move(j.new, j.dir) /\ UNCHANGED <<onServer, rows, nextKey, stray, removed>>
      /\ Becomes(w, Idle)
  <2>1. TypeOK /\ j.pc = "back" BY DEF Books, MoveBack
  <2>2. j \in UpdateJobs BY <2>1, JobTypes
  <2>3. Sure(j) BY DEF Books
  <2> QED BY <2>1, <2>2, <2>3 DEF UpdateJobs, Active, MoveBack, Sure, Ends
<1>1. \A q \in Certain : q.path = <<j.new>> => q.key = j.key BY <1>0 DEF Sure
<1>2. \A r \in rows : r.key = j.key /\ r.key \notin stray => r.dir = j.dir /\ r.alg = j.alg
  BY <1>0 DEF Sure
<1>3. StepOf(w, Idle) /\ Unique' BY <1>0, <1>1, MoveOwned
<1>4. \A p \in Certain' : Settled(p)'
  <2> TAKE q \in Certain'
  <2>0. \/ q \in Certain /\ q.path # <<j.new>>
        \/ /\ q.path = <<j.dir>>
           /\ \E p \in Certain : p.path = <<j.new>> /\ p.key = q.key /\ p.alg = q.alg
    BY <1>0, MovedCertain
  <2>1. CASE q \in Certain /\ q.path # <<j.new>>
    <3>1. Settled(q) BY <1>0, <2>1, OnlyMine DEF Placed
    <3> QED BY <1>0, <3>1 DEF Settled
  <2>2. CASE q.path = <<j.dir>> /\ \E p \in Certain : p.path = <<j.new>> /\ p.key = q.key /\ p.alg = q.alg
    <3>1. PICK p \in Certain : p.path = <<j.new>> /\ p.key = q.key /\ p.alg = q.alg BY <2>2
    <3>2. PICK r \in rows : r.key = p.key /\ r.alg = p.alg
      BY <1>0, OnlyMine DEF Settled, Placed
    <3>3. r.dir = j.dir BY <1>1, <1>2, <3>1, <3>2 DEF Certain
    <3> QED BY <1>0, <2>2, <3>1, <3>2, <3>3 DEF Settled
  <2> QED BY <2>0, <2>1, <2>2
<1>5. ~onServer => \A r \in rows' : Complete(r)'
  <2> SUFFICES ASSUME ~onServer, NEW r \in rows, r.key \notin stray \cup removed
               PROVE  PairIn(r.dir, r.alg, r.key) \in disk'
    BY <1>0 DEF Complete
  <2>0. r.dir \in Dirs /\ r.alg \in Algs /\ r.key \in Keys BY DEF Books, TypeOK, Row
  <2>1. CASE PairIn(r.dir, r.alg, r.key) \in disk
    <3>1. PairIn(r.dir, r.alg, r.key) \in Certain BY <2>1, WrittenPair DEF Certain
    <3>2. r.dir # j.new BY <1>0, <1>1, <1>2, <3>1, WrittenPair
    <3> QED BY <1>0, <2>0, <2>1, <3>2, MovedHere
  <2>2. CASE Excused(j, r)
    <3>1. PairIn(j.new, r.alg, r.key) \in disk /\ r.dir = j.dir
      BY <1>0, <1>2, <2>2 DEF Excused
    <3>2. PairIn(j.dir, r.alg, r.key) \in disk' BY <1>0, <2>0, <3>1, MovedHere
    <3> QED BY <3>1, <3>2
  <2> QED BY <1>0, <2>1, <2>2, OnlyMine DEF Complete
<1> QED BY <1>0, <1>3, <1>4, <1>5, IdleSure, StepSafe

LEMMA UpdateKeepsBooks ==
  ASSUME Books, TypeOK', NEW w \in Workers,
         CheckFiles(w) \/ CheckDuplicate(w) \/ LookForDir(w) \/ UpdateRow(w)
           \/ UpdateFails(w) \/ MoveBackFails(w)
  PROVE  Books'
<1> DEFINE j == job[w]
<1>0. /\ j.pc \in {"files", "dup", "look", "update", "back"} /\ j.op = "update" /\ Active(w)
      /\ Sure(j) /\ j \in UpdateJobs
  <2>1. TypeOK /\ j.pc \in {"files", "dup", "look", "update", "back"}
    BY DEF Books, CheckFiles, CheckDuplicate, LookForDir, UpdateRow, UpdateFails, MoveBackFails
  <2>2. j \in UpdateJobs BY <2>1, JobTypes
  <2>3. Sure(j) BY DEF Books
  <2> QED BY <2>1, <2>2, <2>3 DEF UpdateJobs, Active
<1>1. \A r \in rows : r.key = j.key /\ r.key \notin stray => r.dir = j.dir /\ r.alg = j.alg
  BY <1>0 DEF Sure
<1>2. \A p \in Certain : Settled(p) \/ (Placed(j, p) /\ j.pc \in {"update", "back"})
  BY <1>0, OnlyMine DEF Placed
<1>3. ASSUME NEW pc \in {"dup", "look", "move", "update", "back"}, Goto(w, pc),
             \A k : k.pc = pc /\ k.op = j.op /\ k.key = j.key /\ k.dir = j.dir /\ k.alg = j.alg
                      /\ k.new = j.new
                    => Sure(k),
             j.pc \in {"update", "back"} => pc = "back",
             UNCHANGED <<onServer, rows, files, nextKey, stray, removed>>
      PROVE  Books'
  <2>1. PICK k : k = [j EXCEPT !.pc = pc] OBVIOUS
  <2>2. k.pc = pc /\ k.op = j.op /\ k.key = j.key /\ k.dir = j.dir /\ k.alg = j.alg /\ k.new = j.new
    BY <1>0, <2>1 DEF UpdateJobs
  <2>3. Becomes(w, k) /\ Sure(k) BY <1>3, <2>1, <2>2 DEF Goto
  <2>4. \A p \in Certain : Placed(j, p) => Placed(k, p)
    BY <1>0, <1>3, <2>2 DEF Placed
  <2>5. \A r \in rows : Excused(j, r) => Excused(k, r)
    BY <1>0, <1>3, <2>2 DEF Excused
  <2> QED BY <1>0, <1>3, <2>2, <2>3, <2>4, <2>5, SameSafe DEF files
<1>4. CASE CheckFiles(w)
  <2>1. j.pc = "files" /\ UNCHANGED <<onServer, rows, files, nextKey, stray, removed>>
    BY <1>4 DEF CheckFiles
  <2>2. CASE j.new = j.dir
    <3>1. \A q \in Certain : q.key = j.key => q.path = <<j.new>>
      BY <1>1, <1>2, <2>1, <2>2 DEF Settled, Certain
    <3>2. ASSUME NEW k, k.pc = "update", k.op = j.op, k.key = j.key, k.dir = j.dir, k.alg = j.alg,
                 k.new = j.new
          PROVE  Sure(k)
      BY <1>0, <2>2, <3>1, <3>2 DEF Sure
    <3>3. Goto(w, "update") BY <1>4, <2>2 DEF CheckFiles
    <3> QED BY <1>3, <2>1, <3>2, <3>3
  <2>3. CASE j.new # j.dir
    <3>1. ASSUME NEW k, k.pc = "dup", k.op = j.op, k.key = j.key, k.dir = j.dir, k.alg = j.alg,
                 k.new = j.new
          PROVE  Sure(k)
      BY <1>0, <2>3, <3>1 DEF Sure
    <3>2. Goto(w, "dup") BY <1>4, <2>3 DEF CheckFiles
    <3> QED BY <1>3, <2>1, <3>1, <3>2
  <2> QED BY <2>2, <2>3
<1>5. CASE CheckDuplicate(w)
  <2>1. /\ j.pc = "dup" /\ UNCHANGED <<onServer, rows, files, nextKey, stray, removed>>
        /\ \A r \in rows : r.dir # j.new
    BY <1>5 DEF CheckDuplicate
  <2>2. \A q \in Certain : q.path # <<j.new>> BY <1>2, <2>1 DEF Settled
  <2>3. ASSUME NEW k, k.pc \in {"look", "move"}, k.op = j.op, k.key = j.key, k.dir = j.dir,
               k.alg = j.alg, k.new = j.new
        PROVE  Sure(k)
    BY <1>0, <2>1, <2>2, <2>3 DEF Sure
  <2>4. CASE Goto(w, "move") BY <1>3, <2>1, <2>3, <2>4
  <2>5. CASE Goto(w, "look") BY <1>3, <2>1, <2>3, <2>5
  <2> QED BY <1>5, <2>4, <2>5 DEF CheckDuplicate
<1>6. CASE LookForDir(w)
  <2>1. /\ j.pc = "look" /\ UNCHANGED <<onServer, rows, files, nextKey, stray, removed>>
        /\ Goto(w, "move")
    BY <1>6 DEF LookForDir
  <2>2. ASSUME NEW k, k.pc = "move", k.op = j.op, k.key = j.key, k.dir = j.dir,
               k.alg = j.alg, k.new = j.new
        PROVE  Sure(k)
    BY <1>0, <2>1, <2>2 DEF Sure
  <2> QED BY <1>3, <2>1, <2>2
<1>7. ASSUME Ends(w), UNCHANGED <<onServer, rows, files, nextKey, removed>>, stray \subseteq stray',
             j.key \in stray' \/ j.new = j.dir
      PROVE  Books'
  <2>1. Becomes(w, Idle) /\ Sure(Idle) BY <1>7, IdleSure DEF Ends
  <2>2. \A p \in Certain : Placed(j, p) => p.key \in stray' \/ Settled(p)
    <3> SUFFICES ASSUME NEW p \in Certain, Placed(j, p), j.key \notin stray' PROVE Settled(p)
      BY DEF Placed
    <3>1. p.path = <<j.new>> /\ j.new = j.dir /\ p.key = j.key BY <1>0, <1>7 DEF Placed
    <3>2. PICK r \in rows : r.key = p.key /\ r.alg = p.alg BY <1>0 DEF Placed
    <3> QED BY <1>1, <1>7, <3>1, <3>2 DEF Settled
  <2>3. \A r \in rows : Excused(j, r) => r.key \in stray' \/ Complete(r)
    <3> SUFFICES ASSUME NEW r \in rows, Excused(j, r), j.key \notin stray' PROVE Complete(r)
      BY DEF Excused
    <3>1. r.key = j.key /\ PairIn(j.new, r.alg, r.key) \in disk /\ j.new = j.dir
      BY <1>0, <1>7 DEF Excused
    <3> QED BY <1>1, <1>7, <3>1 DEF Complete
  <2> QED BY <1>0, <1>7, <2>1, <2>2, <2>3, SameSafe DEF files
<1>8. CASE UpdateFails(w)
  <2>1. j.pc = "update" /\ UNCHANGED <<onServer, rows, files, nextKey, stray, removed>>
    BY <1>8 DEF UpdateFails
  <2>2. CASE j.new = j.dir BY <1>7, <1>8, <2>1, <2>2 DEF UpdateFails
  <2>3. CASE j.new # j.dir
    <3>1. ASSUME NEW k, k.pc = "back", k.op = j.op, k.key = j.key, k.dir = j.dir,
                 k.alg = j.alg, k.new = j.new
          PROVE  Sure(k)
      BY <1>0, <2>1, <2>3, <3>1 DEF Sure
    <3>2. Goto(w, "back") BY <1>8, <2>3 DEF UpdateFails
    <3> QED BY <1>3, <2>1, <3>1, <3>2
  <2> QED BY <2>2, <2>3
<1>9. CASE MoveBackFails(w) BY <1>7, <1>9 DEF MoveBackFails
<1>10. CASE UpdateRow(w)
  <2>1. /\ j.pc = "update" /\ UNCHANGED <<onServer, disk, nextKey, stray, removed>>
        /\ Becomes(w, Idle) /\ rows' = WithDir(j.key, j.new)
        /\ \A r \in rows : r.dir = j.new => r.key = j.key
    BY <1>10 DEF UpdateRow, Ends, files
  <2>2. Certain' = Certain BY <2>1 DEF Certain
  <2>3. \A q \in Certain : q.key = j.key => q.path = <<j.new>> BY <1>0, <2>1 DEF Sure
  <2>4. /\ \A r \in rows : r.key # j.key => r \in rows'
        /\ \A r \in rows : r.key = j.key => [r EXCEPT !.dir = j.new] \in rows'
    BY <2>1 DEF WithDir
  <2>5. \A s \in rows' : \E r \in rows : /\ s.key = r.key /\ s.alg = r.alg
                                         /\ r.key = j.key => s.dir = j.new /\ s = [r EXCEPT !.dir = j.new]
                                         /\ r.key # j.key => s = r
    <3> SUFFICES ASSUME NEW r \in rows, NEW s, s = IF r.key = j.key THEN [r EXCEPT !.dir = j.new] ELSE r
                 PROVE  /\ s.key = r.key /\ s.alg = r.alg
                        /\ r.key = j.key => s.dir = j.new /\ s = [r EXCEPT !.dir = j.new]
                        /\ r.key # j.key => s = r
      BY <2>1 DEF WithDir
    <3>1. r \in Row BY DEF Books, TypeOK
    <3> QED BY <3>1 DEF Row
  <2>6. Unique'
    <3> SUFFICES ASSUME NEW s \in rows', NEW t \in rows', s.key = t.key \/ s.dir = t.dir
                 PROVE  s = t
      BY DEF Unique
    <3>1. PICK r \in rows : /\ s.key = r.key
                            /\ r.key = j.key => s.dir = j.new /\ s = [r EXCEPT !.dir = j.new]
                            /\ r.key # j.key => s = r
      BY <2>5
    <3>2. PICK u \in rows : /\ t.key = u.key
                            /\ u.key = j.key => t.dir = j.new /\ t = [u EXCEPT !.dir = j.new]
                            /\ u.key # j.key => t = u
      BY <2>5
    <3>3. r.key = u.key \/ r.dir = u.dir => r = u BY DEF Books, Unique
    <3>4. r = u BY <2>1, <3>1, <3>2, <3>3
    <3> QED BY <3>1, <3>2, <3>4
  <2>7. \A p \in Certain' : Settled(p)'
    <3> SUFFICES ASSUME NEW p \in Certain PROVE Settled(p)'
      BY <2>2
    <3>1. PICK r \in rows : /\ r.key = p.key /\ r.alg = p.alg
                            /\ p.path = <<r.dir>> \/ r.key = j.key
      BY <1>2 DEF Settled, Placed
    <3>2. CASE r.key # j.key BY <2>4, <3>1, <3>2 DEF Settled
    <3>3. CASE r.key = j.key
      <4>1. PICK s : s = [r EXCEPT !.dir = j.new] OBVIOUS
      <4>2. s \in rows' /\ s.key = r.key /\ s.alg = r.alg /\ s.dir = j.new
        <5>1. r \in Row BY DEF Books, TypeOK
        <5> QED BY <2>4, <3>3, <4>1, <5>1 DEF Row
      <4>3. p.path = <<j.new>> BY <2>3, <3>1, <3>3
      <4> QED BY <3>1, <4>2, <4>3 DEF Settled
    <3> QED BY <3>2, <3>3
  <2>8. ~onServer => \A r \in rows' : Complete(r)'
    <3> SUFFICES ASSUME ~onServer, NEW s \in rows', s.key \notin stray \cup removed
                 PROVE  PairIn(s.dir, s.alg, s.key) \in disk
      BY <2>1 DEF Complete
    <3>1. PICK r \in rows : /\ s.key = r.key /\ s.alg = r.alg
                            /\ r.key = j.key => s.dir = j.new
                            /\ r.key # j.key => s = r
      BY <2>5
    <3>2. PairIn(r.dir, r.alg, r.key) \in disk \/ Excused(j, r)
      BY <1>0, <3>1, OnlyMine DEF Complete
    <3>3. CASE r.key # j.key BY <3>1, <3>2, <3>3 DEF Excused
    <3>4. CASE r.key = j.key /\ PairIn(r.dir, r.alg, r.key) \in disk
      <4>1. PairIn(r.dir, r.alg, r.key) \in Certain BY <3>1, <3>4, WrittenPair DEF Certain
      <4>2. <<r.dir>> = <<j.new>> BY <2>3, <3>4, <4>1, WrittenPair
      <4>3. r.dir = j.new BY <4>2
      <4> QED BY <3>1, <3>4, <4>3
    <3>5. CASE r.key = j.key /\ Excused(j, r) BY <1>10, <2>1, <3>1, <3>5 DEF Excused
    <3> QED BY <3>2, <3>3, <3>4, <3>5
  <2>9. StepOf(w, Idle)
    <3>1. Rowed' \subseteq Rowed BY <2>5 DEF Rowed
    <3> QED BY <1>0, <2>1, <2>2, <3>1 DEF StepOf
  <2> QED BY <2>1, <2>6, <2>7, <2>8, <2>9, IdleSure, StepSafe
<1> QED BY <1>4, <1>5, <1>6, <1>8, <1>9, <1>10

LEMMA DeleteKeepsBooks ==
  ASSUME Books, TypeOK', NEW w \in Workers,
         RemoveFiles(w) \/ RemoveFilesFails(w) \/ RemoveDir(w) \/ DropRow(w) \/ DropFails(w)
  PROVE  Books'
<1> DEFINE j == job[w]
<1>0. /\ j.pc \in {"remove", "rmdir", "drop"} /\ j.op = "delete" /\ Active(w)
      /\ Sure(j) /\ j \in DeleteJobs
  <2>1. TypeOK /\ j.pc \in {"remove", "rmdir", "drop"}
    BY DEF Books, RemoveFiles, RemoveFilesFails, RemoveDir, DropRow, DropFails
  <2>2. j \in DeleteJobs BY <2>1, JobTypes
  <2>3. Sure(j) BY DEF Books
  <2> QED BY <2>1, <2>2, <2>3 DEF DeleteJobs, Active
<1>1. /\ \A p \in Certain : Settled(p)
      /\ ~onServer => \A r \in rows : Complete(r) \/ (Excused(j, r) /\ j.pc \in {"rmdir", "drop"})
  BY <1>0, OnlyMine DEF Placed, Excused
<1>2. \A r \in rows : r.key = j.key /\ r.key \notin stray => r.dir = j.dir /\ r.alg = j.alg
  BY <1>0 DEF Sure
<1>3. \A q \in Certain : q.path = <<j.dir>> => q.key = j.key BY <1>0 DEF Sure
<1>4. ASSUME NEW pc \in {"rmdir", "drop"}, Goto(w, pc),
             UNCHANGED <<onServer, rows, nextKey, removed>>, stray \subseteq stray',
             disk' \subseteq disk, \A q \in Certain' : q.key # j.key,
             \A r \in rows : PairIn(r.dir, r.alg, r.key) \in disk
                               => r.key = j.key \/ r.key \in stray' \/ PairIn(r.dir, r.alg, r.key) \in disk'
      PROVE  Books'
  <2>1. PICK k : k = [j EXCEPT !.pc = pc] OBVIOUS
  <2>2. k.pc = pc /\ k.op = j.op /\ k.key = j.key /\ k.dir = j.dir /\ k.alg = j.alg /\ k.new = j.new
    BY <1>0, <2>1 DEF DeleteJobs
  <2>3. Becomes(w, k) BY <1>4, <2>1 DEF Goto
  <2>4. Certain' \subseteq Certain BY <1>4 DEF Certain
  <2>5. StepOf(w, k)
    <3>1. \A q \in disk' : \E p \in disk : q.key = p.key BY <1>4
    <3> QED BY <1>0, <1>4, <2>2, <2>3, <2>4, <3>1 DEF StepOf, Rowed
  <2>6. Sure(k)' BY <1>0, <1>4, <2>2, <2>4 DEF Sure
  <2>7. Unique' BY <1>4 DEF Books, Unique
  <2>8. \A p \in Certain' : Settled(p)' BY <1>1, <1>4, <2>4 DEF Settled
  <2>9. ~onServer => \A r \in rows' : Complete(r)' \/ Excused(k, r)'
    <3> SUFFICES ASSUME ~onServer, NEW r \in rows, r.key # j.key PROVE Complete(r)'
      BY <1>4, <2>2 DEF Excused
    <3>1. Complete(r) BY <1>1 DEF Excused
    <3> QED BY <1>4, <3>1 DEF Complete
  <2> QED BY <1>0, <2>5, <2>6, <2>7, <2>8, <2>9, StepSafe
<1>5. CASE RemoveFiles(w)
  <2>1. /\ disk' = disk \ At(j.dir, j.alg) /\ UNCHANGED <<onServer, rows, nextKey, stray, removed>>
    BY <1>5 DEF RemoveFiles
  <2>2. \A q \in Certain' : q.key # j.key
    <3> SUFFICES ASSUME NEW q \in Certain', q.key = j.key PROVE FALSE
      OBVIOUS
    <3>1. q \in Certain /\ q \notin At(j.dir, j.alg) BY <2>1 DEF Certain
    <3>2. PICK r \in rows : r.key = q.key /\ r.alg = q.alg /\ q.path = <<r.dir>>
      BY <1>1, <3>1 DEF Settled
    <3>3. r.dir = j.dir /\ r.alg = j.alg BY <1>2, <3>1, <3>2 DEF Certain
    <3> QED BY <3>1, <3>2, <3>3 DEF At, Certain
  <2>3. \A r \in rows : PairIn(r.dir, r.alg, r.key) \in disk
                          => r.key = j.key \/ r.key \in stray' \/ PairIn(r.dir, r.alg, r.key) \in disk'
    <3> SUFFICES ASSUME NEW r \in rows, PairIn(r.dir, r.alg, r.key) \in disk, r.key \notin stray,
                        PairIn(r.dir, r.alg, r.key) \in At(j.dir, j.alg)
                 PROVE  r.key = j.key
      BY <2>1
    <3>1. PairIn(r.dir, r.alg, r.key) \in Certain BY WrittenPair DEF Certain
    <3>2. <<r.dir>> = <<j.dir>> BY WrittenPair DEF At
    <3> QED BY <1>3, <3>1, <3>2, WrittenPair
  <2>4. disk' \subseteq disk BY <2>1
  <2>5. CASE Goto(w, "drop") BY <1>4, <2>1, <2>2, <2>3, <2>4, <2>5
  <2>6. CASE Goto(w, "rmdir") BY <1>4, <2>1, <2>2, <2>3, <2>4, <2>6
  <2> QED BY <1>5, <2>5, <2>6 DEF RemoveFiles
<1>6. CASE RemoveFilesFails(w)
  <2>1. stray' = stray \cup {j.key} /\ UNCHANGED <<onServer, rows, files, nextKey, removed>>
    BY <1>6 DEF RemoveFilesFails
  <2>2. disk' = disk BY <2>1 DEF files
  <2>3. \A q \in Certain' : q.key # j.key BY <2>1 DEF Certain
  <2>4. CASE Goto(w, "drop") BY <1>4, <2>1, <2>2, <2>3, <2>4
  <2>5. CASE Goto(w, "rmdir") BY <1>4, <2>1, <2>2, <2>3, <2>5
  <2> QED BY <1>6, <2>4, <2>5 DEF RemoveFilesFails
<1>7. CASE RemoveDir(w)
  <2>1. /\ j.pc = "rmdir" /\ Goto(w, "drop")
        /\ UNCHANGED <<onServer, rows, disk, nextKey, stray, removed>>
    BY <1>7 DEF RemoveDir
  <2>2. Certain' = Certain BY <2>1 DEF Certain
  <2>3. \A q \in Certain' : q.key # j.key BY <1>0, <2>1, <2>2 DEF Sure
  <2> QED BY <1>4, <2>1, <2>3
<1>8. CASE DropRow(w)
  <2>1. /\ j.pc = "drop" /\ Becomes(w, Idle) /\ UNCHANGED <<onServer, disk, nextKey, stray, removed>>
        /\ rows' = {r \in rows : r.key # j.key}
    BY <1>8 DEF DropRow, Ends, files
  <2>2. Certain' = Certain BY <2>1 DEF Certain
  <2>3. \A q \in Certain : q.key # j.key BY <1>0, <2>1 DEF Sure
  <2>4. Unique' BY <2>1 DEF Books, Unique
  <2>5. \A p \in Certain' : Settled(p)' BY <1>1, <2>1, <2>2, <2>3 DEF Settled
  <2>6. ~onServer => \A r \in rows' : Complete(r)'
    <3> SUFFICES ASSUME ~onServer, NEW r \in rows, r.key # j.key PROVE Complete(r)'
      BY <2>1
    <3>1. Complete(r) BY <1>1 DEF Excused
    <3> QED BY <2>1, <3>1 DEF Complete
  <2>7. StepOf(w, Idle) BY <1>0, <2>1, <2>2 DEF StepOf, Rowed
  <2> QED BY <2>1, <2>4, <2>5, <2>6, <2>7, IdleSure, StepSafe
<1>9. CASE DropFails(w)
  <2>1. /\ Becomes(w, Idle) /\ stray' = stray \cup {j.key}
        /\ UNCHANGED <<onServer, rows, disk, nextKey, removed>>
    BY <1>9 DEF DropFails, Ends, files
  <2>2. \A p \in Certain : Placed(j, p) => p.key \in stray' BY <2>1 DEF Placed
  <2>3. \A r \in rows : Excused(j, r) => r.key \in stray' BY <2>1 DEF Excused
  <2> QED BY <1>0, <2>1, <2>2, <2>3, IdleSure, SameSafe
<1> QED BY <1>5, <1>6, <1>7, <1>8, <1>9

LEMMA GiveUpKeepsBooks ==
  ASSUME Books, TypeOK', NEW w \in Workers, GiveUp(w)
  PROVE  Books'
<1>1. /\ Active(w) /\ Becomes(w, Idle) /\ UNCHANGED <<onServer, rows, disk, nextKey, removed, stray>>
      /\ job[w].pc \notin {"insert", "update", "back", "rmdir", "drop"}
  BY DEF GiveUp, Active, Ends, files
<1>2. \A p \in Certain : ~Placed(job[w], p) BY <1>1 DEF Placed
<1>3. \A r \in rows : ~Excused(job[w], r) BY <1>1 DEF Excused
<1> QED BY <1>1, <1>2, <1>3, IdleSure, SameSafe
-----------------------------------------------------------------------------
(* What is done to the store from outside its commands.                    *)
LEMMA OthersKeepBooks ==
  ASSUME Books, TypeOK',
         \/ \E d \in Dirs : UserRemoves(d)
         \/ DeleteConnection \/ Reconnect \/ Crash \/ UNCHANGED vars
  PROVE  Books'
<1>1. CASE \E d \in Dirs : UserRemoves(d)
  <2>1. PICK d \in Dirs : UserRemoves(d) BY <1>1
  <2>2. /\ disk' = disk \ InDir(d) /\ removed' = removed \cup {p.key : p \in InDir(d)}
        /\ UNCHANGED <<onServer, rows, nextKey, job, stray>>
    BY <2>1 DEF UserRemoves
  <2>3. Certain' \subseteq Certain BY <2>2 DEF Certain
  <2>4. \A a, b, x : PairIn(a, b, x) \in disk => PairIn(a, b, x) \in disk' \/ x \in removed'
    <3> SUFFICES ASSUME NEW a, NEW b, NEW x, PairIn(a, b, x) \in InDir(d) PROVE x \in removed'
      BY <2>2
    <3> QED BY <2>2, WrittenPair
  <2>5. Fresh' /\ Unique' BY <2>2 DEF Books, Fresh, Unique
  <2>6. \A v, w \in Workers : v # w /\ Active(v)' /\ Active(w)' => Marked(job[v], job[w])'
    BY <2>2 DEF Books, Active, Marked
  <2>7. \A w \in Workers : Sure(job[w])'
    <3> TAKE w \in Workers
    <3>1. PICK j : j = job[w] OBVIOUS
    <3>2. Sure(j) /\ job'[w] = j BY <2>2, <3>1 DEF Books
    <3>3. Sure(j)' BY <2>2, <2>3, <2>4, <3>2 DEF Sure, Rowed
    <3> QED BY <3>2, <3>3
  <2>8. \A p \in Certain' : Settled(p)' \/ \E w \in Workers : Placed(job[w], p)'
    BY <2>2, <2>3 DEF Books, Settled, Placed
  <2>9. ~onServer' => \A r \in rows' : Complete(r)' \/ \E w \in Workers : Excused(job[w], r)'
    <3> SUFFICES ASSUME ~onServer, NEW r \in rows
                 PROVE  Complete(r)' \/ \E w \in Workers : Excused(job[w], r)'
      BY <2>2
    <3>1. CASE Complete(r) BY <2>2, <2>4, <3>1 DEF Complete
    <3>2. ASSUME NEW w \in Workers, Excused(job[w], r) PROVE Complete(r)' \/ Excused(job[w], r)'
      BY <2>2, <2>4, <3>2 DEF Excused, Complete
    <3> QED BY <3>1, <3>2 DEF Books
  <2> QED BY <2>5, <2>6, <2>7, <2>8, <2>9 DEF Books
<1>2. CASE DeleteConnection
  <2>1. /\ onServer /\ rows' = {} /\ stray' = stray \cup Rowed
        /\ UNCHANGED <<onServer, disk, nextKey, job, removed>>
    BY <1>2 DEF DeleteConnection, files
  <2>2. Certain' \subseteq Certain /\ \A p \in Certain' : p.key \notin Rowed BY <2>1 DEF Certain
  <2>3. Fresh' /\ Unique' BY <2>1 DEF Books, Fresh, Unique
  <2>4. \A v, w \in Workers : v # w /\ Active(v)' /\ Active(w)' => Marked(job[v], job[w])'
    BY <2>1 DEF Books, Active, Marked
  <2>5. \A w \in Workers : Sure(job[w])'
    <3> TAKE w \in Workers
    <3>1. PICK j : j = job[w] OBVIOUS
    <3>2. Sure(j) /\ job'[w] = j BY <2>1, <3>1 DEF Books
    <3>3. Sure(j)' BY <2>1, <2>2, <3>2 DEF Sure, Rowed
    <3> QED BY <3>2, <3>3
  <2>6. \A p \in Certain' : \E w \in Workers : Placed(job[w], p)'
    BY <2>1, <2>2 DEF Books, Settled, Placed, Rowed
  <2> QED BY <2>1, <2>3, <2>4, <2>5, <2>6 DEF Books
<1>3. CASE Reconnect \/ UNCHANGED vars
  <2>1. UNCHANGED <<onServer, rows, disk, nextKey, job, stray, removed>>
    BY <1>3 DEF Reconnect, files, vars
  <2>2. Fresh' /\ Unique' /\ Certain' = Certain /\ Rowed' = Rowed
    BY <2>1 DEF Books, Fresh, Unique, Certain, Rowed
  <2>3. \A v, w \in Workers : v # w /\ Active(v)' /\ Active(w)' => Marked(job[v], job[w])'
    BY <2>1 DEF Books, Active, Marked
  <2>4. \A w \in Workers : Sure(job[w])'
    <3> TAKE w \in Workers
    <3>1. PICK j : j = job[w] OBVIOUS
    <3>2. Sure(j) /\ job'[w] = j BY <2>1, <3>1 DEF Books
    <3>3. Sure(j)' BY <2>1, <2>2, <3>2 DEF Sure
    <3> QED BY <3>2, <3>3
  <2>5. \A p \in Certain' : Settled(p)' \/ \E w \in Workers : Placed(job[w], p)'
    BY <2>1, <2>2 DEF Books, Settled, Placed
  <2>6. ~onServer' => \A r \in rows' : Complete(r)' \/ \E w \in Workers : Excused(job[w], r)'
    BY <2>1 DEF Books, Complete, Excused
  <2> QED BY <2>2, <2>3, <2>4, <2>5, <2>6 DEF Books
<1>4. CASE Crash
  <2>1. /\ UNCHANGED <<onServer, rows, disk, nextKey, removed>>
        /\ job' = [w \in Workers |-> Idle] /\ stray \subseteq stray'
        /\ \A w \in Workers : job[w].pc \in {"insert", "update", "back", "rmdir", "drop"}
                                => job[w].key \in stray'
    BY <1>4 DEF Crash, files
  <2>2. Certain' \subseteq Certain BY <2>1 DEF Certain
  <2>3. Fresh' /\ Unique' BY <2>1 DEF Books, Fresh, Unique
  <2>4. \A w \in Workers : ~Active(w)' /\ Sure(job[w])'
    <3> TAKE w \in Workers
    <3>1. job'[w] = Idle BY <2>1
    <3> QED BY <3>1, IdleSure DEF Active, Idle
  <2>5. \A p \in Certain' : Settled(p)'
    <3> TAKE p \in Certain'
    <3>1. p \in Certain /\ p.key \notin stray' BY <2>2 DEF Certain
    <3>2. \A w \in Workers : ~Placed(job[w], p) BY <2>1, <3>1 DEF Placed
    <3> QED BY <2>1, <3>1, <3>2 DEF Books, Settled
  <2>6. ~onServer' => \A r \in rows' : Complete(r)'
    <3> SUFFICES ASSUME ~onServer, NEW r \in rows, r.key \notin stray' PROVE Complete(r)'
      BY <2>1 DEF Complete
    <3>1. \A w \in Workers : ~Excused(job[w], r) BY <2>1 DEF Excused
    <3> QED BY <2>1, <3>1 DEF Books, Complete
  <2> QED BY <2>3, <2>4, <2>5, <2>6 DEF Books
<1> QED BY <1>1, <1>2, <1>3, <1>4

LEMMA StepsKeepBooks ==
  ASSUME Books, [Next]_vars
  PROVE  Books'
<1>1. TypeOK' BY Steps DEF Books
<1>2. ASSUME NEW w \in Workers, Create(w) \/ Update(w) \/ Delete(w) \/ GiveUp(w) PROVE Books'
  <2>1. CASE Create(w) BY <1>1, <2>1, StartsKeepBooks, CreateKeepsBooks DEF Create
  <2>2. CASE Update(w)
    BY <1>1, <2>2, StartsKeepBooks, UpdateKeepsBooks, MoveDirKeepsBooks, MoveBackKeepsBooks DEF Update
  <2>3. CASE Delete(w) BY <1>1, <2>3, StartsKeepBooks, DeleteKeepsBooks DEF Delete
  <2>4. CASE GiveUp(w) BY <1>1, <2>4, GiveUpKeepsBooks
  <2> QED BY <1>2, <2>1, <2>2, <2>3, <2>4
<1> QED BY <1>1, <1>2, OthersKeepBooks DEF Next

LEMMA BooksInitially == ASSUME Init PROVE Books
<1>1. TypeOK BY Initially
<1>2. \A w \in Workers : job[w] = Idle BY DEF Init
<1>3. \A w \in Workers : ~Active(w) /\ Sure(job[w]) BY <1>2, IdleSure DEF Active, Idle
<1>4. rows = {} /\ disk = {} BY DEF Init
<1> QED BY <1>1, <1>3, <1>4 DEF Books, Fresh, Unique, Certain
-----------------------------------------------------------------------------
(* Every variable keeps its type: rows only while the target exists, pairs *)
(* only in directories that exist.                                         *)
THEOREM TypeCorrect == Spec => []TypeOK
<1>1. Init => TypeOK BY Initially
<1>2. TypeOK /\ [Next]_vars => TypeOK' BY Steps
<1> QED BY <1>1, <1>2, PTL DEF Spec

(* However many commands run and whatever fails, no key is generated or    *)
(* moved over another one: create_dir and mkdir are exclusive, ssh-keygen  *)
(* does not overwrite, and rename and mv do not merge directories.         *)
THEOREM NoKeyOverwritten == Spec => []OnePairPerPath
<1>1. Init => TypeOK /\ OnePairPerPath BY Initially
<1>2. TypeOK /\ OnePairPerPath /\ [Next]_vars => (TypeOK /\ OnePairPerPath)' BY Steps
<1> QED BY <1>1, <1>2, PTL DEF Spec

(* Files and rows share no transaction, yet whatever is interleaved, fails *)
(* or is killed, a pair on disk has a row or is about to get one, unless a *)
(* named event parted the two or a rename on a server nested the directory.*)
THEOREM FilesHaveAnOwner == Spec => []FilesAccountedFor
<1>1. Init => Books BY BooksInitially
<1>2. Books /\ [Next]_vars => Books' BY StepsKeepBooks
<1>3. Books => FilesAccountedFor
  <2> SUFFICES ASSUME Books, NEW p \in disk, p.key \notin stray, ~(Len(p.path) > 1), p.key \notin Rowed
               PROVE  \E w \in Workers : job[w].pc = "insert" /\ job[w].key = p.key
    BY DEF FilesAccountedFor
  <2>1. p.path \in Seq(Dirs) /\ p.path # <<>> BY DEF Books, TypeOK, Pair
  <2>2. \A n \in Nat \ {0} : ~(n > 1) => n = 1 OBVIOUS
  <2>3. Len(p.path) = 1
    <3>1. Len(p.path) \in Nat \ {0} BY <2>1
    <3> QED BY <2>2, <3>1
  <2>4. p \in Certain BY <2>3 DEF Certain
  <2> QED BY <2>4 DEF Books, Settled, Placed, Rowed
<1> QED BY <1>1, <1>2, <1>3, PTL DEF Spec

(* On this machine, with no command in flight, the files of a row are      *)
(* where the row says: a rename that fails half way is undone, and only an *)
(* undo that fails too, a crash, an overlap or the user parts the two.     *)
THEOREM RowsHaveTheirFiles == Spec => []RowHasItsFilesHere
<1>1. Init => Books BY BooksInitially
<1>2. Books /\ [Next]_vars => Books' BY StepsKeepBooks
<1>3. Books => RowHasItsFilesHere
  <2> SUFFICES ASSUME Books, ~onServer, Quiet, NEW r \in rows PROVE Complete(r)
    BY DEF RowHasItsFilesHere, RowHasItsFiles, Complete
  <2>1. \A w \in Workers : ~Excused(job[w], r) BY DEF Quiet, Active, Excused
  <2> QED BY <2>1 DEF Books
<1> QED BY <1>1, <1>2, <1>3, PTL DEF Spec
=============================================================================
