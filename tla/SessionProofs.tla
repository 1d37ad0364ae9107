--------------------------- MODULE SessionProofs ----------------------------
(***************************************************************************)
(* Proofs about Session for every set of users, repositories and calls and *)
(* every number of sign-ins: which rows the list can hold, that the token  *)
(* of an account is where its row says, and that calls made one after the  *)
(* other leave the window showing the session of the database.             *)
(***************************************************************************)
EXTENDS Session, TLAPS

(* Where a call is, by what it knows.                                      *)
Pasting == {"user", "store", "find", "save"}  \* has drawn a reference
Kept == {"find", "save"}                      \* its token is stored under it
Leaving == {"wipe", "drop"}                   \* has listed the accounts to sign out
Owned == {"cache", "check", "token", "keep", "fetch", "look", "insert", "update"}
                                              \* works for one account

Plain(j) ==
  /\ j = [op |-> j.op, pc |-> j.pc, user |-> j.user, ref |-> j.ref, id |-> j.id,
          owner |-> j.owner, at |-> j.at, repo |-> j.repo, todo |-> j.todo,
          ok |-> j.ok, live |-> j.live]
  /\ j.op = "idle" => j.pc = "idle"

Shapes ==
  /\ accounts \in [Ids -> Account \cup {None}]
  /\ repos = [g \in Repos |-> repos[g]]
  /\ lastId \in 0..MaxSignIns /\ lastRef \in 0..MaxSignIns
  /\ store = [r \in Refs |-> store[r]] /\ saved = [r \in Refs |-> saved[r]]
  /\ job = [w \in Workers |-> job[w]] /\ \A w \in Workers : Plain(job[w])

(* Whether row i, if it is still there, is u's.                            *)
Belongs(i, u) == i \in Ids /\ i <= lastId /\ (accounts[i] = None \/ accounts[i].user = u)

Dropping(i) == \E w \in Workers : job[w].pc = "drop" /\ job[w].id = i

(* Ids and references are given once, and a token is only taken from the   *)
(* store by a sign-out that is about to delete the row.                    *)
Books ==
  /\ \A i \in Rows : i <= lastId /\ accounts[i].ref <= lastRef
  /\ \A i, k \in Rows : accounts[i].ref = accounts[k].ref => i = k
  /\ "partial" \notin upset =>
       \A i \in Rows : store[accounts[i].ref] = accounts[i].user \/ Dropping(i)

(* What a call at a given step may rely on.                                *)
Mine(j) ==
  /\ j.pc \in Pasting =>
       /\ j.user \in Users /\ j.ref \in Refs /\ j.ref <= lastRef
       /\ \A i \in Rows : accounts[i].ref # j.ref
  /\ j.pc \in Kept => store[j.ref] = j.user
  /\ j.pc = "save" => j.at \in Ids /\ (j.id # 0 => Belongs(j.id, j.user))
  /\ j.pc \in Leaving =>
       \A d \in j.todo : \E k \in Ids, r \in Refs :
         /\ d = <<k, r>> /\ r <= lastRef
         /\ \A i \in Rows : accounts[i].ref = r => i = k
  /\ j.pc = "drop" => j.id \in Ids
  /\ j.pc \in Owned => Belongs(j.id, j.owner)

(* A reference drawn by one call is no other call's.                       *)
Apart(j, k) ==
  j.pc \in Pasting =>
    /\ k.pc \in Pasting => j.ref # k.ref
    /\ k.pc \in Leaving => \A d \in k.todo : d[2] # j.ref

SInv ==
  /\ Shapes /\ Books /\ RowsStayWithTheirUser
  /\ \A w \in Workers : Mine(job[w])
  /\ \A v, w \in Workers : v # w => Apart(job[v], job[w])
-----------------------------------------------------------------------------
(* A step that touches neither the tables nor the store, after which every *)
(* call is where it was, or knows no more than it did.                     *)
Stays(j, k) ==
  /\ k.pc = j.pc /\ k.user = j.user /\ k.ref = j.ref /\ k.id = j.id
  /\ k.owner = j.owner /\ k.at = j.at /\ k.todo = j.todo

Moves(j, k) ==
  /\ j.pc = "drop" => "partial" \in upset'
  /\ Mine(k)
  /\ k.pc \in Pasting => j.pc \in Pasting /\ k.ref = j.ref
  /\ k.pc \in Leaving => j.pc \in Leaving /\ k.todo \subseteq j.todo

LEMMA MovingSafe ==
  ASSUME SInv, UNCHANGED <<tables, store, lastRef>>, saved' = [r \in Refs |-> saved'[r]],
         upset \subseteq upset', job' = [w \in Workers |-> job'[w]],
         \A w \in Workers : /\ Plain(job'[w])
                            /\ Stays(job[w], job'[w]) \/ Moves(job[w], job'[w])
  PROVE  SInv'
<1> USE DEF SInv
<1>0. UNCHANGED <<accounts, repos, lastId, store, lastRef>> BY DEF tables
<1>1. Shapes' BY <1>0 DEF Shapes, Plain
<1>2. \A w \in Workers : Mine(job[w])'
  <2>1. \A w \in Workers : Mine(job'[w])
    <3> TAKE w \in Workers
    <3>1. CASE Stays(job[w], job'[w])
      BY <3>1 DEF Stays, Mine
    <3> QED BY <3>1 DEF Moves
  <2> QED BY <1>0, <2>1 DEF Mine, Belongs, Rows
<1>3. \A v, w \in Workers : v # w => Apart(job[v], job[w])'
  BY DEF Apart, Stays, Moves
<1>4. Books'
  <2>1. "partial" \notin upset' => \A i : Dropping(i) => Dropping(i)'
    BY DEF Dropping, Stays, Moves
  <2> QED BY <1>0, <2>1 DEF Books, Rows
<1>5. RowsStayWithTheirUser' BY <1>0 DEF RowsStayWithTheirUser, Rows, Listed
<1> QED BY <1>1, <1>2, <1>3, <1>4, <1>5

(* The same of a step of one call.                                         *)
LEMMA StepSafe ==
  ASSUME SInv, NEW w \in Workers, NEW k, Becomes(w, k), Plain(k), Moves(job[w], k),
         UNCHANGED <<tables, store, saved, lastRef>>, upset \subseteq upset'
  PROVE  SInv'
<1>1. job' = [v \in Workers |-> job'[v]] /\ job'[w] = k
      /\ \A v \in Workers \ {w} : job'[v] = job[v]
  BY DEF Becomes, SInv, Shapes
<1>2. saved' = [r \in Refs |-> saved'[r]] BY DEF SInv, Shapes
<1>3. \A v \in Workers : /\ Plain(job'[v])
                         /\ Stays(job[v], job'[v]) \/ Moves(job[v], job'[v])
  BY <1>1 DEF SInv, Shapes, Stays
<1> QED BY <1>1, <1>2, <1>3, MovingSafe

(* And of one that leaves the call without anything to rely on.            *)
LEMMA LetGo ==
  ASSUME SInv, NEW w \in Workers, NEW k, Becomes(w, k), Plain(k),
         k.pc \notin Pasting \cup Leaving \cup Owned,
         job[w].pc = "drop" => "partial" \in upset',
         UNCHANGED <<tables, store, saved, lastRef>>, upset \subseteq upset'
  PROVE  SInv'
<1>1. Moves(job[w], k) BY DEF Moves, Mine, Pasting, Kept, Leaving
<1> QED BY <1>1, StepSafe
-----------------------------------------------------------------------------
(* What the window does.                                                   *)
Loose == {"list", "account", "first", "rows", "see", "session", "answer", "idle"}

LEMMA LooseFree == ASSUME NEW k, k.pc \in Loose PROVE k.pc \notin Pasting \cup Leaving \cup Owned
BY DEF Loose, Pasting, Leaving, Owned

LEMMA CallIs ==
  ASSUME NEW op, NEW pc, NEW c, c = Call(op, pc)
  PROVE  /\ c.op = op /\ c.pc = pc /\ c.id = 0
         /\ op # "idle" => Plain(c)
<1>1. c.op = op /\ c.pc = pc /\ c.id = 0 BY DEF Call, Idle
<1>2. ASSUME op # "idle" PROVE Plain(c) BY <1>2 DEF Call, Idle, Plain
<1> QED BY <1>1, <1>2

LEMMA IdlePlain ==
  /\ Plain(Idle) /\ Idle.pc \in Loose
  /\ \A op, pc : /\ Call(op, pc).pc = pc
                 /\ op # "idle" => Plain(Call(op, pc))
<1>1. Plain(Idle) /\ Idle.pc \in Loose BY DEF Plain, Idle, Loose
<1> QED BY <1>1, CallIs

(* A call that starts, in a worker that was idle.                          *)
LEMMA BeginSafe ==
  ASSUME SInv, NEW w \in Workers, NEW op, op # "idle", NEW pc \in Loose,
         Begin(w, Call(op, pc)), UNCHANGED <<tables, store, saved, lastRef>>
  PROVE  SInv'
<1>1. job[w].pc # "drop" BY DEF Begin, Active, SInv, Shapes, Plain
<1>2. upset \subseteq upset' BY DEF Begin
<1>3. Becomes(w, Call(op, pc)) BY DEF Begin
<1> QED BY <1>1, <1>2, <1>3, IdlePlain, LooseFree, LetGo

(* The list is torn down: its calls go on where they are.                  *)
LEMMA UnmountSafe ==
  ASSUME SInv, job' = Unmounted, UNCHANGED <<tables, tokens, upset>>
  PROVE  SInv'
<1>1. job' = [w \in Workers |-> job'[w]] BY DEF Unmounted
<1>2. ASSUME NEW w \in Workers PROVE Plain(job'[w]) /\ Stays(job[w], job'[w])
  <2>1. Plain(job[w]) BY DEF SInv, Shapes
  <2>2. job'[w] = [job[w] EXCEPT !.live = FALSE] \/ job'[w] = job[w] BY DEF Unmounted
  <2>3. CASE job'[w] = [job[w] EXCEPT !.live = FALSE] BY <2>1, <2>3 DEF Plain, Stays
  <2> QED BY <2>1, <2>2, <2>3 DEF Stays
<1>3. UNCHANGED <<store, lastRef>> /\ saved' = [r \in Refs |-> saved'[r]]
  BY DEF tokens, SInv, Shapes
<1> QED BY <1>1, <1>2, <1>3, MovingSafe

LEMMA SameSafe == ASSUME SInv, UNCHANGED <<tables, tokens, job, upset>> PROVE SInv'
<1>1. \A w \in Workers : Plain(job'[w]) /\ Stays(job[w], job'[w])
  BY DEF SInv, Shapes, Stays
<1>2. /\ UNCHANGED <<store, lastRef>> /\ saved' = [r \in Refs |-> saved'[r]]
      /\ job' = [w \in Workers |-> job'[w]]
  BY DEF tokens, SInv, Shapes
<1> QED BY <1>1, <1>2, MovingSafe

LEMMA WindowSafe ==
  ASSUME SInv, NEW w \in Workers,
         \/ OpenSignIn \/ LeaveRepos \/ CancelSignIn(w) \/ ReturnToRepos(w)
         \/ ClickSignOut(w) \/ ClickSync(w)
  PROVE  SInv'
<1>1. CASE OpenSignIn \/ LeaveRepos
  BY <1>1, UnmountSafe DEF OpenSignIn, LeaveRepos
<1>2. CASE CancelSignIn(w) \/ ReturnToRepos(w)
  <2>1. UNCHANGED <<tables, tokens>> /\ \E in : Mount(w, in)
    BY <1>2 DEF CancelSignIn, ReturnToRepos
  <2>2. Begin(w, Call("load", "first")) \/ UNCHANGED <<job, upset>> BY <2>1 DEF Mount
  <2> QED BY <2>1, <2>2, BeginSafe, SameSafe DEF Loose, tokens
<1>3. CASE ClickSignOut(w) \/ ClickSync(w)
  <2>1. UNCHANGED <<tables, tokens>>
        /\ (Begin(w, Call("signout", "list")) \/ Begin(w, Call("sync", "account")))
    BY <1>3 DEF ClickSignOut, ClickSync
  <2> QED BY <2>1, BeginSafe DEF Loose, tokens
<1> QED BY <1>1, <1>2, <1>3

(* A token is pasted under a reference nobody has drawn.                   *)
LEMMA SubmitSafe ==
  ASSUME SInv, NEW w \in Workers, SubmitToken(w) PROVE SInv'
<1> DEFINE r == lastRef + 1
<1>1. PICK u \in Users :
        Begin(w, [Call("signin", "user") EXCEPT !.user = u, !.ref = lastRef + 1])
  BY DEF SubmitToken
<1>2. /\ UNCHANGED <<accounts, repos, lastId, store, saved>>
      /\ lastRef' = r /\ r \in Refs /\ lastRef \in Nat
  BY SessionAssumption DEF SubmitToken, tables, SInv, Shapes, Refs
<1> DEFINE k == [Call("signin", "user") EXCEPT !.user = u, !.ref = lastRef + 1]
<1>3. Plain(k) /\ k.pc = "user" /\ k.user = u /\ k.ref = r 
  <2>1. PICK c : c = k OBVIOUS
  <2>2. Plain(c) BY <2>1 DEF Plain, Call, Idle
  <2>3. c.pc = "user" /\ c.user = u /\ c.ref = r BY <2>1 DEF Call, Idle
  <2> HIDE DEF k
  <2> QED BY <2>1, <2>2, <2>3
<1>4. Becomes(w, k) /\ upset \subseteq upset' BY <1>1 DEF Begin
<1> HIDE DEF k
<1>5. job' = [v \in Workers |-> job'[v]] /\ job'[w] = k
      /\ \A v \in Workers \ {w} : job'[v] = job[v]
  BY <1>4 DEF Becomes, SInv, Shapes
<1>6. job[w].pc # "drop" BY <1>1 DEF Begin, Active, SInv, Shapes, Plain
<1>7. Shapes' BY <1>2, <1>3, <1>5 DEF SInv, Shapes, Refs
<1>8. Books'
  <2>1. \A i : Dropping(i) => Dropping(i)' BY <1>5, <1>6 DEF Dropping
  <2>2. \A i \in Rows : i <= lastId /\ accounts[i].ref <= lastRef + 1
    <3>1. \A i \in Rows : accounts[i].ref \in Nat
      BY DEF SInv, Shapes, Rows, Account, Refs
    <3> QED BY <1>2, <3>1 DEF SInv, Books
  <2> QED BY <1>2, <1>4, <2>1, <2>2 DEF SInv, Books, Rows
<1>9. RowsStayWithTheirUser' BY <1>2 DEF SInv, RowsStayWithTheirUser, Rows, Listed
<1>10. \A v \in Workers : Mine(job[v])'
  <2>1. ASSUME NEW v \in Workers \ {w} PROVE Mine(job[v])'
    BY <1>2, <1>5 DEF SInv, Mine, Belongs, Rows, Refs
  <2>2. Mine(job[w])'
    <3>1. \A i \in Rows : accounts[i].ref \in Nat /\ accounts[i].ref <= lastRef
      BY DEF SInv, Shapes, Books, Rows, Account, Refs
    <3>2. job'[w].pc = "user" /\ job'[w].user = u /\ job'[w].ref = r BY <1>3, <1>5
    <3> QED BY <1>2, <3>1, <3>2 DEF Mine, Pasting, Kept, Leaving, Owned, Rows
  <2> QED BY <2>1, <2>2
<1>11. \A x, v \in Workers : x # v => Apart(job[x], job[v])'
  <2>1. \A v \in Workers : job[v].pc \in Pasting => job[v].ref # r
    BY <1>2 DEF SInv, Mine, Refs
  <2>2. \A v \in Workers : job[v].pc \in Leaving => \A d \in job[v].todo : d[2] # r
    BY <1>2 DEF SInv, Mine, Refs
  <2>3. k.pc \in Pasting /\ k.pc \notin Leaving BY <1>3 DEF Pasting, Leaving
  <2> QED BY <1>3, <1>5, <2>1, <2>2, <2>3 DEF SInv, Apart
<1> QED BY <1>7, <1>8, <1>9, <1>10, <1>11 DEF SInv
-----------------------------------------------------------------------------
(* Steps after which the call relies on nothing.                           *)
LEMMA AfterSyncSafe ==
  ASSUME SInv, NEW w \in Workers, NEW ok, AfterSync(w, ok),
         job[w].pc \notin {"idle", "drop"},
         UNCHANGED <<tables, store, saved, lastRef>>, upset \subseteq upset'
  PROVE  SInv'
<1>1. job[w].op # "idle" BY DEF SInv, Shapes, Plain
<1> DEFINE op == job[w].op
           rest == [Call(op, "answer") EXCEPT !.live = job[w].live]
<1>2. ASSUME NEW c, c = rest PROVE Plain(c) /\ c.pc = "answer" /\ c.op = op
  <2>1. PICK d : d = Call(op, "answer") OBVIOUS
  <2>2. Plain(d) /\ d.pc = "answer" /\ d.op = op BY <1>1, <2>1, CallIs
  <2>3. c = [d EXCEPT !.live = job[w].live] BY <1>2, <2>1
  <2> QED BY <1>1, <2>2, <2>3 DEF Plain
<1>3. PICK k : /\ Becomes(w, k)
               /\ \/ k = [rest EXCEPT !.user = job[w].owner]
                  \/ k = [rest EXCEPT !.pc = "rows"]
                  \/ k = [rest EXCEPT !.ok = FALSE]
  BY DEF AfterSync
<1>4. Plain(k) /\ k.pc \in {"answer", "rows"}
  <2>1. PICK c : c = rest OBVIOUS
  <2>2. Plain(c) /\ c.pc = "answer" /\ c.op = op BY <1>2, <2>1
  <2>3. \/ k = [c EXCEPT !.user = job[w].owner]
        \/ k = [c EXCEPT !.pc = "rows"]
        \/ k = [c EXCEPT !.ok = FALSE]
    BY <1>3, <2>1
  <2> QED BY <1>1, <2>2, <2>3 DEF Plain
<1> QED BY <1>3, <1>4, LooseFree, LetGo DEF Loose

LEMMA FailsSafe ==
  ASSUME SInv, NEW w \in Workers, Fails(w), job[w].pc # "idle",
         job[w].pc = "drop" => "partial" \in upset',
         UNCHANGED <<tables, store, saved, lastRef>>, upset \subseteq upset'
  PROVE  SInv'
<1>1. PICK k : Becomes(w, k) /\ k = [job[w] EXCEPT !.pc = "answer", !.ok = FALSE]
  BY DEF Fails
<1>2. Plain(job[w]) BY DEF SInv, Shapes
<1>3. Plain(k) /\ k.pc \in Loose BY <1>1, <1>2 DEF Plain, Loose
<1> QED BY <1>1, <1>3, LooseFree, LetGo

LEMMA EndSafe ==
  ASSUME SInv, NEW w \in Workers,
         Becomes(w, Idle) \/ Becomes(w, Call("load", "first")),
         job[w].pc # "drop", UNCHANGED <<tables, store, saved, lastRef, upset>>
  PROVE  SInv'
BY IdlePlain, LooseFree, LetGo DEF Loose

LEMMA GotoSafe ==
  ASSUME SInv, NEW w \in Workers, NEW pc \in Loose, Goto(w, pc),
         job[w].pc \notin {"idle", "drop"},
         UNCHANGED <<tables, store, saved, lastRef, upset>>
  PROVE  SInv'
<1>1. PICK k : Becomes(w, k) /\ k = [job[w] EXCEPT !.pc = pc]
  BY DEF Goto
<1>2. Plain(job[w]) BY DEF SInv, Shapes
<1>3. Plain(k) /\ k.pc = pc BY <1>1, <1>2 DEF Plain
<1> QED BY <1>1, <1>3, LooseFree, LetGo

LEMMA LooseStepSafe ==
  ASSUME SInv, NEW w \in Workers,
         \/ SignInFails(w) \/ SignInRefused(w) \/ ClearCache(w) \/ SignOutFails(w)
         \/ SignedOut(w) \/ SyncDone(w) \/ SyncFails(w) \/ ListStep(w)
  PROVE  SInv'
<1> USE DEF tokens, At, Faulty, Halfway
<1>1. CASE SignInFails(w) BY <1>1, FailsSafe DEF SignInFails
<1>2. CASE SignInRefused(w) \/ SignedOut(w)
  BY <1>2, EndSafe DEF SignInRefused, SignedOut
<1>3. CASE ClearCache(w) BY <1>3, GotoSafe DEF ClearCache, Loose
<1>4. CASE SignOutFails(w) BY <1>4, FailsSafe DEF SignOutFails
<1>5. CASE SyncDone(w) BY <1>5, AfterSyncSafe DEF SyncDone
<1>6. CASE SyncFails(w)
  BY <1>6, AfterSyncSafe DEF SyncFails, Refused
<1>7. CASE ReadRows(w) \/ ReadSession(w)
  <2>1. ASSUME NEW pc \in Loose, NEW S, NEW u,
               \/ Becomes(w, [job[w] EXCEPT !.pc = pc, !.todo = S])
               \/ Becomes(w, [job[w] EXCEPT !.pc = pc, !.owner = u]),
               job[w].pc \notin {"idle", "drop"},
               UNCHANGED <<tables, store, saved, lastRef, upset>>
        PROVE  SInv'
    <3>1. PICK k : /\ Becomes(w, k)
                   /\ \/ k = [job[w] EXCEPT !.pc = pc, !.todo = S]
                      \/ k = [job[w] EXCEPT !.pc = pc, !.owner = u]
      BY <2>1
    <3>2. Plain(job[w]) BY DEF SInv, Shapes
    <3>3. Plain(k) /\ k.pc = pc BY <2>1, <3>1, <3>2 DEF Plain
    <3> QED BY <2>1, <3>1, <3>3, LooseFree, LetGo
  <2>2. CASE Fails(w) BY <1>7, <2>2, FailsSafe DEF ReadRows, ReadSession
  <2> QED BY <1>7, <2>1, <2>2 DEF ReadRows, ReadSession, Loose
<1>8. CASE See(w) BY <1>8, EndSafe, GotoSafe DEF See, Loose
<1>9. CASE Listing(w) BY <1>9, EndSafe DEF Listing
<1>10. CASE Booted(w) BY <1>10, EndSafe DEF Booted, Shows
<1> QED BY <1>1, <1>2, <1>3, <1>4, <1>5, <1>6, <1>7, <1>8, <1>9, <1>10 DEF ListStep
-----------------------------------------------------------------------------
(* Steps after which the call knows more, or goes on with what it knows.   *)
LEMMA KnowSafe ==
  ASSUME SInv, NEW w \in Workers,
         \/ GetUser(w) \/ FindAccount(w) \/ CacheToken(w) \/ CheckEmpty(w) \/ FindSession(w)
         \/ UseCached(w) \/ ReadToken(w) \/ KeepToken(w) \/ Fetch(w) \/ Look(w)
  PROVE  SInv'
<1> USE DEF tokens, At, Faulty, Halfway
<1> DEFINE j == job[w]
<1>1. Plain(j) /\ Mine(j) BY DEF SInv, Shapes
<1>2. ASSUME NEW k, Becomes(w, k), Plain(k), Mine(k),
             \/ k.pc \in Pasting /\ j.pc \in Pasting /\ k.ref = j.ref
             \/ k.pc \in Owned /\ j.pc # "drop",
             UNCHANGED <<tables, store, saved, lastRef>>, upset \subseteq upset'
      PROVE  SInv'
  <2>1. Moves(j, k) BY <1>2 DEF Moves, Pasting, Owned, Leaving
  <2> QED BY <1>2, <2>1, StepSafe
<1>3. CASE GetUser(w)
  <2>1. PICK k : Becomes(w, k) /\ k = [j EXCEPT !.pc = "store"] BY <1>3 DEF GetUser, Goto
  <2>2. Plain(k) /\ k.pc = "store" /\ k.user = j.user /\ k.ref = j.ref
    BY <1>1, <1>3, <2>1 DEF Plain, GetUser
  <2>3. Mine(k) BY <1>1, <1>3, <2>2 DEF Mine, GetUser, Pasting, Kept, Owned, Leaving
  <2> QED BY <1>2, <1>3, <2>1, <2>2, <2>3 DEF GetUser, Pasting
<1>4. CASE FindAccount(w)
  <2> DEFINE mine == {i \in Rows : accounts[i].user = j.user}
  <2>1. PICK t, k :
          /\ t \in Now /\ Becomes(w, k) /\ upset' = upset \cup Tie(t)
          /\ k = [j EXCEPT !.pc = "save", !.at = t,
                           !.id = IF mine = {} THEN 0 ELSE CHOOSE i \in mine : TRUE]
    BY <1>4 DEF FindAccount
  <2>2. PICK n : n = (IF mine = {} THEN 0 ELSE CHOOSE i \in mine : TRUE) OBVIOUS
  <2>3. n = 0 \/ n \in mine BY <2>2
  <2>4. k = [j EXCEPT !.pc = "save", !.at = t, !.id = n] BY <2>1, <2>2
  <2> HIDE DEF mine
  <2>5. /\ Plain(k) /\ k.pc = "save" /\ k.user = j.user /\ k.ref = j.ref
        /\ k.at = t /\ k.id = n
    BY <1>1, <1>4, <2>4 DEF Plain, FindAccount
  <2>6. n # 0 => Belongs(n, j.user)
    BY <2>3 DEF mine, Belongs, Rows, SInv, Books
  <2>7. t \in Ids BY <2>1 DEF Now
  <2>8. Mine(k)
    BY <1>1, <1>4, <2>5, <2>6, <2>7 DEF Mine, FindAccount, Pasting, Kept, Owned, Leaving
  <2> QED BY <1>2, <1>4, <2>1, <2>5, <2>8 DEF FindAccount, Pasting
<1>5. ASSUME j.pc \in Owned,
             UNCHANGED <<tables, store, saved, lastRef>>, upset \subseteq upset',
             NEW pc \in Owned, NEW k, Becomes(w, k), k.pc = pc, Plain(k),
             k.id = j.id, k.owner = j.owner
      PROVE  SInv'
  <2>1. Mine(k) BY <1>1, <1>5 DEF Mine, Pasting, Kept, Owned, Leaving
  <2> QED BY <1>2, <1>5, <2>1 DEF Owned
<1>6. CASE CacheToken(w) \/ KeepToken(w) \/ (CheckEmpty(w) /\ Goto(w, "fetch"))
  <2>1. PICK pc, k : /\ Becomes(w, k) /\ pc \in {"check", "fetch"}
                     /\ k = [j EXCEPT !.pc = pc]
    BY <1>6 DEF CacheToken, KeepToken, Goto
  <2>2. j.pc \in Owned /\ pc \in Owned
    BY <1>6, <2>1 DEF CacheToken, KeepToken, CheckEmpty, Owned
  <2>3. j.pc # "idle" /\ pc # "idle" BY <2>2 DEF Owned
  <2>4. Plain(k) /\ k.pc = pc /\ k.id = j.id /\ k.owner = j.owner
    BY <1>1, <2>1, <2>3 DEF Plain
  <2> QED BY <1>5, <1>6, <2>1, <2>2, <2>4 DEF CacheToken, KeepToken, CheckEmpty
<1>7. CASE CheckEmpty(w) /\ ~Goto(w, "fetch")
  <2>1. AfterSync(w, TRUE) /\ upset \subseteq upset' /\ j.pc = "check"
    BY <1>7 DEF CheckEmpty
  <2>2. UNCHANGED <<tables, store, saved, lastRef>> BY <1>7 DEF CheckEmpty
  <2> QED BY <2>1, <2>2, AfterSyncSafe
<1>8. CASE FindSession(w)
  <2>1. PICK i, k :
          /\ i \in Latest /\ Becomes(w, k)
          /\ k = [j EXCEPT !.pc = "token", !.id = i, !.owner = accounts[i].user,
                           !.ref = accounts[i].ref]
    BY <1>8 DEF FindSession
  <2>2. Plain(k) /\ k.pc = "token" /\ k.id = i /\ k.owner = accounts[i].user
    BY <1>1, <1>8, <2>1 DEF Plain, FindSession
  <2>3. Belongs(i, accounts[i].user) BY <2>1 DEF Belongs, Latest, Rows, SInv, Books
  <2>4. Mine(k) BY <2>2, <2>3 DEF Mine, Pasting, Kept, Owned, Leaving
  <2> QED BY <1>2, <1>8, <2>1, <2>2, <2>4 DEF FindSession, Owned
<1>9. CASE UseCached(w) \/ ReadToken(w)
  <2>1. PICK pc, u, k : /\ Becomes(w, k) /\ pc \in {"fetch", "keep"}
                        /\ k = [j EXCEPT !.pc = pc, !.user = u]
    BY <1>9 DEF UseCached, ReadToken
  <2>2. Plain(k) /\ k.pc = pc /\ k.id = j.id /\ k.owner = j.owner
    BY <1>1, <1>9, <2>1 DEF Plain, UseCached, ReadToken
  <2>3. j.pc \in Owned /\ pc \in Owned BY <1>9, <2>1 DEF UseCached, ReadToken, Owned
  <2> QED BY <1>5, <1>9, <2>1, <2>2, <2>3 DEF UseCached, ReadToken
<1>10. CASE Fetch(w)
  <2>1. PICK S, k : Becomes(w, k) /\ k = [j EXCEPT !.pc = "look", !.todo = S]
    BY <1>10 DEF Fetch
  <2>2. Plain(k) /\ k.pc = "look" /\ k.id = j.id /\ k.owner = j.owner
    BY <1>1, <1>10, <2>1 DEF Plain, Fetch
  <2> QED BY <1>5, <1>10, <2>1, <2>2 DEF Fetch, Owned
<1>11. CASE Look(w)
  <2>1. PICK g, pc, S, k : /\ Becomes(w, k) /\ pc \in {"insert", "update"}
                           /\ k = [j EXCEPT !.pc = pc, !.todo = S, !.repo = g]
    <3>1. PICK g \in job[w].todo :
            Becomes(w, [job[w] EXCEPT !.pc = IF repos[g] = None THEN "insert" ELSE "update",
                                      !.todo = @ \ {g}, !.repo = g])
      BY <1>11 DEF Look
    <3>2. PICK pc : pc = IF repos[g] = None THEN "insert" ELSE "update" OBVIOUS
    <3>3. pc \in {"insert", "update"} BY <3>2
    <3>4. PICK k : Becomes(w, k)
                   /\ k = [job[w] EXCEPT !.pc = IF repos[g] = None THEN "insert" ELSE "update",
                                         !.todo = @ \ {g}, !.repo = g]
      BY <3>1
    <3>5. PICK S : S = job[w].todo \ {g} OBVIOUS
    <3>6. k = [j EXCEPT !.pc = pc, !.todo = S, !.repo = g] BY <3>2, <3>4, <3>5
    <3> QED BY <3>3, <3>4, <3>6
  <2>2. Plain(k) /\ k.pc = pc /\ k.id = j.id /\ k.owner = j.owner
    BY <1>1, <1>11, <2>1 DEF Plain, Look
  <2>3. j.pc \in Owned /\ pc \in Owned BY <1>11, <2>1 DEF Look, Owned
  <2> QED BY <1>5, <1>11, <2>1, <2>2, <2>3 DEF Look
<1> QED BY <1>3, <1>4, <1>6, <1>7, <1>8, <1>9, <1>10, <1>11
-----------------------------------------------------------------------------
(* A token is stored, a row is written, a row or a token goes.             *)
LEMMA StoreSafe == ASSUME SInv, NEW w \in Workers, StoreToken(w) PROVE SInv'
<1> DEFINE j == job[w]
<1>1. Plain(j) /\ Mine(j) /\ j.pc = "store" BY DEF SInv, Shapes, StoreToken, At
<1>2. /\ UNCHANGED <<accounts, repos, lastId, lastRef>> /\ upset \subseteq upset'
      /\ store' = [store EXCEPT ![j.ref] = j.user] /\ saved' \in {saved, store'}
  BY DEF StoreToken, Keeps, tables, Faulty
<1>3. PICK k : Becomes(w, k) /\ k = [j EXCEPT !.pc = "find"] BY DEF StoreToken, Goto
<1>4. Plain(k) /\ k.pc = "find" /\ k.user = j.user /\ k.ref = j.ref
  BY <1>1, <1>3 DEF Plain
<1>5. job' = [v \in Workers |-> job'[v]] /\ job'[w] = k
      /\ \A v \in Workers \ {w} : job'[v] = job[v]
  BY <1>3 DEF Becomes, SInv, Shapes
<1>6. j.user \in Users /\ j.ref \in Refs /\ j.ref <= lastRef
      /\ \A i \in Rows : accounts[i].ref # j.ref
  BY <1>1 DEF Mine, Pasting
<1>7. store'[j.ref] = j.user /\ \A r \in Refs \ {j.ref} : store'[r] = store[r]
  BY <1>2, <1>6 DEF SInv, Shapes
<1>8. Shapes' BY <1>2, <1>4, <1>5 DEF SInv, Shapes
<1>9. Books'
  <2>1. \A i : Dropping(i) => Dropping(i)' BY <1>1, <1>5 DEF Dropping
  <2>2. \A i \in Rows : accounts[i].ref \in Refs \ {j.ref}
    BY <1>6 DEF SInv, Shapes, Rows, Account
  <2> QED BY <1>2, <1>7, <2>1, <2>2 DEF SInv, Books, Rows
<1>10. RowsStayWithTheirUser' BY <1>2 DEF SInv, RowsStayWithTheirUser, Rows, Listed
<1>11. \A v \in Workers : Mine(job[v])'
  <2>1. ASSUME NEW v \in Workers \ {w} PROVE Mine(job[v])'
    <3>1. job[v].pc \in Pasting => job[v].ref # j.ref
      BY <1>1 DEF SInv, Apart, Pasting
    <3>2. Kept \subseteq Pasting BY DEF Kept, Pasting
    <3>3. job[v].pc \in Pasting => job[v].ref \in Refs \ {j.ref}
      BY <3>1 DEF SInv, Mine
    <3> QED BY <1>2, <1>5, <1>7, <3>2, <3>3 DEF SInv, Mine, Belongs, Rows
  <2>2. Mine(job[w])'
    BY <1>2, <1>4, <1>5, <1>6, <1>7 DEF Mine, Pasting, Kept, Leaving, Owned, Rows
  <2> QED BY <2>1, <2>2
<1>12. \A x, v \in Workers : x # v => Apart(job[x], job[v])'
  BY <1>1, <1>4, <1>5 DEF SInv, Apart, Pasting, Leaving
<1> QED BY <1>8, <1>9, <1>10, <1>11, <1>12 DEF SInv

(* The sign-in has a row of its own user: the one it found, or a new one.  *)
LEMMA SavedSafe ==
  ASSUME SInv, NEW w \in Workers, UpdateAccount(w) \/ InsertAccount(w) PROVE SInv'
<1> DEFINE j == job[w]
           row == [user |-> j.user, ref |-> j.ref, at |-> j.at]
<1>1. Plain(j) /\ Mine(j) /\ j.pc = "save"
  BY DEF SInv, Shapes, UpdateAccount, InsertAccount, At
<1>2. /\ UNCHANGED <<repos, store, saved, lastRef, upset>>
      /\ lastId \in Nat /\ lastRef \in Nat
  BY DEF UpdateAccount, InsertAccount, tokens, SInv, Shapes
<1>3. j.user \in Users /\ j.ref \in Refs /\ j.ref <= lastRef /\ j.at \in Ids
      /\ \A i \in Rows : accounts[i].ref # j.ref
  BY <1>1 DEF Mine, Pasting
<1>4. row \in Account /\ row # None BY <1>3, NoAccount DEF Account
<1>5. PICK n : /\ n \in Ids /\ n <= lastId' /\ lastId <= lastId' /\ lastId' \in 0..MaxSignIns
               /\ accounts[n] = None \/ accounts[n].user = j.user
               /\ \/ /\ accounts' = [accounts EXCEPT ![n] = row]
                     /\ n <= lastId => accounts[n] # None
                  \/ accounts' = accounts /\ accounts[n] = None
               /\ Saved(w, n)
  <2>1. CASE UpdateAccount(w)
    <3>1. Belongs(j.id, j.user) BY <1>1, <2>1 DEF Mine, UpdateAccount
    <3>2. \/ accounts' = [accounts EXCEPT ![j.id] = row] /\ accounts[j.id] # None
          \/ accounts' = accounts /\ accounts[j.id] = None
      BY <2>1, <3>1 DEF UpdateAccount, Belongs, SInv, Shapes
    <3>3. lastId' = lastId /\ Saved(w, j.id) BY <2>1 DEF UpdateAccount
    <3> QED BY <3>1, <3>2, <3>3 DEF Belongs, SInv, Shapes
  <2>2. CASE InsertAccount(w)
    <3>1. lastId + 1 \in Ids /\ lastId + 1 \in 0..MaxSignIns
      BY <2>2, SessionAssumption DEF InsertAccount, SInv, Shapes, Ids
    <3>2. accounts[lastId + 1] = None
      BY <1>2, <3>1 DEF SInv, Books, Rows
    <3>3. PICK n : n = lastId + 1 OBVIOUS
    <3>4. lastId' = n /\ Saved(w, n) /\ accounts' = [accounts EXCEPT ![n] = row]
      BY <2>2, <3>3 DEF InsertAccount, NewId
    <3>5. n \in Ids /\ n \in 0..MaxSignIns /\ n <= n /\ lastId <= n /\ ~(n <= lastId)
      BY <1>2, <3>1, <3>3
    <3> HIDE DEF row
    <3> QED BY <3>2, <3>3, <3>4, <3>5
  <2> QED BY <2>1, <2>2
<1>6. PICK k : /\ Becomes(w, k)
               /\ k = [Call("signin", "cache") EXCEPT !.user = j.user, !.id = n,
                                                      !.owner = j.user]
  BY <1>5 DEF Saved
<1>7. Plain(k) /\ k.pc = "cache" /\ k.id = n /\ k.owner = j.user
  <2>1. PICK c : c = Call("signin", "cache") OBVIOUS
  <2>2. Plain(c) /\ c.pc = "cache" /\ c.op = "signin" BY <2>1, CallIs
  <2> QED BY <1>6, <2>1, <2>2 DEF Plain
<1>8. job' = [v \in Workers |-> job'[v]] /\ job'[w] = k
      /\ \A v \in Workers \ {w} : job'[v] = job[v]
  BY <1>6 DEF Becomes, SInv, Shapes
<1> HIDE DEF row
<1>9. row.user = j.user /\ row.ref = j.ref BY DEF row
<1>10. /\ accounts' \in [Ids -> Account \cup {None}]
       /\ \A i \in Ids \ {n} : accounts'[i] = accounts[i]
       /\ accounts'[n] = row \/ (accounts'[n] = None /\ accounts[n] = None)
       /\ Rows' \subseteq Rows \cup {n} /\ Rows \subseteq Rows'
  BY <1>4, <1>5 DEF SInv, Shapes, Rows
<1>11. Shapes' BY <1>2, <1>5, <1>7, <1>8, <1>10 DEF SInv, Shapes
<1>12. Books'
  <2>1. \A i : Dropping(i) => Dropping(i)' BY <1>1, <1>8 DEF Dropping
  <2>2. store[j.ref] = j.user BY <1>1 DEF Mine, Kept
  <2>3. \A i \in Rows' : i <= lastId' /\ accounts'[i].ref <= lastRef
    <3>1. \A i \in Rows : i \in Nat /\ i <= lastId /\ accounts[i].ref <= lastRef
      BY DEF SInv, Books, Rows, Ids
    <3> QED BY <1>2, <1>3, <1>5, <1>9, <1>10, <3>1 DEF Rows
  <2>4. \A i, m \in Rows' : accounts'[i].ref = accounts'[m].ref => i = m
    BY <1>3, <1>9, <1>10 DEF SInv, Books, Rows
  <2>5. "partial" \notin upset' =>
          \A i \in Rows' : store'[accounts'[i].ref] = accounts'[i].user \/ Dropping(i)'
    BY <1>2, <1>9, <1>10, <2>1, <2>2 DEF SInv, Books, Rows
  <2> QED BY <1>2, <2>3, <2>4, <2>5 DEF Books
<1>13. RowsStayWithTheirUser'
  BY <1>2, <1>5, <1>9, <1>10 DEF SInv, RowsStayWithTheirUser, Rows, Listed
<1>14. ASSUME NEW i, NEW u, Belongs(i, u) PROVE Belongs(i, u)'
  <2>1. i \in Ids /\ i \in Nat /\ i <= lastId /\ lastId' \in Nat /\ i <= lastId'
    BY <1>2, <1>5, <1>14 DEF Belongs, Ids
  <2>2. accounts[i] = None \/ accounts[i].user = u BY <1>14 DEF Belongs
  <2>3. accounts'[i] = None \/ accounts'[i].user = u
    BY <1>5, <1>9, <1>10, <2>1, <2>2
  <2> QED BY <2>1, <2>3 DEF Belongs
<1>15. \A v \in Workers : Mine(job[v])'
  <2>1. ASSUME NEW v \in Workers \ {w} PROVE Mine(job[v])'
    <3>1. Mine(job[v]) /\ job'[v] = job[v] BY <1>8 DEF SInv
    <3>2. job[v].pc \in Pasting => job[v].ref # j.ref
      BY <1>1 DEF SInv, Apart, Pasting
    <3>3. job[v].pc \in Leaving => \A d \in job[v].todo : d[2] # j.ref
      BY <1>1 DEF SInv, Apart, Pasting
    <3>4. \A i \in Rows' : (i \in Rows /\ accounts'[i].ref = accounts[i].ref)
                             \/ accounts'[i].ref = j.ref
      BY <1>9, <1>10 DEF Rows
    <3>5. job[v].pc \in Leaving =>
            \A d \in job[v].todo : \E m \in Ids, r \in Refs :
              /\ d = <<m, r>> /\ r <= lastRef
              /\ \A i \in Rows' : accounts'[i].ref = r => i = m
      BY <3>1, <3>3, <3>4 DEF Mine
    <3> QED BY <1>2, <1>14, <3>1, <3>2, <3>4, <3>5 DEF Mine
  <2>2. ASSUME NEW u, u = j.user PROVE Belongs(n, u)'
    BY <1>5, <1>9, <1>10, <2>2 DEF Belongs
  <2>3. PICK u : u = j.user OBVIOUS
  <2>4. Belongs(n, u)' /\ job'[w].pc = "cache" /\ job'[w].id = n /\ job'[w].owner = u
    BY <1>7, <1>8, <2>2, <2>3
  <2>5. Mine(job[w])'
    BY <2>4 DEF Mine, Pasting, Kept, Leaving, Owned
  <2> QED BY <2>1, <2>5
<1>16. \A x, v \in Workers : x # v => Apart(job[x], job[v])'
  BY <1>7, <1>8 DEF SInv, Apart, Pasting, Leaving
<1> QED BY <1>11, <1>12, <1>13, <1>15, <1>16 DEF SInv

(* A call that leaves the tables and the store alone, and learns something *)
(* that concerns other calls.                                              *)
LEMMA AloneSafe ==
  ASSUME SInv, NEW w \in Workers, NEW k, Becomes(w, k), Plain(k), Mine(k),
         job[w].pc # "drop",
         \A v \in Workers \ {w} : Apart(k, job[v]) /\ Apart(job[v], k),
         UNCHANGED <<tables, store, saved, lastRef>>, upset \subseteq upset'
  PROVE  SInv'
<1>0. UNCHANGED <<accounts, repos, lastId, store, saved, lastRef>> BY DEF tables
<1>1. job' = [v \in Workers |-> job'[v]] /\ job'[w] = k
      /\ \A v \in Workers \ {w} : job'[v] = job[v]
  BY DEF Becomes, SInv, Shapes
<1>2. Shapes' BY <1>0, <1>1 DEF SInv, Shapes
<1>3. Books'
  <2>1. \A i : Dropping(i) => Dropping(i)' BY <1>1 DEF Dropping
  <2> QED BY <1>0, <2>1 DEF SInv, Books, Rows
<1>4. RowsStayWithTheirUser' BY <1>0 DEF SInv, RowsStayWithTheirUser, Rows, Listed
<1>5. \A v \in Workers : Mine(job[v])'
  <2>1. \A v \in Workers : Mine(job'[v]) BY <1>1 DEF SInv
  <2> QED BY <1>0, <2>1 DEF Mine, Belongs, Rows
<1>6. \A x, v \in Workers : x # v => Apart(job[x], job[v])'
  BY <1>1 DEF SInv, Apart
<1> QED BY <1>2, <1>3, <1>4, <1>5, <1>6 DEF SInv

LEMMA ListSafe == ASSUME SInv, NEW w \in Workers, ListAccounts(w) PROVE SInv'
<1> USE DEF tokens, Halfway
<1>1. CASE Fails(w) BY <1>1, FailsSafe DEF ListAccounts, At
<1>2. CASE ~Fails(w)
  <2> DEFINE j == job[w]
             S == {<<i, accounts[i].ref>> : i \in Rows}
  <2>1. PICK k : Becomes(w, k) /\ k = [j EXCEPT !.pc = "wipe", !.todo = S]
    BY <1>2 DEF ListAccounts
  <2>2. Plain(j) /\ j.pc = "list" BY DEF SInv, Shapes, ListAccounts, At
  <2>3. Plain(k) /\ k.pc = "wipe" /\ k.todo = S
    <3> HIDE DEF S
    <3> QED BY <2>1, <2>2 DEF Plain
  <2>4. \A i \in Rows : accounts[i].ref \in Refs
    BY DEF SInv, Shapes, Rows, Account
  <2>5. \A d \in k.todo : \E i \in Ids, r \in Refs :
          /\ d = <<i, r>> /\ r <= lastRef
          /\ \A m \in Rows : accounts[m].ref = r => m = i
    <3> SUFFICES ASSUME NEW i \in Rows
                 PROVE  \E n \in Ids, r \in Refs :
                          /\ <<i, accounts[i].ref>> = <<n, r>> /\ r <= lastRef
                          /\ \A m \in Rows : accounts[m].ref = r => m = n
      BY <2>3
    <3> QED BY <2>4 DEF SInv, Books, Rows
  <2>6. Mine(k) BY <2>3, <2>5 DEF Mine, Pasting, Kept, Leaving, Owned
  <2>7. \A v \in Workers \ {w} : Apart(k, job[v]) /\ Apart(job[v], k)
    <3> TAKE v \in Workers \ {w}
    <3>1. job[v].pc \in Pasting => \A i \in Rows : accounts[i].ref # job[v].ref
      BY DEF SInv, Mine
    <3> QED BY <2>3, <3>1 DEF Apart, Pasting, Leaving
  <2>8. UNCHANGED <<tables, store, saved, lastRef, upset>> BY <1>2 DEF ListAccounts
  <2> QED BY <2>1, <2>2, <2>3, <2>6, <2>7, <2>8, AloneSafe
<1> QED BY <1>1, <1>2

(* The token taken is the token of the row about to go, and of no other.   *)
LEMMA WipeSafe == ASSUME SInv, NEW w \in Workers, WipeToken(w) PROVE SInv'
<1> DEFINE j == job[w]
<1>1. Plain(j) /\ Mine(j) /\ j.pc = "wipe" BY DEF SInv, Shapes, WipeToken, At
<1>2. PICK d \in j.todo :
        /\ Becomes(w, [job[w] EXCEPT !.pc = "drop", !.id = d[1], !.todo = @ \ {d}])
        /\ \/ Keeps([store EXCEPT ![d[2]] = None])
           \/ Fault("delete") /\ Halfway /\ UNCHANGED <<store, saved>>
  BY DEF WipeToken
<1>3. PICK i \in Ids, r \in Refs :
        /\ d = <<i, r>> /\ r <= lastRef
        /\ \A m \in Rows : accounts[m].ref = r => m = i
  BY <1>1 DEF Mine, Leaving
<1>4. /\ UNCHANGED <<accounts, repos, lastId, lastRef>> /\ upset \subseteq upset'
      /\ store' \in {store, [store EXCEPT ![r] = None]} /\ saved' \in {saved, store'}
  BY <1>2, <1>3 DEF WipeToken, Keeps, tables, Faulty, Halfway
<1>6. PICK S, k : /\ Becomes(w, k) /\ S = j.todo \ {d}
                  /\ k = [j EXCEPT !.pc = "drop", !.id = i, !.todo = S]
  BY <1>2, <1>3
<1>7. Plain(k) /\ k.pc = "drop" /\ k.id = i /\ k.todo = S BY <1>1, <1>6 DEF Plain
<1>8. job' = [v \in Workers |-> job'[v]] /\ job'[w] = k
      /\ \A v \in Workers \ {w} : job'[v] = job[v]
  BY <1>6 DEF Becomes, SInv, Shapes
<1>9. \A x \in Refs \ {r} : store'[x] = store[x] BY <1>4 DEF SInv, Shapes
<1>10. Shapes' BY <1>4, <1>7, <1>8 DEF SInv, Shapes
<1>11. Books'
  <2>1. \A m : Dropping(m) => Dropping(m)' BY <1>1, <1>8 DEF Dropping
  <2>2. Dropping(i)' BY <1>7, <1>8 DEF Dropping
  <2>3. \A m \in Rows : accounts[m].ref \in Refs
    BY DEF SInv, Shapes, Rows, Account
  <2> QED BY <1>3, <1>4, <1>9, <2>1, <2>2, <2>3 DEF SInv, Books, Rows
<1>12. RowsStayWithTheirUser' BY <1>4 DEF SInv, RowsStayWithTheirUser, Rows, Listed
<1>13. \A v \in Workers : Mine(job[v])'
  <2>1. ASSUME NEW v \in Workers \ {w} PROVE Mine(job[v])'
    <3>1. job[v].pc \in Pasting => job[v].ref # r
      BY <1>1, <1>3 DEF SInv, Apart, Leaving
    <3>2. Kept \subseteq Pasting BY DEF Kept, Pasting
    <3>3. job[v].pc \in Pasting => job[v].ref \in Refs \ {r} BY <3>1 DEF SInv, Mine
    <3> QED BY <1>4, <1>8, <1>9, <3>2, <3>3 DEF SInv, Mine, Belongs, Rows
  <2>2. Mine(job[w])'
    <3>1. \A e \in k.todo : e \in j.todo BY <1>6, <1>7
    <3>2. \A e \in k.todo : \E n \in Ids, x \in Refs :
            /\ e = <<n, x>> /\ x <= lastRef
            /\ \A m \in Rows : accounts[m].ref = x => m = n
      BY <1>1, <3>1 DEF Mine, Leaving
    <3>3. k.pc \notin Pasting \cup Kept \cup Owned /\ k.pc # "save"
      BY <1>7 DEF Pasting, Kept, Owned
    <3> QED BY <1>4, <1>7, <1>8, <3>2, <3>3 DEF Mine, Rows
  <2> QED BY <2>1, <2>2
<1>14. \A x, v \in Workers : x # v => Apart(job[x], job[v])'
  <2>1. \A e \in k.todo : e \in j.todo BY <1>6, <1>7
  <2> QED BY <1>1, <1>7, <1>8, <2>1 DEF SInv, Apart, Pasting, Leaving
<1> QED BY <1>10, <1>11, <1>12, <1>13, <1>14 DEF SInv

(* The row goes, and the rows that refer to it with it.                    *)
LEMMA DropSafe == ASSUME SInv, NEW w \in Workers, DropAccount(w) PROVE SInv'
<1> DEFINE j == job[w]
           n == j.id
<1>1. Plain(j) /\ Mine(j) /\ j.pc = "drop" BY DEF SInv, Shapes, DropAccount, At
<1>2. UNCHANGED <<lastId, store, saved, lastRef, upset>> BY DEF DropAccount, tokens
<1>3. PICK k : Becomes(w, k) /\ k = [j EXCEPT !.pc = "wipe"] BY DEF DropAccount, Goto
<1>4. Plain(k) /\ k.pc = "wipe" /\ k.todo = j.todo BY <1>1, <1>3 DEF Plain
<1>5. job' = [v \in Workers |-> job'[v]] /\ job'[w] = k
      /\ \A v \in Workers \ {w} : job'[v] = job[v]
  BY <1>3 DEF Becomes, SInv, Shapes
<1>6. /\ accounts' \in [Ids -> Account \cup {None}]
      /\ \A i \in Ids : accounts'[i] = None \/ (accounts'[i] = accounts[i] /\ i # n)
      /\ \A i \in Ids \ {n} : accounts'[i] = accounts[i]
  BY DEF DropAccount, SInv, Shapes
<1>7. \A i \in Rows' : i \in Rows /\ i # n /\ accounts'[i] = accounts[i]
  BY <1>6 DEF Rows
<1>8. Shapes' BY <1>2, <1>4, <1>5, <1>6 DEF SInv, Shapes, DropAccount
<1>9. Books'
  <2>1. \A i : Dropping(i) /\ i # n => Dropping(i)' BY <1>5 DEF Dropping
  <2> QED BY <1>2, <1>7, <2>1 DEF SInv, Books
<1>10. RowsStayWithTheirUser'
  <2>1. \A g \in Listed' : g \in Listed /\ repos'[g] = repos[g] /\ repos[g].acct # n
    BY DEF Listed, DropAccount
  <2> QED BY <1>6, <2>1 DEF SInv, RowsStayWithTheirUser, Rows
<1>11. ASSUME NEW i, NEW u, Belongs(i, u) PROVE Belongs(i, u)'
  BY <1>2, <1>6, <1>11 DEF Belongs
<1>12. \A v \in Workers : Mine(job[v])'
  <2>1. ASSUME NEW v \in Workers \ {w} PROVE Mine(job[v])'
    BY <1>2, <1>5, <1>7, <1>11, <2>1 DEF SInv, Mine
  <2>2. Mine(job[w])'
    <3>1. k.pc \notin Pasting \cup Kept \cup Owned /\ k.pc # "save" /\ k.pc # "drop"
      BY <1>4 DEF Pasting, Kept, Owned
    <3>2. \A e \in k.todo : \E m \in Ids, x \in Refs :
            /\ e = <<m, x>> /\ x <= lastRef
            /\ \A i \in Rows : accounts[i].ref = x => i = m
      BY <1>1, <1>4 DEF Mine, Leaving
    <3> QED BY <1>2, <1>5, <1>7, <3>1, <3>2 DEF Mine
  <2> QED BY <2>1, <2>2
<1>13. \A x, v \in Workers : x # v => Apart(job[x], job[v])'
  BY <1>1, <1>4, <1>5 DEF SInv, Apart, Pasting, Leaving
<1> QED BY <1>8, <1>9, <1>10, <1>12, <1>13 DEF SInv

(* A repository is written for an account that is still there, which is    *)
(* then still that of the user the sync began for.                         *)
LEMMA WriteSafe ==
  ASSUME SInv, NEW w \in Workers, Insert(w) \/ Update(w) PROVE SInv'
<1> DEFINE j == job[w]
<1>1. Plain(j) /\ Mine(j) /\ j.pc \in {"insert", "update"}
  BY DEF SInv, Shapes, Insert, Update
<1>2. UNCHANGED <<accounts, lastId, store, saved, lastRef, upset>>
  BY DEF Insert, Update, tokens
<1>3. PICK k : Becomes(w, k) /\ k = [j EXCEPT !.pc = "look", !.repo = None]
  BY DEF Insert, Update
<1>4. Plain(k) /\ k.pc = "look" /\ k.id = j.id /\ k.owner = j.owner
  BY <1>1, <1>3 DEF Plain
<1>5. job' = [v \in Workers |-> job'[v]] /\ job'[w] = k
      /\ \A v \in Workers \ {w} : job'[v] = job[v]
  BY <1>3 DEF Becomes, SInv, Shapes
<1>6. Belongs(j.id, j.owner) BY <1>1 DEF Mine, Owned
<1>7. /\ repos' = [g \in Repos |-> repos'[g]]
      /\ \A g \in Repos : \/ repos'[g] = repos[g]
                          \/ repos'[g] = Row(w) /\ accounts[j.id] # None
  BY DEF Insert, Update, SInv, Shapes
<1>8. Shapes' BY <1>2, <1>4, <1>5, <1>7 DEF SInv, Shapes
<1>9. Books'
  <2>1. \A i : Dropping(i) => Dropping(i)' BY <1>1, <1>5 DEF Dropping
  <2> QED BY <1>2, <2>1 DEF SInv, Books, Rows
<1>10. RowsStayWithTheirUser'
  <2>1. ASSUME NEW g \in Repos, repos'[g] # None
        PROVE  repos'[g].acct \in Rows /\ accounts[repos'[g].acct].user = repos'[g].owner
    <3>1. CASE repos'[g] = repos[g]
      BY <2>1, <3>1 DEF SInv, RowsStayWithTheirUser, Listed
    <3>2. CASE repos'[g] = Row(w) /\ accounts[j.id] # None
      BY <1>6, <3>2 DEF Belongs, Row, Rows
    <3> QED BY <1>7, <3>1, <3>2
  <2> QED BY <1>2, <2>1 DEF RowsStayWithTheirUser, Rows, Listed
<1>11. \A v \in Workers : Mine(job[v])'
  <2>1. Mine(k) BY <1>4, <1>6 DEF Mine, Pasting, Kept, Leaving, Owned
  <2>2. \A v \in Workers : Mine(job'[v]) BY <1>5, <2>1 DEF SInv
  <2> QED BY <1>2, <2>2 DEF Mine, Belongs, Rows
<1>12. \A x, v \in Workers : x # v => Apart(job[x], job[v])'
  BY <1>4, <1>5 DEF SInv, Apart, Pasting, Leaving
<1> QED BY <1>8, <1>9, <1>10, <1>11, <1>12 DEF SInv
-----------------------------------------------------------------------------
(* The window starts anew, and the process does.                           *)
LEMMA SignedInSafe == ASSUME SInv, NEW w \in Workers, SignedIn(w) PROVE SInv'
<1>1. job[w].pc = "answer" /\ UNCHANGED <<tables, store, saved, lastRef, upset>>
  BY DEF SignedIn, At, tokens
<1>2. PICK c : /\ c = Idle \/ c = Call("load", "first")
               /\ job' = [Unmounted EXCEPT ![w] = c]
  BY DEF SignedIn
<1>3. Plain(c) /\ c.pc \in Loose BY <1>2, IdlePlain DEF Loose
<1>4. job' = [v \in Workers |-> job'[v]] /\ job'[w] = c
  BY <1>2 DEF Unmounted
<1>5. Moves(job[w], c) BY <1>1, <1>3, LooseFree DEF Moves, Mine, Pasting, Kept, Leaving
<1>6. ASSUME NEW v \in Workers \ {w} PROVE Plain(job'[v]) /\ Stays(job[v], job'[v])
  <2>1. Plain(job[v]) BY DEF SInv, Shapes
  <2>2. job'[v] = [job[v] EXCEPT !.live = FALSE] \/ job'[v] = job[v]
    BY <1>2 DEF Unmounted
  <2>3. CASE job'[v] = [job[v] EXCEPT !.live = FALSE] BY <2>1, <2>3 DEF Plain, Stays
  <2> QED BY <2>1, <2>2, <2>3 DEF Stays
<1>7. saved' = [r \in Refs |-> saved'[r]] BY <1>1 DEF SInv, Shapes
<1> QED BY <1>1, <1>3, <1>4, <1>5, <1>6, <1>7, MovingSafe

LEMMA RestartSafe == ASSUME SInv, Restart PROVE SInv'
<1>1. /\ UNCHANGED <<accounts, repos, lastId, saved, lastRef>> /\ store' = saved
      /\ upset \subseteq upset'
      /\ "partial" \notin upset' => Quiet /\ saved = store
  BY DEF Restart, tables, Faulty, Halfway
<1>2. PICK w \in Workers :
        job' = [v \in Workers |-> IF v = w THEN Call("boot", "session") ELSE Idle]
  BY DEF Restart
<1>3. \A v \in Workers : Plain(job'[v]) /\ job'[v].pc \in Loose
  BY <1>2, IdlePlain DEF Loose
<1>4. Shapes' BY <1>1, <1>2, <1>3 DEF SInv, Shapes
<1>5. Books'
  <2>1. Quiet => \A i : ~Dropping(i)
    BY DEF Quiet, Active, Dropping, SInv, Shapes, Plain
  <2> QED BY <1>1, <2>1 DEF SInv, Books, Rows
<1>6. RowsStayWithTheirUser' BY <1>1 DEF SInv, RowsStayWithTheirUser, Rows, Listed
<1>7. \A v \in Workers : Mine(job[v])'
  BY <1>3 DEF Mine, Loose, Pasting, Kept, Leaving, Owned
<1>8. \A x, v \in Workers : x # v => Apart(job[x], job[v])'
  BY <1>3 DEF Apart, Loose, Pasting
<1> QED BY <1>4, <1>5, <1>6, <1>7, <1>8 DEF SInv
-----------------------------------------------------------------------------
LEMMA InitSafe == Init => SInv
<1> SUFFICES ASSUME Init PROVE SInv OBVIOUS
<1>1. PICK w \in Workers :
        job = [v \in Workers |-> IF v = w THEN Call("boot", "session") ELSE Idle]
  BY DEF Init
<1>2. \A v \in Workers : Plain(job[v]) /\ job[v].pc \in Loose
  BY <1>1, IdlePlain DEF Loose
<1>3. Shapes BY <1>1, <1>2, SessionAssumption DEF Init, Shapes
<1>4. Rows = {} /\ Listed = {} BY DEF Init, Rows, Listed
<1>5. Books /\ RowsStayWithTheirUser BY <1>4 DEF Books, RowsStayWithTheirUser
<1>6. \A v \in Workers : Mine(job[v])
  BY <1>2 DEF Mine, Loose, Pasting, Kept, Leaving, Owned
<1>7. \A x, v \in Workers : x # v => Apart(job[x], job[v])
  BY <1>2 DEF Apart, Loose, Pasting
<1> QED BY <1>3, <1>5, <1>6, <1>7 DEF SInv

LEMMA NextSafe == ASSUME SInv, [Next]_vars PROVE SInv'
<1>1. CASE UNCHANGED vars BY <1>1, SameSafe DEF vars
<1>2. CASE OpenSignIn \/ LeaveRepos
  <2>1. job' = Unmounted /\ UNCHANGED <<tables, tokens, upset>>
    BY <1>2 DEF OpenSignIn, LeaveRepos
  <2> QED BY <2>1, UnmountSafe
<1>3. CASE Restart BY <1>3, RestartSafe
<1>4. ASSUME NEW w \in Workers,
             \/ CancelSignIn(w) \/ ReturnToRepos(w) \/ SubmitToken(w)
             \/ ClickSignOut(w) \/ ClickSync(w) \/ Step(w)
      PROVE  SInv'
  <2>1. CASE CancelSignIn(w) \/ ReturnToRepos(w) \/ ClickSignOut(w) \/ ClickSync(w)
    BY <2>1, WindowSafe
  <2>2. CASE SubmitToken(w) BY <2>2, SubmitSafe
  <2>3. CASE SignInStep(w)
    BY <2>3, StoreSafe, SavedSafe, KnowSafe, LooseStepSafe, SignedInSafe DEF SignInStep
  <2>4. CASE SignOutStep(w)
    BY <2>4, ListSafe, WipeSafe, DropSafe, LooseStepSafe DEF SignOutStep
  <2>5. CASE SyncStep(w)
    BY <2>5, KnowSafe, WriteSafe, LooseStepSafe DEF SyncStep
  <2>6. CASE ListStep(w) BY <2>6, LooseStepSafe
  <2> QED BY <1>4, <2>1, <2>2, <2>3, <2>4, <2>5, <2>6 DEF Step
<1> QED BY <1>1, <1>2, <1>3, <1>4 DEF Next

LEMMA Invariant == Spec => []SInv
BY InitSafe, NextSafe, PTL DEF Spec

(* However sign-ins, sign-outs and syncs of any number of users overlap,   *)
(* fail or are cut short by a crash, sync_repositories leaves no row in    *)
(* the list that belongs to an account deleted since or to an account of   *)
(* another user than the one it was written for.                           *)
THEOREM RowsKeepTheirUser == Spec => []RowsStayWithTheirUser
<1>1. SInv => RowsStayWithTheirUser BY DEF SInv
<1> QED BY <1>1, Invariant, PTL

(* With no call in flight and nothing that failed behind a completed step, *)
(* every account's row refers to a token of its user in the credential     *)
(* store: no sign-out takes the token a concurrent sign-in has stored.     *)
THEOREM TokensAreThere == Spec => []TokenIsThere
<1>1. SInv => TokenIsThere
  <2>1. ASSUME SInv, Quiet, NEW i PROVE ~Dropping(i)
    BY <2>1 DEF Quiet, Active, Dropping, SInv, Shapes, Plain
  <2> QED BY <2>1 DEF TokenIsThere, SInv, Books
<1> QED BY <1>1, Invariant, PTL
-----------------------------------------------------------------------------
(* Calls made one after the other.  Unless two calls overlapped or one was *)
(* left half done, what the single call in flight has read is still so,    *)
(* and between calls the window shows the session of the database.         *)
Orderly == upset \subseteq {"fault"}

InView == screen = "main" /\ section = "repos"

CacheFits == cache # None => \E i \in Latest : accounts[i].user = cache

(* What holds at every step.                                               *)
InOrder ==
  /\ \A i, k \in Rows : accounts[i].at = accounts[k].at => i = k
  /\ \A i \in Rows : accounts[i].at <= lastRef
  /\ \A g \in Listed : repos[g].via = repos[g].owner
  /\ account = None \/ ~InView => shown = {}

(* Between calls.                                                          *)
Rests == /\ account \in CurrentUser /\ CacheFits
         /\ InView /\ account # None => shown = Listed

Before == {"user", "store", "find", "save"}   \* a sign-in before it changes the row
Working == {"fetch", "look", "insert", "update"}

BootFits(j) ==
  /\ j.pc \in {"session", "answer"} /\ account = None /\ CacheFits
  /\ j.pc = "answer" => j.owner \in CurrentUser

SignInFits(j) ==
  /\ j.pc \in Before \cup {"cache", "check", "answer"} \cup Working
  /\ InView => account = None
  /\ j.pc \in Before \/ (j.pc = "answer" /\ ~j.ok) => account \in CurrentUser
  /\ j.pc # "cache" => CacheFits
  /\ j.pc \in {"user", "store", "find"} => \A i \in Rows : accounts[i].at < lastRef
  /\ j.pc = "save" => /\ j.at <= lastRef /\ \A i \in Rows : accounts[i].at < j.at
                      /\ j.id # 0 => j.id \in Rows
  /\ j.pc \in {"cache", "check"} \cup Working =>
       j.id \in Latest /\ accounts[j.id].user = j.owner /\ j.user = j.owner
  /\ j.pc = "answer" /\ j.ok => \E i \in Latest : accounts[i].user = j.user

SignOutFits(j) ==
  /\ j.pc \in {"list", "wipe", "drop", "answer"}
  /\ j.pc = "wipe" => \A i \in Rows : \E d \in j.todo : d[1] = i
  /\ j.pc = "drop" => \A i \in Rows : i = j.id \/ \E d \in j.todo : d[1] = i
  /\ j.pc = "answer" => Rows = {} /\ cache = None

(* A load, or a sync that was asked for.                                   *)
ListFits(j) ==
  /\ \/ j.pc \in {"account", "token", "keep", "rows", "answer"} \cup Working
     \/ j.op = "load" /\ j.pc \in {"first", "see"}
  /\ account \in CurrentUser /\ account # None /\ CacheFits
  /\ j.live <=> InView
  /\ j.op = "load" => shown = {}
  /\ j.op = "load" /\ j.pc \in {"account", "token", "keep", "fetch"} => Listed = {}
  /\ j.pc \in {"token", "keep"} \cup Working => j.id \in Latest /\ accounts[j.id].user = j.owner
  /\ j.pc = "token" => j.ref = accounts[j.id].ref
  /\ j.pc \in {"keep"} \cup Working => j.user = j.owner
  /\ j.pc = "see" => j.todo = Listed
  /\ j.pc = "answer" /\ j.ok => j.todo = Listed
  /\ j.pc = "answer" /\ ~j.ok => j.op = "load" /\ Listed = {}

Fits(j) ==
  /\ j.op \in {"idle", "boot", "signin", "signout", "load", "sync"}
  /\ j.op = "boot" => BootFits(j)
  /\ j.op = "signin" => SignInFits(j)
  /\ j.op = "signout" => SignOutFits(j)
  /\ j.op \in {"load", "sync"} => ListFits(j)
  /\ j.pc # "save" => j.at = 0
  /\ j.pc # "answer" => j.ok

Turns ==
  Orderly =>
    /\ InOrder
    /\ \A v, w \in Workers : Active(v) /\ Active(w) => v = w
    /\ \A w \in Workers : Fits(job[w])
    /\ Quiet => Rests
-----------------------------------------------------------------------------
(* The call in flight is alone.                                            *)
Alone(w) == \A v \in Workers \ {w} : ~Active(v) /\ job[v].at = 0 /\ job[v].ok

LEMMA Resting ==
  ASSUME SInv, Turns, Orderly
  PROVE  \A v \in Workers : ~Active(v) => job[v].at = 0 /\ job[v].ok
<1> TAKE v \in Workers
<1>1. Fits(job[v]) /\ Plain(job[v]) BY DEF Turns, SInv, Shapes
<1> QED BY <1>1 DEF Fits, Active, Plain

LEMMA TurnTaken ==
  ASSUME SInv, Turns, Orderly', upset \subseteq upset', NEW w \in Workers, Active(w)
  PROVE  Orderly /\ Alone(w) /\ InOrder /\ Fits(job[w])
<1>1. Orderly BY DEF Orderly
<1>2. \A v \in Workers : Active(v) => v = w BY <1>1 DEF Turns
<1> QED BY <1>1, <1>2, Resting DEF Turns, Alone

LEMMA TurnStarts ==
  ASSUME SInv, Turns, Orderly', NEW w \in Workers, NEW c, Begin(w, c)
  PROVE  Orderly /\ Alone(w) /\ InOrder /\ Rests /\ Becomes(w, c)
<1>1. Orderly BY DEF Orderly, Begin
<1>2. \A v \in Workers : ~Active(v) BY DEF Orderly, Begin, Overlap
<1> QED BY <1>1, <1>2, Resting DEF Turns, Alone, Quiet, Begin

(* A step of the call that is alone.                                       *)
LEMMA TurnStep ==
  ASSUME SInv, NEW w \in Workers, Alone(w), NEW k, Becomes(w, k),
         InOrder', Fits(k)', k.op = "idle" => Rests'
  PROVE  Turns'
<1>1. /\ \A v \in Workers : Plain(job[v])
      /\ job' = [v \in Workers |-> job'[v]] /\ job'[w] = k
      /\ \A v \in Workers \ {w} : job'[v] = job[v]
  BY DEF Becomes, SInv, Shapes
<1>2. \A v \in Workers \ {w} : job'[v].op = "idle" /\ ~Active(v)'
  BY <1>1 DEF Alone, Active
<1>3. ASSUME NEW v \in Workers \ {w} PROVE Fits(job[v])'
  BY <1>1, <1>2 DEF Alone, Fits, Plain
<1>4. Fits(job[w])' BY <1>1
<1>5. Quiet' => Rests' BY <1>1 DEF Quiet, Active
<1> QED BY <1>2, <1>3, <1>4, <1>5 DEF Turns

(* What a step that leaves the tables, the cache and the window alone      *)
(* leaves as it was.                                                       *)
LEMMA SameView ==
  ASSUME UNCHANGED <<tables, cache, lastRef, window>>
  PROVE  /\ InOrder' = InOrder /\ CacheFits' = CacheFits /\ CurrentUser' = CurrentUser
         /\ Latest' = Latest /\ Rows' = Rows /\ Listed' = Listed /\ InView' = InView
         /\ accounts' = accounts /\ repos' = repos /\ account' = account /\ shown' = shown
         /\ Rests' = Rests
<1>1. UNCHANGED <<accounts, repos, cache, lastRef, account, shown, screen, section>>
  BY DEF tables, window
<1>2. Rows' = Rows /\ Listed' = Listed /\ InView' = InView BY <1>1 DEF Rows, Listed, InView
<1>3. Latest' = Latest BY <1>1, <1>2 DEF Latest
<1>4. CacheFits' = CacheFits /\ CurrentUser' = CurrentUser
  BY <1>1, <1>2, <1>3 DEF CacheFits, CurrentUser
<1>5. InOrder' = InOrder BY <1>1, <1>2 DEF InOrder
<1>6. Rests' = Rests BY <1>1, <1>2, <1>4 DEF Rests
<1> QED BY <1>1, <1>2, <1>3, <1>4, <1>5, <1>6
-----------------------------------------------------------------------------
(* A call that starts has read nothing.                                    *)
LEMMA CallHas ==
  ASSUME NEW op, NEW pc, NEW c, c = Call(op, pc)
  PROVE  c.op = op /\ c.pc = pc /\ c.at = 0 /\ c.ok /\ c.live
BY DEF Call, Idle

LEMMA FirstLoad ==
  ASSUME NEW c, c = Call("load", "first"), account' \in CurrentUser', account' # None,
         CacheFits', InView', shown' = {}
  PROVE  Fits(c)'
BY CallHas DEF Fits, ListFits, Working

LEMMA IdleFits == Idle.op = "idle" /\ Fits(Idle)'
<1>1. PICK c : c = Idle OBVIOUS
<1>2. c.op = "idle" /\ c.pc = "idle" /\ c.at = 0 /\ c.ok = TRUE BY <1>1 DEF Idle
<1>3. Fits(c)' BY <1>2 DEF Fits
<1> QED BY <1>1, <1>2, <1>3

(* The list mounted: it is loaded, or nobody is signed in.                 *)
LEMMA MountTurns ==
  ASSUME SInv, Turns, Orderly', NEW w \in Workers, NEW in, Mount(w, in), ~InView,
         UNCHANGED <<tables, tokens, account, shown>>, InView' <=> in = "repos"
  PROVE  Turns'
<1>1. upset \subseteq upset' BY DEF Mount, Begin
<1>2. Orderly BY <1>1 DEF Orderly
<1>3. InOrder /\ shown = {} BY <1>2 DEF Turns, InOrder
<1>4. UNCHANGED <<accounts, repos, cache, lastRef, account, shown>> BY DEF tables, tokens
<1>5. Rows' = Rows /\ Listed' = Listed BY <1>4 DEF Rows, Listed
<1>6. Latest' = Latest BY <1>4, <1>5 DEF Latest
<1>7. CacheFits' = CacheFits /\ CurrentUser' = CurrentUser
  BY <1>4, <1>5, <1>6 DEF CacheFits, CurrentUser
<1>8. InOrder' BY <1>3, <1>4, <1>5 DEF InOrder
<1>9. CASE in = "repos" /\ account # None
  <2>1. PICK c : c = Call("load", "first") OBVIOUS
  <2>2. Begin(w, c) BY <1>9, <2>1 DEF Mount
  <2>3. Alone(w) /\ Rests /\ Becomes(w, c) BY <2>2, TurnStarts
  <2>4. Fits(c)' BY <1>3, <1>4, <1>7, <1>9, <2>1, <2>3, FirstLoad DEF Rests
  <2>5. c.op # "idle" BY <2>1, CallHas
  <2> QED BY <1>8, <2>3, <2>4, <2>5, TurnStep
<1>10. CASE ~(in = "repos" /\ account # None)
  <2>1. UNCHANGED <<job, upset>> BY <1>10 DEF Mount
  <2>2. Quiet' => Rests' BY <1>2, <1>4, <1>5, <1>7, <1>10, <2>1 DEF Quiet, Active, Turns, Rests
  <2>3. ASSUME NEW v \in Workers PROVE Fits(job[v])'
    <3>0. PICK j : j = job[v] OBVIOUS
    <3>1. Fits(j) BY <1>2, <3>0 DEF Turns
    <3>2. j.op = "boot" => BootFits(j)' BY <1>4, <1>7, <3>1 DEF Fits, BootFits
    <3>3. j.op = "signin" => SignInFits(j)'
      BY <1>4, <1>5, <1>6, <1>7, <1>10, <3>1 DEF Fits, SignInFits
    <3>4. j.op = "signout" => SignOutFits(j)' BY <1>4, <1>5, <3>1 DEF Fits, SignOutFits
    <3>5. j.op \in {"load", "sync"} => ListFits(j)'
      BY <1>4, <1>5, <1>6, <1>7, <1>10, <3>1 DEF Fits, ListFits, Working
    <3>6. Fits(j)' BY <3>1, <3>2, <3>3, <3>4, <3>5 DEF Fits
    <3> QED BY <2>1, <3>0, <3>6
  <2> QED BY <1>2, <1>8, <2>1, <2>2, <2>3 DEF Turns, Active
<1> QED BY <1>9, <1>10

(* The list torn down: the load or sync in flight has lost its place.      *)
LEMMA UnmountTurns ==
  ASSUME SInv, Turns, Orderly', ~InView', shown' = {}, job' = Unmounted,
         UNCHANGED <<tables, tokens, account, upset>>
  PROVE  Turns'
<1>1. Orderly BY DEF Orderly
<1>2. InOrder BY <1>1 DEF Turns
<1>3. UNCHANGED <<accounts, repos, cache, lastRef, account>> BY DEF tables, tokens
<1>4. Rows' = Rows /\ Listed' = Listed BY <1>3 DEF Rows, Listed
<1>5. Latest' = Latest BY <1>3, <1>4 DEF Latest
<1>6. CacheFits' = CacheFits /\ CurrentUser' = CurrentUser
  BY <1>3, <1>4, <1>5 DEF CacheFits, CurrentUser
<1>7. InOrder' BY <1>2, <1>3, <1>4 DEF InOrder
<1>8. ASSUME NEW v \in Workers
      PROVE  job'[v].op = job[v].op /\ Fits(job[v])'
  <2>1. Plain(job[v]) BY DEF SInv, Shapes
  <2>2. PICK k : k = job'[v] OBVIOUS
  <2>3. PICK j : j = job[v] OBVIOUS
  <2>4. k = (IF j.op \in {"load", "sync"} THEN [j EXCEPT !.live = FALSE] ELSE j)
    BY <2>2, <2>3 DEF Unmounted
  <2>5. /\ k.op = j.op /\ k.pc = j.pc /\ k.user = j.user /\ k.ref = j.ref /\ k.id = j.id
        /\ k.owner = j.owner /\ k.at = j.at /\ k.todo = j.todo /\ k.ok = j.ok
        /\ j.op \in {"load", "sync"} => ~k.live
    BY <2>1, <2>3, <2>4 DEF Plain
  <2>6. Fits(j) BY <1>1, <2>3 DEF Turns
  <2>7. k.op = "boot" => BootFits(k)' BY <1>3, <1>6, <2>5, <2>6 DEF Fits, BootFits
  <2>8. k.op = "signin" => SignInFits(k)'
    BY <1>3, <1>4, <1>5, <1>6, <2>5, <2>6 DEF Fits, SignInFits
  <2>9. k.op = "signout" => SignOutFits(k)'
    BY <1>3, <1>4, <2>5, <2>6 DEF Fits, SignOutFits
  <2>10. k.op \in {"load", "sync"} => ListFits(k)'
    BY <1>3, <1>4, <1>5, <1>6, <2>5, <2>6 DEF Fits, ListFits, Working
  <2>11. Fits(k)' BY <2>5, <2>6, <2>7, <2>8, <2>9, <2>10 DEF Fits
  <2> QED BY <2>2, <2>3, <2>5, <2>11
<1>9. Quiet' => Rests'
  BY <1>1, <1>3, <1>6, <1>8 DEF Quiet, Active, Turns, Rests
<1> QED BY <1>1, <1>7, <1>8, <1>9 DEF Turns, Active
-----------------------------------------------------------------------------
LEMMA ClickTurns ==
  ASSUME SInv, Turns, Orderly', NEW w \in Workers,
         SubmitToken(w) \/ ClickSignOut(w) \/ ClickSync(w)
  PROVE  Turns'
<1>1. CASE SubmitToken(w)
  <2>1. PICK u \in Users :
          Begin(w, [Call("signin", "user") EXCEPT !.user = u, !.ref = lastRef + 1])
    BY <1>1 DEF SubmitToken
  <2>2. PICK k : k = [Call("signin", "user") EXCEPT !.user = u, !.ref = lastRef + 1]
    OBVIOUS
  <2>3. /\ k.op = "signin" /\ k.pc = "user" /\ k.at = 0 /\ k.ok = TRUE
    <3>1. PICK c : c = Call("signin", "user") OBVIOUS
    <3>2. k = [c EXCEPT !.user = u, !.ref = lastRef + 1] BY <2>2, <3>1
    <3>3. c = Call("signin", "user") /\ Plain(c) BY <3>1, CallIs
    <3>4. c.op = "signin" /\ c.pc = "user" /\ c.at = 0 /\ c.ok = TRUE
      BY <3>1 DEF Call, Idle
    <3> QED BY <3>2, <3>3, <3>4 DEF Plain
  <2>4. Begin(w, k) BY <2>1, <2>2
  <2>5. Orderly /\ Alone(w) /\ InOrder /\ Rests /\ Becomes(w, k) BY <2>4, TurnStarts
  <2>6. /\ UNCHANGED <<accounts, repos, cache, account, shown, screen, section>>
        /\ screen = "signin" /\ lastRef' = lastRef + 1
    BY <1>1 DEF SubmitToken, tables
  <2>7. Rows' = Rows /\ Listed' = Listed /\ ~InView /\ InView' = InView
    BY <2>6 DEF Rows, Listed, InView
  <2>8. Latest' = Latest BY <2>6, <2>7 DEF Latest
  <2>9. CacheFits' /\ account' \in CurrentUser'
    BY <2>5, <2>6, <2>7, <2>8 DEF Rests, CacheFits, CurrentUser
  <2>10. lastRef \in Nat /\ \A i \in Rows : accounts[i].at \in Nat
    BY DEF SInv, Shapes, Rows, Account, Ids
  <2>11. InOrder' /\ \A i \in Rows' : accounts'[i].at < lastRef'
    BY <2>5, <2>6, <2>7, <2>10 DEF InOrder
  <2>12. Fits(k)' BY <2>3, <2>7, <2>9, <2>11 DEF Fits, SignInFits, Before, Working
  <2> QED BY <2>3, <2>5, <2>11, <2>12, TurnStep
<1>2. CASE ClickSignOut(w)
  <2>1. PICK c : c = Call("signout", "list") OBVIOUS
  <2>2. Begin(w, c) /\ UNCHANGED <<tables, tokens, window>> BY <1>2, <2>1 DEF ClickSignOut
  <2>3. Alone(w) /\ InOrder /\ Becomes(w, c) BY <2>2, TurnStarts
  <2>4. InOrder' BY <2>2, <2>3, SameView DEF tokens
  <2>5. c.op = "signout" /\ Fits(c)' BY <2>1, CallHas DEF Fits, SignOutFits
  <2> QED BY <2>3, <2>4, <2>5, TurnStep
<1>3. CASE ClickSync(w)
  <2>1. PICK c : c = Call("sync", "account") OBVIOUS
  <2>2. Begin(w, c) BY <1>3, <2>1 DEF ClickSync
  <2>3. Alone(w) /\ InOrder /\ Rests /\ Becomes(w, c) BY <2>2, TurnStarts
  <2>4. UNCHANGED <<accounts, repos, cache, lastRef, account, shown, screen, section>>
        /\ InView /\ account # None
    BY <1>3 DEF ClickSync, tables, tokens, InView
  <2>5. Rows' = Rows /\ Listed' = Listed /\ InView' = InView
    BY <2>4 DEF Rows, Listed, InView
  <2>6. Latest' = Latest BY <2>4, <2>5 DEF Latest
  <2>7. CacheFits' /\ account' \in CurrentUser'
    BY <2>3, <2>4, <2>5, <2>6 DEF Rests, CacheFits, CurrentUser
  <2>8. InOrder' BY <2>3, <2>4, <2>5 DEF InOrder
  <2>9. c.op = "sync" /\ Fits(c)'
    BY <2>1, <2>4, <2>5, <2>7, CallHas DEF Fits, ListFits, Working
  <2> QED BY <2>3, <2>8, <2>9, TurnStep
<1> QED BY <1>1, <1>2, <1>3

(* A step by which a call goes on from pc to another place.                *)
LEMMA GoesOn ==
  ASSUME SInv, NEW w \in Workers, NEW pc, Goto(w, pc), Active(w)
  PROVE  \E k : /\ Becomes(w, k) /\ k.pc = pc /\ k.op = job[w].op
                /\ k.user = job[w].user /\ k.ref = job[w].ref /\ k.id = job[w].id
                /\ k.owner = job[w].owner /\ k.at = job[w].at /\ k.repo = job[w].repo
                /\ k.todo = job[w].todo /\ k.ok = job[w].ok /\ k.live = job[w].live
<1>1. PICK k : Becomes(w, k) /\ k = [job[w] EXCEPT !.pc = pc] BY DEF Goto
<1>2. Plain(job[w]) BY DEF SInv, Shapes
<1> QED BY <1>1, <1>2 DEF Plain
-----------------------------------------------------------------------------
(* Signing in.                                                             *)
LEMMA SignInBegins ==
  ASSUME SInv, Turns, Orderly', NEW w \in Workers,
         GetUser(w) \/ StoreToken(w) \/ CacheToken(w) \/ FindAccount(w)
  PROVE  Turns'
<1> USE DEF At
<1>1. Active(w) /\ job[w].op = "signin" /\ upset \subseteq upset'
  BY DEF GetUser, StoreToken, CacheToken, FindAccount, Active, Keeps, Faulty
<1>2. PICK j : j = job[w] OBVIOUS
<1>3. Orderly /\ Alone(w) /\ InOrder /\ Fits(j) BY <1>1, <1>2, TurnTaken
<1>4. SignInFits(j) BY <1>1, <1>2, <1>3 DEF Fits
<1>5. CASE GetUser(w) \/ StoreToken(w)
  <2>1. PICK pc \in {"store", "find"} : Goto(w, pc) /\ j.pc \in {"user", "store"}
    BY <1>2, <1>5 DEF GetUser, StoreToken
  <2>2. PICK k : /\ Becomes(w, k) /\ k.pc = pc /\ k.op = "signin"
                 /\ k.user = j.user /\ k.owner = j.owner /\ k.at = j.at /\ k.ok = j.ok
    BY <1>1, <1>2, <2>1, GoesOn
  <2>3. UNCHANGED <<tables, cache, lastRef, window>>
    BY <1>5 DEF GetUser, StoreToken, tokens
  <2>4. InOrder' /\ Fits(k)'
    BY <1>3, <1>4, <2>1, <2>2, <2>3, SameView DEF Fits, SignInFits, Before, Working
  <2> QED BY <1>3, <2>2, <2>4, TurnStep
<1>6. CASE CacheToken(w)
  <2>1. Goto(w, "check") /\ cache' = j.user /\ j.pc = "cache"
    BY <1>2, <1>6 DEF CacheToken
  <2>2. PICK k : /\ Becomes(w, k) /\ k.pc = "check" /\ k.op = "signin" /\ k.user = j.user
                 /\ k.owner = j.owner /\ k.id = j.id /\ k.at = j.at /\ k.ok = j.ok
    BY <1>1, <1>2, <2>1, GoesOn
  <2>3. UNCHANGED <<accounts, repos, lastRef, account, shown, screen, section>>
    BY <1>6 DEF CacheToken, tables, window
  <2>4. Rows' = Rows /\ Listed' = Listed /\ InView' = InView
    BY <2>3 DEF Rows, Listed, InView
  <2>5. Latest' = Latest BY <2>3, <2>4 DEF Latest
  <2>6. j.id \in Latest /\ accounts[j.id].user = j.owner /\ j.user = j.owner
    BY <1>4, <2>1 DEF SignInFits
  <2>7. CacheFits' BY <2>1, <2>3, <2>5, <2>6 DEF CacheFits
  <2>8. InOrder' BY <1>3, <2>3, <2>4 DEF InOrder
  <2>9. Fits(k)'
    BY <1>3, <1>4, <2>1, <2>2, <2>3, <2>4, <2>5, <2>6, <2>7
    DEF Fits, SignInFits, Before, Working
  <2> QED BY <1>3, <2>2, <2>8, <2>9, TurnStep
<1>7. CASE FindAccount(w)
  <2> DEFINE mine == {i \in Rows : accounts[i].user = j.user}
  <2>1. PICK t, k :
          /\ t \in Now /\ Becomes(w, k) /\ upset' = upset \cup Tie(t)
          /\ k = [j EXCEPT !.pc = "save", !.at = t,
                           !.id = IF mine = {} THEN 0 ELSE CHOOSE i \in mine : TRUE]
    BY <1>2, <1>7 DEF FindAccount
  <2>2. PICK n : n = (IF mine = {} THEN 0 ELSE CHOOSE i \in mine : TRUE) OBVIOUS
  <2>3. n = 0 \/ n \in Rows BY <2>2
  <2>4. k = [j EXCEPT !.pc = "save", !.at = t, !.id = n] BY <2>1, <2>2
  <2> HIDE DEF mine
  <2>5. Plain(j) BY <1>2 DEF SInv, Shapes
  <2>6. /\ k.op = "signin" /\ k.pc = "save" /\ k.at = t /\ k.id = n /\ k.ok = j.ok
        /\ j.pc = "find"
    BY <1>1, <1>2, <1>7, <2>4, <2>5 DEF Plain, FindAccount
  <2>7. /\ t \in Ids /\ \A s \in Times : s <= t
        /\ t \in Times \/ t - 1 \in Times
    BY <2>1 DEF Now
  <2>8. \A i \in Rows : /\ accounts[i].at \in Ids /\ accounts[i].at < lastRef
                        /\ accounts[i].at \in Times
    BY <1>4, <2>6 DEF SInv, Shapes, Rows, Account, SignInFits, Times
  <2>9. \A s \in Times : s = 0 \/ \E i \in Rows : s = accounts[i].at
    <3>1. \A v \in Workers : job[v].at = 0
      BY <1>2, <1>3, <2>6 DEF Alone, Fits
    <3> QED BY <3>1 DEF Times
  <2>10. lastRef \in Nat /\ 1 <= lastRef /\ lastRef <= MaxSignIns
    <3>1. j.ref \in Refs /\ j.ref <= lastRef
      BY <1>2, <2>6 DEF SInv, Mine, Pasting
    <3> QED BY <3>1, SessionAssumption DEF SInv, Shapes, Refs
  <2>11. t \notin Times
    <3> SUFFICES ASSUME t \in Times PROVE FALSE OBVIOUS
    <3>1. t < lastRef BY <2>7, <2>8, <2>9 DEF Ids
    <3>2. t + 1 \in Ids /\ (t + 1) - 1 = t
      BY <2>7, <2>10, <3>1, SessionAssumption DEF Ids
    <3>3. \A s \in Times : s <= t + 1 BY <2>7, <2>8, <2>9 DEF Ids
    <3>4. t + 1 \in Now BY <3>2, <3>3 DEF Now
    <3> QED BY <2>1, <3>4 DEF Tie, Orderly
  <2>12. t <= lastRef /\ \A i \in Rows : accounts[i].at < t
    <3>1. t - 1 = 0 \/ \E i \in Rows : t - 1 = accounts[i].at BY <2>7, <2>9, <2>11
    <3>2. t <= lastRef BY <2>7, <2>8, <2>10, <3>1 DEF Ids
    <3>3. \A i \in Rows : accounts[i].at <= t /\ accounts[i].at # t
      BY <2>7, <2>8, <2>11
    <3> QED BY <2>7, <2>8, <3>2, <3>3 DEF Ids
  <2>13. UNCHANGED <<tables, cache, lastRef, window>> BY <1>7 DEF FindAccount, tokens
  <2>14. InOrder' /\ Fits(k)'
    BY <1>3, <1>4, <2>3, <2>6, <2>12, <2>13, SameView
    DEF Fits, SignInFits, Before, Working
  <2> QED BY <1>3, <2>1, <2>6, <2>14, TurnStep
<1> QED BY <1>5, <1>6, <1>7
(* The row saved is the latest.                                            *)
LEMMA SavedTurns ==
  ASSUME SInv, Turns, Orderly', NEW w \in Workers, UpdateAccount(w) \/ InsertAccount(w)
  PROVE  Turns'
<1> USE DEF At
<1>1. /\ Active(w) /\ job[w].op = "signin" /\ job[w].pc = "save"
      /\ upset \subseteq upset'
  BY DEF UpdateAccount, InsertAccount, Active
<1>2. PICK j : j = job[w] OBVIOUS
<1>3. Orderly /\ Alone(w) /\ InOrder /\ Fits(j) BY <1>1, <1>2, TurnTaken
<1>4. SignInFits(j) BY <1>1, <1>2, <1>3 DEF Fits
<1>5. PICK new : new = [user |-> j.user, ref |-> j.ref, at |-> j.at] OBVIOUS
<1>6. PICK n \in Ids :
        /\ accounts' = [accounts EXCEPT ![n] = new] /\ Saved(w, n)
        /\ n \in Rows \/ n = lastId + 1
  <2>1. CASE UpdateAccount(w)
    <3>1. j.id \in Rows BY <1>1, <1>2, <1>4, <2>1 DEF UpdateAccount, SignInFits
    <3>2. accounts' = [accounts EXCEPT ![j.id] = new]
      BY <1>2, <1>5, <2>1, <3>1 DEF UpdateAccount, Rows, SInv, Shapes
    <3> QED BY <1>2, <2>1, <3>1, <3>2 DEF UpdateAccount, Rows
  <2>2. CASE InsertAccount(w)
    <3>1. lastId + 1 \in Ids
      BY <2>2, SessionAssumption DEF InsertAccount, SInv, Shapes, Ids
    <3> QED BY <1>2, <1>5, <2>2, <3>1 DEF InsertAccount, NewId
  <2> QED BY <2>1, <2>2
<1>7. /\ UNCHANGED <<repos, lastRef, account, shown, screen, section>>
  BY DEF UpdateAccount, InsertAccount, tokens, window
<1>8. /\ new.user = j.user /\ new.at = j.at /\ j.at \in Ids /\ j.user \in Users /\ new # None
  <2>1. j.user \in Users /\ j.ref \in Refs /\ j.at \in Ids
    BY <1>1, <1>2 DEF SInv, Mine, Pasting
  <2>2. new \in Account BY <1>5, <2>1 DEF Account
  <2> QED BY <1>5, <2>1, <2>2, NoAccount
<1>9. /\ Rows' = Rows \cup {n} /\ accounts'[n] = new
      /\ \A i \in Rows \ {n} : accounts'[i] = accounts[i]
  BY <1>6, <1>8 DEF SInv, Shapes, Rows
<1>10. /\ j.at <= lastRef /\ \A i \in Rows : /\ accounts[i].at < j.at
                                             /\ accounts[i].at \in Ids
  BY <1>1, <1>2, <1>4 DEF SignInFits, SInv, Shapes, Rows, Account
<1>11. Listed' = Listed /\ InView' = InView BY <1>7 DEF Listed, InView
<1>12. InOrder'
  <2>1. \A i, k \in Rows' : accounts'[i].at = accounts'[k].at => i = k
    BY <1>3, <1>8, <1>9, <1>10 DEF InOrder, Ids
  <2>2. \A i \in Rows' : accounts'[i].at <= lastRef'
    BY <1>3, <1>7, <1>8, <1>9, <1>10 DEF InOrder
  <2> QED BY <1>3, <1>7, <1>11, <2>1, <2>2 DEF InOrder
<1>13. n \in Latest' BY <1>8, <1>9, <1>10 DEF Latest, Ids
<1>14. PICK k : /\ Becomes(w, k)
                /\ k = [Call("signin", "cache") EXCEPT !.user = j.user, !.id = n,
                                                       !.owner = j.user]
  BY <1>2, <1>6 DEF Saved
<1>15. /\ k.op = "signin" /\ k.pc = "cache" /\ k.user = j.user /\ k.id = n
       /\ k.owner = j.user /\ k.at = 0 /\ k.ok = TRUE
  <2>1. PICK c : c = Call("signin", "cache") OBVIOUS
  <2>2. Plain(c) /\ c.op = "signin" /\ c.pc = "cache" BY <2>1, CallIs
  <2>3. c.at = 0 /\ c.ok = TRUE BY <2>1 DEF Call, Idle
  <2>4. k = [c EXCEPT !.user = j.user, !.id = n, !.owner = j.user] BY <1>14, <2>1
  <2> QED BY <2>2, <2>3, <2>4 DEF Plain
<1>16. Fits(k)'
  <2>1. InView => account = None BY <1>4 DEF SignInFits
  <2> QED BY <1>7, <1>8, <1>9, <1>11, <1>13, <1>15, <2>1
      DEF Fits, SignInFits, Before, Working
<1> QED BY <1>3, <1>12, <1>14, <1>15, <1>16, TurnStep

(* A sync that is over: what it was part of goes on.                       *)
LEMMA AfterSyncTurns ==
  ASSUME SInv, Turns, Orderly', NEW w \in Workers, NEW ok, AfterSync(w, ok),
         UNCHANGED <<tables, tokens, window>>, upset \subseteq upset',
         job[w].pc \in {"check", "account", "token"} \cup Working,
         ~ok => job[w].pc \in {"account", "token", "fetch"}
  PROVE  Turns'
<1>1. Active(w) BY DEF SInv, Shapes, Plain, Active, Working
<1>2. PICK j : j = job[w] OBVIOUS
<1>3. Orderly /\ Alone(w) /\ InOrder /\ Fits(j) BY <1>1, <1>2, TurnTaken
<1>4. PICK rest : rest = [Call(j.op, "answer") EXCEPT !.live = j.live] OBVIOUS
<1>5. /\ Plain(rest) /\ rest.op = j.op /\ rest.pc = "answer" /\ rest.at = 0
      /\ rest.ok = TRUE /\ rest.live = j.live
  <2>1. PICK c : c = Call(j.op, "answer") OBVIOUS
  <2>2. Plain(c) /\ c.op = j.op /\ c.pc = "answer" BY <1>1, <1>2, <2>1, CallIs DEF Active
  <2>3. c.at = 0 /\ c.ok = TRUE BY <2>1 DEF Call, Idle
  <2>4. rest = [c EXCEPT !.live = j.live] BY <1>4, <2>1
  <2> QED BY <2>2, <2>3, <2>4 DEF Plain
<1>6. InOrder' /\ tables' = tables BY <1>3, SameView DEF tokens
<1>7. UNCHANGED <<tables, cache, lastRef, window>> BY DEF tokens
<1>8. CASE j.op = "signin"
  <2>1. PICK k : Becomes(w, k) /\ k = [rest EXCEPT !.user = j.owner]
    BY <1>2, <1>4, <1>8 DEF AfterSync
  <2>2. /\ k.op = "signin" /\ k.pc = "answer" /\ k.user = j.owner /\ k.at = 0
        /\ k.ok = TRUE
    BY <1>5, <1>8, <2>1 DEF Plain
  <2>3. SignInFits(j) BY <1>3, <1>8 DEF Fits
  <2>4. Fits(k)'
    BY <1>2, <1>7, <2>2, <2>3, SameView DEF Fits, SignInFits, Before, Working
  <2> QED BY <1>3, <1>6, <2>1, <2>2, <2>4, TurnStep
<1>9. CASE j.op \in {"load", "sync"}
  <2>1. ListFits(j) BY <1>3, <1>9 DEF Fits
  <2>2. CASE j.op = "sync" \/ ok
    <3>1. PICK k : Becomes(w, k) /\ k = [rest EXCEPT !.pc = "rows"]
      BY <1>2, <1>4, <1>9, <2>2 DEF AfterSync
    <3>2. /\ k.op = j.op /\ k.pc = "rows" /\ k.at = 0 /\ k.ok = TRUE /\ k.live = j.live
      BY <1>5, <3>1 DEF Plain
    <3>3. Fits(k)'
      BY <1>7, <1>9, <2>1, <3>2, SameView DEF Fits, ListFits, Working
    <3> QED BY <1>3, <1>6, <1>9, <3>1, <3>2, <3>3, TurnStep
  <2>3. CASE ~(j.op = "sync" \/ ok)
    <3>1. PICK k : Becomes(w, k) /\ k = [rest EXCEPT !.ok = FALSE]
      BY <1>2, <1>4, <1>9, <2>3 DEF AfterSync
    <3>2. /\ k.op = "load" /\ k.pc = "answer" /\ k.at = 0 /\ k.ok = FALSE
          /\ k.live = j.live
      BY <1>5, <1>9, <2>3, <3>1 DEF Plain
    <3>3. Listed = {} BY <1>2, <1>9, <2>1, <2>3 DEF ListFits
    <3>4. Fits(k)'
      BY <1>7, <1>9, <2>1, <2>3, <3>2, <3>3, SameView DEF Fits, ListFits, Working
    <3> QED BY <1>3, <1>6, <3>1, <3>2, <3>4, TurnStep
  <2> QED BY <2>2, <2>3
<1>10. j.op \in {"signin", "load", "sync"}
  BY <1>1, <1>2, <1>3 DEF Fits, Active, BootFits, SignOutFits, Working
<1> QED BY <1>8, <1>9, <1>10
(* The rest of a sign-in, but for what the window does with its answer.    *)
LEMMA SignInEnds ==
  ASSUME SInv, Turns, Orderly', NEW w \in Workers,
         SignInFails(w) \/ CheckEmpty(w) \/ SignInRefused(w)
  PROVE  Turns'
<1> USE DEF At
<1>1. Active(w) /\ job[w].op = "signin" /\ upset \subseteq upset'
  BY DEF SignInFails, CheckEmpty, SignInRefused, Active, Faulty, Halfway
<1>2. PICK j : j = job[w] OBVIOUS
<1>3. Orderly /\ Alone(w) /\ InOrder /\ Fits(j) BY <1>1, <1>2, TurnTaken
<1>4. SignInFits(j) BY <1>1, <1>2, <1>3 DEF Fits
<1>5. CASE SignInFails(w)
  <2>1. j.pc \in {"user", "store"}
    BY <1>2, <1>5 DEF SignInFails, Halfway, Orderly
  <2>2. UNCHANGED <<tables, tokens, window>> BY <1>5 DEF SignInFails
  <2>3. PICK k : Becomes(w, k) /\ k = [j EXCEPT !.pc = "answer", !.ok = FALSE]
    BY <1>2, <1>5 DEF SignInFails, Fails
  <2>4. /\ k.op = "signin" /\ k.pc = "answer" /\ k.ok = FALSE /\ k.at = j.at
    <3>1. Plain(j) BY <1>2 DEF SInv, Shapes
    <3> QED BY <1>1, <1>2, <2>3, <3>1 DEF Plain
  <2>5. UNCHANGED <<tables, cache, lastRef, window>> BY <2>2 DEF tokens
  <2>6. InOrder' /\ Fits(k)'
    BY <1>3, <1>4, <2>1, <2>4, <2>5, SameView DEF Fits, SignInFits, Before, Working
  <2> QED BY <1>3, <2>3, <2>4, <2>6, TurnStep
<1>6. CASE CheckEmpty(w)
  <2>1. j.pc = "check" /\ UNCHANGED <<tables, tokens, window>>
        /\ (Goto(w, "fetch") \/ AfterSync(w, TRUE))
    BY <1>2, <1>6 DEF CheckEmpty
  <2>2. CASE Goto(w, "fetch")
    <3>1. PICK k : /\ Becomes(w, k) /\ k.pc = "fetch" /\ k.op = "signin"
                   /\ k.user = j.user /\ k.owner = j.owner /\ k.id = j.id
                   /\ k.at = j.at /\ k.ok = j.ok
      BY <1>1, <1>2, <2>2, GoesOn
    <3>2. UNCHANGED <<tables, cache, lastRef, window>> BY <2>1 DEF tokens
    <3>3. InOrder' /\ Fits(k)'
      BY <1>3, <1>4, <2>1, <3>1, <3>2, SameView DEF Fits, SignInFits, Before, Working
    <3> QED BY <1>3, <3>1, <3>3, TurnStep
  <2> QED BY <1>1, <1>2, <2>1, <2>2, AfterSyncTurns
<1>7. CASE SignInRefused(w)
  <2>1. UNCHANGED <<tables, cache, lastRef, account, shown, screen, section>>
    BY <1>7 DEF SignInRefused, tokens
  <2>2. UNCHANGED <<accounts, repos>> BY <2>1 DEF tables
  <2>3. Rows' = Rows /\ Listed' = Listed /\ InView' = InView
    BY <2>1, <2>2 DEF Rows, Listed, InView
  <2>4. Latest' = Latest BY <2>2, <2>3 DEF Latest
  <2>5. CacheFits' = CacheFits /\ CurrentUser' = CurrentUser
    BY <2>1, <2>2, <2>3, <2>4 DEF CacheFits, CurrentUser
  <2>6. InOrder' BY <1>3, <2>1, <2>2, <2>3 DEF InOrder
  <2>7. j.pc = "answer" /\ ~j.ok BY <1>2, <1>7 DEF SignInRefused
  <2>8. Rests' BY <1>4, <2>1, <2>3, <2>5, <2>7 DEF Rests, SignInFits
  <2>9. Becomes(w, Idle) BY <1>7 DEF SignInRefused
  <2> QED BY <1>3, <2>6, <2>8, <2>9, IdleFits, TurnStep
<1> QED BY <1>5, <1>6, <1>7

(* What follows an account set in the window: Booted and SignedIn.         *)
LEMMA SignedInTurns ==
  ASSUME SInv, Turns, Orderly', NEW w \in Workers, SignedIn(w)
  PROVE  Turns'
<1>1. Active(w) /\ job[w].op = "signin" /\ upset' = upset /\ job[w].ok
      /\ job[w].pc = "answer"
  BY DEF SignedIn, Active, At
<1>2. PICK j : j = job[w] OBVIOUS
<1>3. Orderly /\ Alone(w) /\ InOrder /\ Fits(j) BY <1>1, <1>2, TurnTaken
<1>4. SignInFits(j) BY <1>1, <1>2, <1>3 DEF Fits
<1>5. PICK i \in Latest : accounts[i].user = j.user
  BY <1>1, <1>2, <1>4 DEF SignInFits
<1>6. /\ UNCHANGED <<accounts, repos, cache, lastRef, section>>
      /\ screen' = "main" /\ account' = j.user /\ shown' = {}
  BY <1>2 DEF SignedIn, tables, tokens
<1>7. Rows' = Rows /\ Listed' = Listed BY <1>6 DEF Rows, Listed
<1>8. Latest' = Latest BY <1>6, <1>7 DEF Latest
<1>9. CacheFits' BY <1>1, <1>2, <1>4, <1>6, <1>8 DEF CacheFits, SignInFits
<1>10. account' \in CurrentUser' /\ account' # None
  BY <1>5, <1>6, <1>7, <1>8, SessionAssumption
  DEF CurrentUser, Latest, Rows, SInv, Shapes, Account
<1>11. InOrder' BY <1>3, <1>6, <1>7 DEF InOrder
<1>12. InView' <=> section = "repos" BY <1>6 DEF InView
<1>13. PICK k : /\ k = IF section = "repos" THEN Call("load", "first") ELSE Idle
                /\ job' = [Unmounted EXCEPT ![w] = k]
  BY DEF SignedIn
<1>14. Becomes(w, k)
  <2>1. \A v \in Workers \ {w} : Unmounted[v] = job[v]
    BY <1>3 DEF Unmounted, Alone, Active
  <2>2. Unmounted = [v \in Workers |-> Unmounted[v]] BY DEF Unmounted
  <2>3. job = [v \in Workers |-> job[v]] BY DEF SInv, Shapes
  <2> HIDE DEF Unmounted
  <2> QED BY <1>13, <2>1, <2>2, <2>3 DEF Becomes
<1>15. CASE section = "repos"
  <2>1. k = Call("load", "first") BY <1>13, <1>15
  <2>2. k.op = "load" /\ Fits(k)'
    BY <1>6, <1>9, <1>10, <1>12, <1>15, <2>1, FirstLoad, CallHas
  <2> QED BY <1>3, <1>11, <1>14, <2>2, TurnStep
<1>16. CASE section # "repos"
  <2>1. k = Idle BY <1>13, <1>16
  <2>2. Fits(k)' BY <2>1, IdleFits
  <2>3. Rests' BY <1>9, <1>10, <1>12, <1>16 DEF Rests
  <2> QED BY <1>3, <1>11, <1>14, <2>2, <2>3, TurnStep
<1> QED BY <1>15, <1>16
-----------------------------------------------------------------------------
(* Signing out.                                                            *)
LEMMA SignOutTurns ==
  ASSUME SInv, Turns, Orderly', NEW w \in Workers, SignOutStep(w)
  PROVE  Turns'
<1> USE DEF At
<1>1. Active(w) /\ job[w].op = "signout" /\ upset \subseteq upset'
  BY DEF SignOutStep, ListAccounts, WipeToken, DropAccount, ClearCache, SignOutFails,
         SignedOut, Active, Keeps, Faulty, Halfway
<1>2. PICK j : j = job[w] OBVIOUS
<1>3. Orderly /\ Alone(w) /\ InOrder /\ Fits(j) BY <1>1, <1>2, TurnTaken
<1>4. SignOutFits(j) /\ Plain(j) BY <1>1, <1>2, <1>3 DEF Fits, SInv, Shapes
<1>5. CASE ListAccounts(w)
  <2>1. PICK S : S = {<<i, accounts[i].ref>> : i \in Rows} OBVIOUS
  <2>2. PICK k : Becomes(w, k) /\ k = [j EXCEPT !.pc = "wipe", !.todo = S]
    <3>1. ~Halfway BY DEF Halfway, Orderly
    <3>2. Becomes(w, [job[w] EXCEPT !.pc = "wipe",
                                    !.todo = {<<i, accounts[i].ref>> : i \in Rows}])
      BY <1>5, <3>1 DEF ListAccounts
    <3> QED BY <1>2, <2>1, <3>2
  <2>3. k.op = "signout" /\ k.pc = "wipe" /\ k.todo = S /\ k.at = j.at /\ k.ok = j.ok
    BY <1>1, <1>2, <1>4, <2>2 DEF Plain
  <2>4. \A i \in Rows : \E d \in S : d[1] = i
    <3> SUFFICES ASSUME NEW i \in Rows PROVE \E d \in S : d[1] = i OBVIOUS
    <3>1. <<i, accounts[i].ref>> \in S BY <2>1
    <3> QED BY <3>1
  <2>5. UNCHANGED <<tables, cache, lastRef, window>> /\ j.pc = "list"
    BY <1>2, <1>5 DEF ListAccounts, tokens
  <2>6. InOrder' /\ Fits(k)'
    BY <1>3, <2>3, <2>4, <2>5, SameView DEF Fits, SignOutFits
  <2> QED BY <1>3, <2>2, <2>3, <2>6, TurnStep
<1>6. CASE WipeToken(w)
  <2>1. PICK d, k : /\ d \in j.todo /\ Becomes(w, k)
                    /\ k = [j EXCEPT !.pc = "drop", !.id = d[1], !.todo = j.todo \ {d}]
    BY <1>2, <1>6 DEF WipeToken
  <2>2. /\ k.op = "signout" /\ k.pc = "drop" /\ k.id = d[1] /\ k.todo = j.todo \ {d}
        /\ k.at = j.at /\ k.ok = j.ok /\ j.pc = "wipe"
    BY <1>1, <1>2, <1>4, <1>6, <2>1 DEF Plain, WipeToken
  <2>3. UNCHANGED <<tables, cache, lastRef, window>> BY <1>6 DEF WipeToken
  <2>4. \A i \in Rows : i = k.id \/ \E e \in k.todo : e[1] = i
    BY <1>4, <2>2 DEF SignOutFits
  <2>5. InOrder' /\ Fits(k)'
    BY <1>3, <2>2, <2>3, <2>4, SameView DEF Fits, SignOutFits
  <2> QED BY <1>3, <2>1, <2>2, <2>5, TurnStep
<1>7. CASE DropAccount(w)
  <2>1. Goto(w, "wipe") /\ j.pc = "drop" BY <1>2, <1>7 DEF DropAccount
  <2>2. PICK k : /\ Becomes(w, k) /\ k.pc = "wipe" /\ k.op = "signout"
                 /\ k.todo = j.todo /\ k.at = j.at /\ k.ok = j.ok
    BY <1>1, <1>2, <2>1, GoesOn
  <2>3. /\ accounts' = [accounts EXCEPT ![j.id] = None]
        /\ \A g \in Repos : repos'[g] = repos[g] \/ repos'[g] = None
        /\ UNCHANGED <<lastRef, account, shown, screen, section>>
    BY <1>2, <1>7 DEF DropAccount, tokens, window
  <2>4. /\ Rows' \subseteq Rows /\ j.id \notin Rows'
        /\ \A i \in Rows' : accounts'[i] = accounts[i]
    BY <2>3 DEF SInv, Shapes, Rows
  <2>5. Listed' \subseteq Listed /\ \A g \in Listed' : repos'[g] = repos[g]
    BY <2>3 DEF Listed
  <2>6. InView' = InView BY <2>3 DEF InView
  <2>7. InOrder' BY <1>3, <2>3, <2>4, <2>5, <2>6 DEF InOrder
  <2>8. \A i \in Rows' : \E d \in k.todo : d[1] = i
    BY <1>4, <2>1, <2>2, <2>4 DEF SignOutFits
  <2>9. Fits(k)' BY <1>3, <2>1, <2>2, <2>8 DEF Fits, SignOutFits
  <2> QED BY <1>3, <2>2, <2>7, <2>9, TurnStep
<1>8. CASE ClearCache(w)
  <2>1. Goto(w, "answer") /\ j.pc = "wipe" /\ j.todo = {} /\ cache' = None
    BY <1>2, <1>8 DEF ClearCache
  <2>2. PICK k : /\ Becomes(w, k) /\ k.pc = "answer" /\ k.op = "signout"
                 /\ k.at = j.at /\ k.ok = j.ok
    BY <1>1, <1>2, <2>1, GoesOn
  <2>3. UNCHANGED <<accounts, repos, lastRef, account, shown, screen, section>>
    BY <1>8 DEF ClearCache, tables, window
  <2>4. Rows' = Rows /\ Listed' = Listed /\ InView' = InView
    BY <2>3 DEF Rows, Listed, InView
  <2>5. InOrder' BY <1>3, <2>3, <2>4 DEF InOrder
  <2>6. Rows = {} BY <1>4, <2>1 DEF SignOutFits
  <2>7. Fits(k)' BY <1>3, <2>1, <2>2, <2>4, <2>6 DEF Fits, SignOutFits
  <2> QED BY <1>3, <2>2, <2>5, <2>7, TurnStep
<1>9. CASE SignOutFails(w)
  BY <1>9 DEF SignOutFails, Halfway, Orderly
<1>10. CASE SignedOut(w)
  <2>1. /\ UNCHANGED <<accounts, repos, cache, lastRef, screen, section>>
        /\ account' = None /\ shown' = {} /\ Becomes(w, Idle)
    BY <1>10 DEF SignedOut, tables, tokens
  <2>2. j.pc = "answer" BY <1>2, <1>10 DEF SignedOut
  <2>3. Rows' = {} /\ cache' = None BY <1>4, <2>1, <2>2 DEF SignOutFits, Rows
  <2>4. Listed' = Listed BY <2>1 DEF Listed
  <2>5. InOrder' BY <1>3, <2>1, <2>3, <2>4 DEF InOrder
  <2>6. Rests' BY <2>1, <2>3 DEF Rests, CurrentUser, CacheFits
  <2> QED BY <1>3, <2>1, <2>5, <2>6, IdleFits, TurnStep
<1> QED BY <1>5, <1>6, <1>7, <1>8, <1>9, <1>10 DEF SignOutStep
-----------------------------------------------------------------------------
(* The sync.                                                               *)
LEMMA OneLatest == ASSUME SInv, InOrder, NEW i \in Latest, NEW k \in Latest PROVE i = k
<1>1. /\ accounts[i].at \in Ids /\ accounts[k].at \in Ids
      /\ accounts[i].at <= accounts[k].at /\ accounts[k].at <= accounts[i].at
  BY DEF SInv, Shapes, Latest, Rows, Account
<1>2. accounts[i].at = accounts[k].at BY <1>1 DEF Ids
<1> QED BY <1>2 DEF InOrder, Latest

LEMMA SyncTurns ==
  ASSUME SInv, Turns, Orderly', NEW w \in Workers,
         FindSession(w) \/ UseCached(w) \/ ReadToken(w) \/ KeepToken(w)
  PROVE  Turns'
<1>1. job[w].pc \in {"account", "token", "keep"} /\ upset' = upset
  BY DEF FindSession, UseCached, ReadToken, KeepToken
<1>2. PICK j : j = job[w] OBVIOUS
<1>3. Plain(j) /\ Active(w) BY <1>1, <1>2 DEF SInv, Shapes, Plain, Active
<1>4. Orderly /\ Alone(w) /\ InOrder /\ Fits(j) BY <1>1, <1>2, <1>3, TurnTaken
<1>5. j.op \in {"load", "sync"} /\ ListFits(j)
  BY <1>1, <1>2, <1>3, <1>4
  DEF Fits, Active, BootFits, SignInFits, SignOutFits, Before, Working
<1>6. CASE FindSession(w)
  <2>1. PICK i, k :
          /\ i \in Latest /\ Becomes(w, k)
          /\ k = [j EXCEPT !.pc = "token", !.id = i, !.owner = accounts[i].user,
                           !.ref = accounts[i].ref]
    BY <1>2, <1>6 DEF FindSession
  <2>2. /\ k.op = j.op /\ k.pc = "token" /\ k.id = i /\ k.owner = accounts[i].user
        /\ k.ref = accounts[i].ref /\ k.at = j.at /\ k.ok = j.ok /\ k.live = j.live
        /\ j.pc = "account"
    BY <1>2, <1>3, <1>6, <2>1 DEF Plain, FindSession
  <2>3. UNCHANGED <<tables, cache, lastRef, window>> BY <1>6 DEF FindSession, tokens
  <2>4. InOrder' /\ Fits(k)'
    BY <1>4, <1>5, <2>1, <2>2, <2>3, SameView DEF Fits, ListFits, Working
  <2> QED BY <1>4, <1>5, <2>1, <2>2, <2>4, TurnStep
<1>7. CASE UseCached(w) \/ ReadToken(w)
  <2>1. PICK u, pc, k : /\ Becomes(w, k) /\ pc \in {"fetch", "keep"}
                        /\ k = [j EXCEPT !.pc = pc, !.user = u]
                        /\ \/ cache # None /\ u = cache
                           \/ cache = None /\ u = store[j.ref]
    BY <1>2, <1>7 DEF UseCached, ReadToken
  <2>2. j.id \in Latest /\ accounts[j.id].user = j.owner /\ j.ref = accounts[j.id].ref
        /\ CacheFits /\ j.pc = "token"
    BY <1>2, <1>5, <1>7 DEF ListFits, UseCached, ReadToken
  <2>3. u = j.owner
    <3>1. CASE cache # None /\ u = cache
      BY <1>4, <2>2, <3>1, OneLatest DEF CacheFits
    <3>2. CASE u = store[j.ref]
      <4>1. j.id \in Rows BY <2>2 DEF Latest
      <4>2. ~Dropping(j.id)
        <5>1. \A v \in Workers \ {w} : job[v].pc = "idle"
          BY <1>4 DEF Alone, Active, SInv, Shapes, Plain
        <5> QED BY <1>2, <2>2, <5>1 DEF Dropping
      <4>3. "partial" \notin upset BY <1>4 DEF Orderly
      <4> QED BY <2>2, <3>2, <4>1, <4>2, <4>3 DEF SInv, Books
    <3> QED BY <2>1, <3>1, <3>2
  <2>4. /\ k.op = j.op /\ k.pc = pc /\ k.user = u /\ k.id = j.id /\ k.owner = j.owner
        /\ k.at = j.at /\ k.ok = j.ok /\ k.live = j.live
    BY <1>3, <1>5, <2>1 DEF Plain
  <2>5. UNCHANGED <<tables, cache, lastRef, window>>
    BY <1>7 DEF UseCached, ReadToken, tokens
  <2>6. InOrder' /\ Fits(k)'
    BY <1>4, <1>5, <2>1, <2>2, <2>3, <2>4, <2>5, SameView DEF Fits, ListFits, Working
  <2> QED BY <1>4, <1>5, <2>1, <2>4, <2>6, TurnStep
<1>8. CASE KeepToken(w)
  <2>1. Goto(w, "fetch") /\ j.pc = "keep" /\ cache' = j.user
    BY <1>2, <1>8 DEF KeepToken
  <2>2. PICK k : /\ Becomes(w, k) /\ k.pc = "fetch" /\ k.op = j.op /\ k.user = j.user
                 /\ k.id = j.id /\ k.owner = j.owner /\ k.at = j.at /\ k.ok = j.ok
                 /\ k.live = j.live
    BY <1>2, <1>3, <2>1, GoesOn
  <2>3. UNCHANGED <<accounts, repos, lastRef, account, shown, screen, section>>
    BY <1>8 DEF KeepToken, tables, window
  <2>4. Rows' = Rows /\ Listed' = Listed /\ InView' = InView
    BY <2>3 DEF Rows, Listed, InView
  <2>5. Latest' = Latest BY <2>3, <2>4 DEF Latest
  <2>6. j.id \in Latest /\ accounts[j.id].user = j.owner /\ j.user = j.owner
    BY <1>5, <2>1 DEF ListFits
  <2>7. CacheFits' BY <2>1, <2>3, <2>5, <2>6 DEF CacheFits
  <2>8. CurrentUser' = CurrentUser BY <2>3, <2>4, <2>5 DEF CurrentUser
  <2>9. InOrder' BY <1>4, <2>3, <2>4 DEF InOrder
  <2>10. Fits(k)'
    BY <1>4, <1>5, <2>1, <2>2, <2>3, <2>4, <2>5, <2>6, <2>7, <2>8
    DEF Fits, ListFits, Working
  <2> QED BY <1>4, <1>5, <2>2, <2>9, <2>10, TurnStep
<1> QED BY <1>6, <1>7, <1>8

LEMMA RowsTurns ==
  ASSUME SInv, Turns, Orderly', NEW w \in Workers,
         Fetch(w) \/ Look(w) \/ Insert(w) \/ Update(w)
  PROVE  Turns'
<1>1. job[w].pc \in Working /\ upset' = upset
  BY DEF Fetch, Look, Insert, Update, Working
<1>2. PICK j : j = job[w] OBVIOUS
<1>3. Plain(j) /\ Active(w) BY <1>1, <1>2 DEF SInv, Shapes, Plain, Active, Working
<1>4. Orderly /\ Alone(w) /\ InOrder /\ Fits(j) BY <1>1, <1>2, <1>3, TurnTaken
<1>5. j.op \in {"signin", "load", "sync"}
  BY <1>1, <1>2, <1>3, <1>4 DEF Fits, Active, BootFits, SignOutFits, Working
<1>6. /\ j.user = j.owner /\ j.id \in Latest /\ accounts[j.id].user = j.owner
      /\ j.at = 0 /\ j.ok
  BY <1>1, <1>2, <1>4, <1>5 DEF Fits, SignInFits, ListFits, Working
<1>7. PICK k : /\ Becomes(w, k) /\ k.pc \in {"look", "insert", "update"}
               /\ k.op = j.op /\ k.user = j.user /\ k.id = j.id /\ k.owner = j.owner
               /\ k.at = 0 /\ k.ok /\ k.live = j.live
  <2>1. CASE Fetch(w)
    <3>1. PICK k : k = [j EXCEPT !.pc = "look", !.todo = Visible[j.user]] OBVIOUS
    <3>2. Becomes(w, k) BY <1>2, <2>1, <3>1 DEF Fetch
    <3>3. /\ k.pc \in {"look", "insert", "update"} /\ k.op = j.op /\ k.user = j.user
          /\ k.id = j.id /\ k.owner = j.owner /\ k.at = 0 /\ k.ok /\ k.live = j.live
      BY <1>3, <1>5, <1>6, <3>1 DEF Plain
    <3> QED BY <3>2, <3>3
  <2>2. CASE Look(w)
    <3>1. PICK g \in j.todo :
            Becomes(w, [j EXCEPT !.pc = IF repos[g] = None THEN "insert" ELSE "update",
                                 !.todo = j.todo \ {g}, !.repo = g])
      BY <1>2, <2>2 DEF Look
    <3>2. PICK pc : pc = (IF repos[g] = None THEN "insert" ELSE "update") OBVIOUS
    <3>3. PICK k : k = [j EXCEPT !.pc = pc, !.todo = j.todo \ {g}, !.repo = g] OBVIOUS
    <3>4. Becomes(w, k) BY <3>1, <3>2, <3>3
    <3>5. /\ k.pc \in {"look", "insert", "update"} /\ k.op = j.op /\ k.user = j.user
          /\ k.id = j.id /\ k.owner = j.owner /\ k.at = 0 /\ k.ok /\ k.live = j.live
      BY <1>3, <1>5, <1>6, <3>2, <3>3 DEF Plain
    <3> QED BY <3>4, <3>5
  <2>3. CASE Insert(w) \/ Update(w)
    <3>1. PICK k : k = [j EXCEPT !.pc = "look", !.repo = None] OBVIOUS
    <3>2. Becomes(w, k) BY <1>2, <2>3, <3>1 DEF Insert, Update
    <3>3. /\ k.pc \in {"look", "insert", "update"} /\ k.op = j.op /\ k.user = j.user
          /\ k.id = j.id /\ k.owner = j.owner /\ k.at = 0 /\ k.ok /\ k.live = j.live
      BY <1>3, <1>5, <1>6, <3>1 DEF Plain
    <3> QED BY <3>2, <3>3
  <2> QED BY <2>1, <2>2, <2>3
<1>8. /\ UNCHANGED <<accounts, cache, lastRef, account, shown, screen, section>>
      /\ \A g \in Listed' :
           (g \in Listed /\ repos'[g] = repos[g]) \/ repos'[g] = Row(w)
  BY DEF Fetch, Look, Insert, Update, tables, tokens, window, SInv, Shapes, Listed
<1>9. Rows' = Rows /\ InView' = InView BY <1>8 DEF Rows, InView
<1>10. Latest' = Latest BY <1>8, <1>9 DEF Latest
<1>11. CacheFits' = CacheFits /\ CurrentUser' = CurrentUser
  BY <1>8, <1>9, <1>10 DEF CacheFits, CurrentUser
<1>12. \A g \in Listed' : repos'[g].via = repos'[g].owner
  <2>1. Row(w).via = Row(w).owner BY <1>2, <1>6 DEF Row
  <2> QED BY <1>4, <1>8, <2>1 DEF InOrder
<1>13. InOrder' BY <1>4, <1>8, <1>9, <1>12 DEF InOrder
<1>14. k.op = "signin" => SignInFits(k)'
  BY <1>1, <1>2, <1>4, <1>5, <1>6, <1>7, <1>8, <1>9, <1>10, <1>11
  DEF Fits, SignInFits, Before, Working
<1>15. k.op \in {"load", "sync"} => ListFits(k)'
  BY <1>1, <1>2, <1>4, <1>5, <1>6, <1>7, <1>8, <1>9, <1>10, <1>11
  DEF Fits, ListFits, Working
<1>16. Fits(k)' BY <1>5, <1>7, <1>14, <1>15 DEF Fits
<1> QED BY <1>4, <1>5, <1>7, <1>13, <1>16, TurnStep

LEMMA SyncEnds ==
  ASSUME SInv, Turns, Orderly', NEW w \in Workers, SyncDone(w) \/ SyncFails(w)
  PROVE  Turns'
<1>1. CASE SyncDone(w)
  BY <1>1, AfterSyncTurns DEF SyncDone, Working
<1>2. CASE SyncFails(w)
  <2>1. job[w].pc \in {"account", "token", "fetch"}
    BY <1>2 DEF SyncFails, Halfway, Orderly
  <2> QED BY <1>2, <2>1, AfterSyncTurns DEF SyncFails, Faulty, Halfway, Working
<1> QED BY <1>1, <1>2
-----------------------------------------------------------------------------
(* The lists and the answers.                                              *)
LEMMA ListTurns ==
  ASSUME SInv, Turns, Orderly', NEW w \in Workers, ReadRows(w) \/ See(w) \/ Listing(w)
  PROVE  Turns'
<1>1. /\ job[w].pc \in {"first", "rows", "see", "answer"} /\ upset \subseteq upset'
      /\ job[w].pc = "answer" => job[w].op \in {"load", "sync"}
  BY DEF ReadRows, See, Listing, Halfway
<1>2. PICK j : j = job[w] OBVIOUS
<1>3. Plain(j) /\ Active(w) BY <1>1, <1>2 DEF SInv, Shapes, Plain, Active
<1>4. Orderly /\ Alone(w) /\ InOrder /\ Fits(j) BY <1>1, <1>2, <1>3, TurnTaken
<1>5. j.op \in {"load", "sync"} /\ ListFits(j)
  BY <1>1, <1>2, <1>3, <1>4
  DEF Fits, Active, BootFits, SignInFits, SignOutFits, Before, Working
<1>6. CASE ReadRows(w)
  <2>1. PICK pc : pc = (IF j.pc = "first" THEN "see" ELSE "answer") OBVIOUS
  <2>2. j.pc \in {"first", "rows"} BY <1>2, <1>6 DEF ReadRows
  <2>3. PICK k : Becomes(w, k) /\ k = [j EXCEPT !.pc = pc, !.todo = Listed]
    <3>1. ~Halfway BY DEF Halfway, Orderly
    <3>2. Becomes(w, [j EXCEPT !.pc = pc, !.todo = Listed])
      BY <1>2, <1>6, <2>1, <3>1 DEF ReadRows
    <3> QED BY <3>2
  <2>4. /\ k.op = j.op /\ k.pc = pc /\ k.todo = Listed /\ k.at = j.at /\ k.ok = j.ok
        /\ k.live = j.live
    BY <1>3, <1>5, <2>1, <2>3 DEF Plain
  <2>5. UNCHANGED <<tables, cache, lastRef, window>> BY <1>6 DEF ReadRows, tokens
  <2>6. InOrder' /\ Fits(k)'
    BY <1>4, <1>5, <2>1, <2>2, <2>4, <2>5, SameView DEF Fits, ListFits, Working
  <2> QED BY <1>4, <1>5, <2>3, <2>4, <2>6, TurnStep
<1>7. CASE See(w) \/ Listing(w)
  <2>1. UNCHANGED <<accounts, repos, cache, lastRef, account, screen, section>>
    BY <1>7 DEF See, Listing, tables, tokens
  <2>2. Rows' = Rows /\ Listed' = Listed /\ InView' = InView
    BY <2>1 DEF Rows, Listed, InView
  <2>3. Latest' = Latest BY <2>1, <2>2 DEF Latest
  <2>4. CacheFits' = CacheFits /\ CurrentUser' = CurrentUser
    BY <2>1, <2>2, <2>3 DEF CacheFits, CurrentUser
  <2>5. CASE shown' = IF j.live THEN Listed ELSE shown
    <3>1. InOrder' BY <1>4, <1>5, <2>1, <2>2, <2>5 DEF InOrder, ListFits
    <3>2. Rests' BY <1>5, <2>1, <2>2, <2>4, <2>5 DEF Rests, ListFits
    <3>3. ASSUME Becomes(w, Idle) PROVE Turns'
      BY <1>4, <3>1, <3>2, <3>3, IdleFits, TurnStep
    <3>4. ASSUME Goto(w, "account"), j.pc = "see", j.todo = {}, shown' = shown
          PROVE  Turns'
      <4>1. PICK k : /\ Becomes(w, k) /\ k.pc = "account" /\ k.op = j.op
                     /\ k.at = j.at /\ k.ok = j.ok /\ k.live = j.live
        BY <1>2, <1>3, <3>4, GoesOn
      <4>2. Fits(k)'
        BY <1>4, <1>5, <2>1, <2>2, <2>4, <3>4, <4>1 DEF Fits, ListFits, Working
      <4> QED BY <1>4, <1>5, <3>1, <4>1, <4>2, TurnStep
    <3>5. CASE See(w) BY <1>2, <3>3, <3>4, <3>5 DEF See
    <3>6. CASE Listing(w) BY <3>3, <3>6 DEF Listing
    <3> QED BY <1>7, <3>5, <3>6
  <2>6. CASE Listing(w)
    <3>1. /\ shown' = IF j.live /\ j.ok THEN j.todo ELSE shown
          /\ j.pc = "answer" /\ Becomes(w, Idle)
      BY <1>2, <2>6 DEF Listing
    <3>2. j.ok => j.todo = Listed BY <1>5, <3>1 DEF ListFits
    <3>3. ~j.ok => shown = {} /\ Listed = {} BY <1>5, <3>1 DEF ListFits
    <3>4. shown' = IF j.live THEN Listed ELSE shown BY <3>1, <3>2, <3>3
    <3> QED BY <2>5, <3>4
  <2>7. CASE See(w)
    <3>1. j.pc = "see" /\ j.todo = Listed /\ shown = {}
      BY <1>2, <1>5, <2>7 DEF See, ListFits, Working
    <3>2. shown' = IF j.live THEN Listed ELSE shown
      BY <1>2, <2>7, <3>1 DEF See
    <3> QED BY <2>5, <3>2
  <2> QED BY <1>7, <2>6, <2>7
<1> QED BY <1>6, <1>7

LEMMA BootTurns ==
  ASSUME SInv, Turns, Orderly', NEW w \in Workers, ReadSession(w) \/ Booted(w)
  PROVE  Turns'
<1> USE DEF At
<1>1. Active(w) /\ job[w].op = "boot" /\ upset \subseteq upset'
  BY DEF ReadSession, Booted, Active, Halfway
<1>2. PICK j : j = job[w] OBVIOUS
<1>3. Orderly /\ Alone(w) /\ InOrder /\ Fits(j) BY <1>1, <1>2, TurnTaken
<1>4. BootFits(j) /\ Plain(j) BY <1>1, <1>2, <1>3 DEF Fits, SInv, Shapes
<1>5. CASE ReadSession(w)
  <2>1. PICK u \in CurrentUser : Becomes(w, [j EXCEPT !.pc = "answer", !.owner = u])
    <3>1. ~Halfway BY DEF Halfway, Orderly
    <3> QED BY <1>2, <1>5, <3>1 DEF ReadSession
  <2>2. PICK k : Becomes(w, k) /\ k = [j EXCEPT !.pc = "answer", !.owner = u]
    BY <2>1
  <2>3. k.op = "boot" /\ k.pc = "answer" /\ k.owner = u /\ k.at = j.at
    BY <1>1, <1>2, <1>4, <2>2 DEF Plain
  <2>4. UNCHANGED <<tables, cache, lastRef, window>> /\ j.pc = "session"
    BY <1>2, <1>5 DEF ReadSession, tokens
  <2>5. InOrder' /\ Fits(k)'
    BY <1>3, <1>4, <2>1, <2>3, <2>4, SameView DEF Fits, BootFits
  <2> QED BY <1>3, <2>2, <2>3, <2>5, TurnStep
<1>6. CASE Booted(w)
  <2>1. /\ UNCHANGED <<accounts, repos, cache, lastRef, shown, screen, section>>
        /\ j.pc = "answer"
    BY <1>2, <1>6 DEF Booted, tables, tokens
  <2>2. Rows' = Rows /\ Listed' = Listed /\ InView' = InView
    BY <2>1 DEF Rows, Listed, InView
  <2>3. Latest' = Latest BY <2>1, <2>2 DEF Latest
  <2>4. CacheFits' = CacheFits /\ CurrentUser' = CurrentUser
    BY <2>1, <2>2, <2>3 DEF CacheFits, CurrentUser
  <2>5. account = None /\ shown = {} /\ CacheFits /\ j.owner \in CurrentUser
    BY <1>3, <1>4, <2>1 DEF BootFits, InOrder
  <2>6. InOrder' BY <1>3, <2>1, <2>2, <2>5 DEF InOrder
  <2>7. account' = j.owner BY <1>2, <1>6, <2>5 DEF Booted, Shows
  <2>8. CASE Becomes(w, Idle) /\ (account' = None \/ ~InView)
    <3>1. Rests' BY <2>2, <2>4, <2>5, <2>7, <2>8 DEF Rests
    <3> QED BY <1>3, <2>6, <2>8, <3>1, IdleFits, TurnStep
  <2>9. CASE Becomes(w, Call("load", "first")) /\ account' # None /\ InView
    <3>1. PICK c : c = Call("load", "first") OBVIOUS
    <3>2. c.op = "load" /\ Fits(c)'
      BY <2>1, <2>2, <2>4, <2>5, <2>7, <2>9, <3>1, FirstLoad, CallHas
    <3> QED BY <1>3, <2>6, <2>9, <3>1, <3>2, TurnStep
  <2> QED BY <1>2, <1>6, <2>7, <2>8, <2>9 DEF Booted, Shows, InView
<1> QED BY <1>5, <1>6

(* The process starts again.                                               *)
LEMMA BootFitsFirst ==
  ASSUME NEW c, c = Call("boot", "session"), account' = None, CacheFits'
  PROVE  c.op = "boot" /\ Fits(c)'
BY CallHas DEF Fits, BootFits

LEMMA RestartTurns == ASSUME SInv, Turns, Orderly', Restart PROVE Turns'
<1>1. Orderly /\ UNCHANGED <<accounts, repos, lastRef>> /\ account' = None
      /\ shown' = {} /\ cache' = None
  BY DEF Restart, Orderly, Faulty, Halfway, tables
<1>2. Rows' = Rows /\ Listed' = Listed BY <1>1 DEF Rows, Listed
<1>3. InOrder' BY <1>1, <1>2 DEF Turns, InOrder
<1>4. PICK w \in Workers :
        job' = [v \in Workers |-> IF v = w THEN Call("boot", "session") ELSE Idle]
  BY DEF Restart
<1>5. job'[w].op = "boot" /\ Fits(job[w])'
  <2>1. PICK c : c = Call("boot", "session") OBVIOUS
  <2>2. job'[w] = c BY <1>4, <2>1
  <2>3. c.op = "boot" /\ Fits(c)' BY <1>1, <2>1, BootFitsFirst DEF CacheFits
  <2> QED BY <2>2, <2>3
<1>6. ASSUME NEW v \in Workers \ {w} PROVE job'[v].op = "idle" /\ Fits(job[v])'
  <2>1. PICK c : c = Idle OBVIOUS
  <2>2. job'[v] = c BY <1>4, <2>1
  <2> QED BY <2>1, <2>2, IdleFits
<1> QED BY <1>3, <1>5, <1>6 DEF Turns, Active, Quiet
-----------------------------------------------------------------------------
LEMMA InitTurns == Init => Turns
<1> SUFFICES ASSUME Init PROVE Turns OBVIOUS
<1>1. PICK w \in Workers :
        job = [v \in Workers |-> IF v = w THEN Call("boot", "session") ELSE Idle]
  BY DEF Init
<1>2. /\ accounts = [i \in Ids |-> None] /\ repos = [g \in Repos |-> None]
      /\ account = None /\ shown = {} /\ cache = None
  BY DEF Init
<1>3. Rows = {} /\ Listed = {} BY <1>2 DEF Rows, Listed
<1>4. InOrder BY <1>2, <1>3 DEF InOrder
<1>5. job[w].op = "boot" /\ Fits(job[w])
  <2>1. PICK c : c = Call("boot", "session") OBVIOUS
  <2>2. job[w] = c BY <1>1, <2>1
  <2>3. c.op = "boot" /\ Fits(c) BY <1>2, <2>1, CallHas DEF Fits, BootFits, CacheFits
  <2> QED BY <2>2, <2>3
<1>6. ASSUME NEW v \in Workers \ {w} PROVE job[v].op = "idle" /\ Fits(job[v])
  <2>1. PICK c : c = Idle OBVIOUS
  <2>2. job[v] = c BY <1>1, <2>1
  <2>3. c.op = "idle" /\ c.pc = "idle" /\ c.at = 0 /\ c.ok = TRUE BY <2>1 DEF Idle
  <2>4. Fits(c) BY <2>3 DEF Fits
  <2> QED BY <2>2, <2>3, <2>4
<1> QED BY <1>4, <1>5, <1>6 DEF Turns, Active, Quiet

LEMMA NextTurns == ASSUME SInv, Turns, [Next]_vars PROVE Turns'
<1>1. CASE UNCHANGED vars
  <2>1. UNCHANGED <<tables, cache, lastRef, window>> /\ job' = job /\ upset' = upset
    BY <1>1 DEF vars, tokens
  <2>2. UNCHANGED <<accounts, repos, cache, lastRef, account, shown, screen, section>>
    BY <2>1 DEF tables, window
  <2>3. \A v \in Workers : Fits(job[v])' = Fits(job[v])
    BY <2>1, <2>2, SameView DEF Fits, BootFits, SignInFits, SignOutFits, ListFits
  <2> QED BY <2>1, <2>3, SameView DEF Turns, Orderly, Active, Quiet
<1> SUFFICES ASSUME Next, Orderly' PROVE Turns' BY <1>1 DEF Turns
<1>2. CASE OpenSignIn \/ LeaveRepos
  <2>1. /\ job' = Unmounted /\ UNCHANGED <<tables, tokens, account, upset>>
        /\ shown' = {} /\ ~InView'
    BY <1>2 DEF OpenSignIn, LeaveRepos, InView
  <2> QED BY <2>1, UnmountTurns
<1>3. CASE Restart BY <1>3, RestartTurns
<1>4. ASSUME NEW w \in Workers,
             \/ CancelSignIn(w) \/ ReturnToRepos(w) \/ SubmitToken(w)
             \/ ClickSignOut(w) \/ ClickSync(w) \/ Step(w)
      PROVE  Turns'
  <2>1. CASE CancelSignIn(w)
    <3>1. /\ Mount(w, section) /\ ~InView /\ UNCHANGED <<tables, tokens, account, shown>>
          /\ InView' <=> section = "repos"
      BY <2>1 DEF CancelSignIn, InView
    <3> QED BY <3>1, MountTurns
  <2>2. CASE ReturnToRepos(w)
    <3>1. /\ Mount(w, "repos") /\ ~InView /\ UNCHANGED <<tables, tokens, account, shown>>
          /\ InView'
      BY <2>2 DEF ReturnToRepos, InView
    <3> QED BY <3>1, MountTurns
  <2>3. CASE SubmitToken(w) \/ ClickSignOut(w) \/ ClickSync(w) BY <2>3, ClickTurns
  <2>4. CASE SignInStep(w)
    BY <2>4, SignInBegins, SavedTurns, SignInEnds, SignedInTurns DEF SignInStep
  <2>5. CASE SignOutStep(w) BY <2>5, SignOutTurns
  <2>6. CASE SyncStep(w) BY <2>6, SyncTurns, RowsTurns, SyncEnds DEF SyncStep
  <2>7. CASE ListStep(w) BY <2>7, ListTurns, BootTurns DEF ListStep
  <2> QED BY <1>4, <2>1, <2>2, <2>3, <2>4, <2>5, <2>6, <2>7 DEF Step
<1> QED BY <1>2, <1>3, <1>4 DEF Next

LEMMA TurnsInvariant == Spec => [](SInv /\ Turns)
<1>1. Init => SInv /\ Turns BY InitSafe, InitTurns
<1>2. SInv /\ Turns /\ [Next]_vars => (SInv /\ Turns)' BY NextSafe, NextTurns
<1> QED BY <1>1, <1>2, PTL DEF Spec

(* When calls were made one after the other, the process caches no token   *)
(* after a sign-out and the user's own after a sign-in, and every row of   *)
(* the list was read from GitHub with its own user's token, however the    *)
(* calls failed before they changed anything.                              *)
THEOREM SessionsSettle == Spec => []SessionSettles
<1>1. SInv /\ Turns => SessionSettles
  <2> SUFFICES ASSUME SInv, Turns, Quiet, upset \subseteq {"fault"}
               PROVE  /\ cache \in {None} \cup {accounts[i].user : i \in Rows}
                      /\ \A g \in Listed : repos[g].via = repos[g].owner
    BY DEF SessionSettles
  <2>1. InOrder /\ CacheFits BY DEF Turns, Orderly, Rests
  <2>2. cache = None \/ \E i \in Rows : accounts[i].user = cache
    BY <2>1 DEF CacheFits, Latest
  <2> QED BY <2>1, <2>2 DEF InOrder
<1> QED BY <1>1, TurnsInvariant, PTL

(* When calls were made one after the other, the account the window shows  *)
(* is the session of the database, and the list it shows the rows of the   *)
(* table, whatever screens were opened and left on the way.                *)
THEOREM ScreensSettle == Spec => []ScreenSettles
<1>1. SInv /\ Turns => ScreenSettles
  <2> SUFFICES ASSUME SInv, Turns, Quiet, upset \subseteq {"fault"}
               PROVE  /\ account \in CurrentUser
                      /\ InView => shown = IF account = None THEN {} ELSE Listed
    BY DEF ScreenSettles, InView
  <2>1. InOrder /\ Rests BY DEF Turns, Orderly
  <2> QED BY <2>1 DEF InOrder, Rests
<1> QED BY <1>1, TurnsInvariant, PTL
=============================================================================
