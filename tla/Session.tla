------------------------------ MODULE Session -------------------------------
(***************************************************************************)
(* Signing in and out and the list of repositories: the accounts and       *)
(* repositories tables, the tokens in the credential store, the token the  *)
(* process caches, and what the window shows of them.  Every call of the   *)
(* web view is a job that goes through its awaits one step at a time; its  *)
(* answer reaches the window in a step of its own, so answers overtake one *)
(* another.                                                                *)
(***************************************************************************)
EXTENDS Naturals, FiniteSets, FiniteSetsExt

CONSTANTS
  Users,     \* GitHub users whose tokens are pasted
  Repos,     \* repositories on GitHub
  Visible,   \* Visible[u]: the repositories a token of u lists
  Workers,   \* calls that may be in flight at the same time
  None,
  MaxSignIns,  \* bound: tokens submitted
  Faults     \* bound: what may fail

ASSUME SessionAssumption ==
  /\ Visible \in [Users -> SUBSET Repos]
  /\ None \notin Users
  /\ MaxSignIns \in Nat \ {0}
  /\ Faults \subseteq {"github", "store", "delete", "rows", "unsaved", "crash"}

VARIABLES
  accounts,  \* accounts[i]: the row with id i
  repos,     \* repos[g]: the row of GitHub's repository g
  lastId,    \* the last id AUTOINCREMENT gave an account
  store,     \* store[r]: whose token is stored under the reference r
  saved,     \* the store as the next start of the process finds it
  cache,     \* AppState::token: whose token is cached
  lastRef,   \* references drawn so far
  job,       \* job[w]: the call in flight on w
  screen,    \* the root screen
  section,   \* whether the main screen shows the repositories
  signing,   \* signing_in
  account,   \* the account the window shows
  shown,     \* the repositories the list shows
  syncing,   \* the list's syncing flag
  upset      \* history: whether calls overlapped, or one was left half done

tables == <<accounts, repos, lastId>>
tokens == <<store, saved, cache, lastRef>>
window == <<screen, section, signing, account, shown, syncing>>
vars == <<tables, tokens, job, window, upset>>
-----------------------------------------------------------------------------
Ids == 1..MaxSignIns
Refs == 1..MaxSignIns

Account == [user : Users, ref : Refs, at : Ids]
ASSUME NoAccount == None \notin Account

\* owner and via: the user the sync was for, and whose token listed the row
Repo == [acct : Ids, owner : Users, via : Users]

Idle == [op |-> "idle", pc |-> "idle", user |-> None, ref |-> 0, id |-> 0,
         owner |-> None, at |-> 0, repo |-> None, todo |-> {}, ok |-> TRUE, live |-> FALSE]

Active(w) == job[w].op # "idle"
Quiet == \A w \in Workers : ~Active(w)

Rows == {i \in Ids : accounts[i] # None}
Listed == {g \in Repos : repos[g] # None}
Stored == {r \in Refs : store[r] # None}

\* list_all: ORDER BY last_login_at DESC; the session is the first of them.
Latest == {i \in Rows : \A j \in Rows : accounts[j].at <= accounts[i].at}

\* Utc::now() in seconds: the second of the last time taken, which counts as an
\* overlap, or a later one.  The bound gives each sign-in a second of its own.
Times == {0} \cup {accounts[i].at : i \in Rows} \cup {job[w].at : w \in Workers}
Now == {t \in Ids : (\A s \in Times : s <= t) /\ (t \in Times \/ t - 1 \in Times)}
Tie(t) == IF t + 1 \in Now THEN {"overlap"} ELSE {}

Becomes(w, j) == job' = [job EXCEPT ![w] = j]
Goto(w, pc) == Becomes(w, [job[w] EXCEPT !.pc = pc])
At(w, op, pc) == job[w].op = op /\ job[w].pc = pc
Fails(w) == Becomes(w, [job[w] EXCEPT !.pc = "answer", !.ok = FALSE])

\* A new call; calls that overlap are remembered.
Call(op, pc) == [Idle EXCEPT !.op = op, !.pc = pc, !.live = TRUE]
Overlap(w) == IF \E v \in Workers \ {w} : Active(v) THEN {"overlap"} ELSE {}
Begin(w, j) == /\ ~Active(w)
               /\ Becomes(w, j)
               /\ upset' = upset \cup Overlap(w)

\* A fault happens at most once.  What one behind a completed step leaves half
\* done is remembered; so is what a refusal leaves.
Fault(f) == f \in Faults /\ "fault" \notin upset
Faulty == upset' = upset \cup {"fault"}
Halfway == upset' = upset \cup {"fault", "partial"}
-----------------------------------------------------------------------------
Init ==
  /\ accounts = [i \in Ids |-> None]
  /\ repos = [g \in Repos |-> None]
  /\ lastId = 0
  /\ store = [r \in Refs |-> None]
  /\ saved = store
  /\ cache = None
  /\ lastRef = 0
  /\ \E w \in Workers : job = [v \in Workers |-> IF v = w THEN Call("boot", "session") ELSE Idle]
  /\ screen = "main" /\ section = "repos"
  /\ signing = FALSE
  /\ account = None
  /\ shown = {}
  /\ syncing = FALSE
  /\ upset = {}
-----------------------------------------------------------------------------
(* The window.                                                             *)

\* The list is torn down with its screen: answers to its calls are ignored.
Unmounted == [w \in Workers |-> IF job[w].op \in {"load", "sync"}
                                  THEN [job[w] EXCEPT !.live = FALSE] ELSE job[w]]

\* Mounting the list loads it when somebody is signed in.
Mount(w, in) == IF in = "repos" /\ account # None
                  THEN Begin(w, Call("load", "first"))
                  ELSE UNCHANGED <<job, upset>>

OpenSignIn ==
  /\ screen = "main" /\ account = None
  /\ screen' = "signin"
  /\ job' = Unmounted
  /\ shown' = {} /\ syncing' = FALSE
  /\ UNCHANGED <<tables, tokens, section, signing, account, upset>>

\* cancel_auth does not stop the call; it lets another token be submitted.
CancelSignIn(w) ==
  /\ screen = "signin"
  /\ screen' = "main"
  /\ signing' = FALSE
  /\ Mount(w, section)
  /\ UNCHANGED <<tables, tokens, section, account, shown, syncing>>

LeaveRepos ==
  /\ screen = "main" /\ section = "repos"
  /\ section' = "other"
  /\ job' = Unmounted
  /\ shown' = {} /\ syncing' = FALSE
  /\ UNCHANGED <<tables, tokens, screen, signing, account, upset>>

ReturnToRepos(w) ==
  /\ screen = "main" /\ section = "other"
  /\ section' = "repos"
  /\ Mount(w, "repos")
  /\ UNCHANGED <<tables, tokens, screen, signing, account, shown, syncing>>

SubmitToken(w) ==
  /\ screen = "signin" /\ ~signing
  /\ lastRef < MaxSignIns
  /\ \E u \in Users :
       Begin(w, [Call("signin", "user") EXCEPT !.user = u, !.ref = lastRef + 1])
  /\ lastRef' = lastRef + 1
  /\ signing' = TRUE
  /\ UNCHANGED <<tables, store, saved, cache, screen, section, account, shown, syncing>>

ClickSignOut(w) ==
  /\ screen = "main" /\ account # None
  /\ Begin(w, Call("signout", "list"))
  /\ UNCHANGED <<tables, tokens, window>>

ClickSync(w) ==
  /\ screen = "main" /\ section = "repos"
  /\ account # None /\ ~syncing
  /\ Begin(w, Call("sync", "account"))
  /\ syncing' = TRUE
  /\ UNCHANGED <<tables, tokens, screen, section, signing, account, shown>>
-----------------------------------------------------------------------------
(* AuthService::sign_in_with_token, then the command's own tail.           *)
GetUser(w) ==
  /\ At(w, "signin", "user")
  /\ Goto(w, "store")
  /\ UNCHANGED <<tables, tokens, window, upset>>

\* The process keeps the map; the file store writes it whole, or logs that
\* it could not and carries on.
Keeps(s) ==
  /\ store' = s
  /\ \/ saved' = (IF s = store THEN saved ELSE s) /\ UNCHANGED upset
     \/ Fault("unsaved") /\ saved' = saved /\ Faulty

\* Mutant of StoreToken: one reference for each login, as get_token's callers
\* would see without the random suffix.
StoreTokenByLogin(w) ==
  /\ At(w, "signin", "store")
  /\ LET r == IF job[w].user = CHOOSE u \in Users : TRUE THEN 1 ELSE 2
     IN  /\ Keeps([store EXCEPT ![r] = job[w].user])
         /\ Becomes(w, [job[w] EXCEPT !.pc = "find", !.ref = r])
  /\ UNCHANGED <<tables, cache, lastRef, window>>

\* Under a new random reference: never over an old item.
StoreToken(w) ==
  /\ At(w, "signin", "store")
  /\ Keeps([store EXCEPT ![job[w].ref] = job[w].user])
  /\ Goto(w, "find")
  /\ UNCHANGED <<tables, cache, lastRef, window>>

FindAccount(w) ==
  /\ At(w, "signin", "find")
  /\ LET mine == {i \in Rows : accounts[i].user = job[w].user}
     IN  \E t \in Now :
           /\ Becomes(w, [job[w] EXCEPT !.pc = "save", !.at = t,
                              !.id = IF mine = {} THEN 0 ELSE CHOOSE i \in mine : TRUE])
           /\ upset' = upset \cup Tie(t)
  /\ UNCHANGED <<tables, tokens, window>>

Saved(w, i) == Becomes(w, [Call("signin", "cache") EXCEPT !.user = job[w].user, !.id = i,
                                                         !.owner = job[w].user])

\* UPDATE ... WHERE id = ?: of a row deleted since it changes nothing.
UpdateAccount(w) ==
  /\ At(w, "signin", "save") /\ job[w].id # 0
  /\ accounts' = [accounts EXCEPT ![job[w].id] =
                    IF @ = None THEN None
                    ELSE [user |-> job[w].user, ref |-> job[w].ref, at |-> job[w].at]]
  /\ Saved(w, job[w].id)
  /\ UNCHANGED <<repos, lastId, tokens, window, upset>>

\* Mutant of NewId: INTEGER PRIMARY KEY without AUTOINCREMENT.
NewIdReused == 1 + Max({0} \cup Rows)
NewId == lastId + 1

\* (Each token submitted inserts one row at most: the bound on lastId is none.)
InsertAccount(w) ==
  /\ At(w, "signin", "save") /\ job[w].id = 0
  /\ lastId < MaxSignIns
  /\ \A i \in Rows : accounts[i].user # job[w].user
  /\ lastId' = NewId
  /\ accounts' = [accounts EXCEPT ![NewId] =
                    [user |-> job[w].user, ref |-> job[w].ref, at |-> job[w].at]]
  /\ Saved(w, NewId)
  /\ UNCHANGED <<repos, tokens, window, upset>>

\* Refused by GitHub, by the store or by the table (the other call inserted
\* the user's row first): a token already stored stays.
SignInFails(w) ==
  /\ job[w].op = "signin"
  /\ \/ job[w].pc = "user" /\ Fault("github") /\ Faulty
     \/ job[w].pc = "store" /\ Fault("store") /\ Faulty
     \/ job[w].pc \in {"find", "save"} /\ Fault("rows") /\ Halfway
     \/ /\ job[w].pc = "save" /\ job[w].id = 0
        /\ \E i \in Rows : accounts[i].user = job[w].user
        /\ upset' = upset \cup {"partial"}
  /\ Fails(w)
  /\ UNCHANGED <<tables, tokens, window>>

\* The call the sync was part of goes on: a sign-in ignores the outcome, a
\* manual sync lists the rows in any case, the first load only after a success.
AfterSync(w, ok) ==
  LET op == job[w].op
      rest == [Call(op, "answer") EXCEPT !.live = job[w].live]
  IN  IF op = "signin" THEN Becomes(w, [rest EXCEPT !.user = job[w].owner])
      ELSE IF op = "sync" \/ ok THEN Becomes(w, [rest EXCEPT !.pc = "rows"])
      ELSE Becomes(w, [rest EXCEPT !.ok = FALSE])

CacheToken(w) ==
  /\ At(w, "signin", "cache")
  /\ cache' = job[w].user
  /\ Goto(w, "check")
  /\ UNCHANGED <<tables, store, saved, lastRef, window, upset>>

\* An account without repositories is synced before the command returns.
CheckEmpty(w) ==
  /\ At(w, "signin", "check")
  /\ LET empty == \A g \in Listed : repos[g].acct # job[w].id
     IN  \/ empty /\ Goto(w, "fetch") /\ UNCHANGED upset
         \/ ~empty /\ AfterSync(w, TRUE) /\ UNCHANGED upset
         \/ Fault("rows") /\ AfterSync(w, TRUE) /\ Faulty
  /\ UNCHANGED <<tables, tokens, window>>
-----------------------------------------------------------------------------
(* sign_out: every account the first query returned.                       *)
ListAccounts(w) ==
  /\ At(w, "signout", "list")
  /\ \/ /\ Becomes(w, [job[w] EXCEPT !.pc = "wipe",
                            !.todo = {<<i, accounts[i].ref>> : i \in Rows}])
        /\ UNCHANGED upset
     \/ Fault("rows") /\ Fails(w) /\ Halfway
  /\ UNCHANGED <<tables, tokens, window>>

\* delete_token is best effort.
WipeToken(w) ==
  /\ At(w, "signout", "wipe")
  /\ \E d \in job[w].todo :
       /\ Becomes(w, [job[w] EXCEPT !.pc = "drop", !.id = d[1], !.todo = @ \ {d}])
       /\ \/ Keeps([store EXCEPT ![d[2]] = None])
          \/ Fault("delete") /\ Halfway /\ UNCHANGED <<store, saved>>
  /\ UNCHANGED <<tables, cache, lastRef, window>>

\* DELETE cascades to the account's repositories.
DropAccount(w) ==
  /\ At(w, "signout", "drop")
  /\ accounts' = [accounts EXCEPT ![job[w].id] = None]
  /\ repos' = [g \in Repos |-> IF repos[g] # None /\ repos[g].acct = job[w].id
                                 THEN None ELSE repos[g]]
  /\ Goto(w, "wipe")
  /\ UNCHANGED <<lastId, tokens, window, upset>>

\* Mutant of ClearCache: forgotten.
ClearCacheForgotten(w) ==
  /\ At(w, "signout", "wipe") /\ job[w].todo = {}
  /\ Goto(w, "answer")
  /\ UNCHANGED <<tables, tokens, window, upset>>

ClearCache(w) ==
  /\ At(w, "signout", "wipe") /\ job[w].todo = {}
  /\ cache' = None
  /\ Goto(w, "answer")
  /\ UNCHANGED <<tables, store, saved, lastRef, window, upset>>

\* The row, or the next ones, cannot be deleted: the cache stays as well.
SignOutFails(w) ==
  /\ At(w, "signout", "drop")
  /\ Fault("rows")
  /\ Fails(w)
  /\ Halfway
  /\ UNCHANGED <<tables, tokens, window>>
-----------------------------------------------------------------------------
(* sync_repositories: the account, its token, GitHub's list, one row after *)
(* the other.                                                              *)
FindSession(w) ==
  /\ job[w].op \in {"sync", "load"} /\ job[w].pc = "account"
  /\ \E i \in Latest :
       Becomes(w, [job[w] EXCEPT !.pc = "token", !.id = i,
                                 !.owner = accounts[i].user, !.ref = accounts[i].ref])
  /\ UNCHANGED <<tables, tokens, window, upset>>

\* resolve_token: the cached one, or the keyring's.
UseCached(w) ==
  /\ job[w].pc = "token" /\ cache # None
  /\ Becomes(w, [job[w] EXCEPT !.pc = "fetch", !.user = cache])
  /\ UNCHANGED <<tables, tokens, window, upset>>

ReadToken(w) ==
  /\ job[w].pc = "token" /\ cache = None
  /\ store[job[w].ref] # None
  /\ Becomes(w, [job[w] EXCEPT !.pc = "keep", !.user = store[job[w].ref]])
  /\ UNCHANGED <<tables, tokens, window, upset>>

KeepToken(w) ==
  /\ job[w].pc = "keep"
  /\ cache' = job[w].user
  /\ Goto(w, "fetch")
  /\ UNCHANGED <<tables, store, saved, lastRef, window, upset>>

\* list_user_repos, all its pages.
Fetch(w) ==
  /\ job[w].pc = "fetch"
  /\ Becomes(w, [job[w] EXCEPT !.pc = "look", !.todo = Visible[job[w].user]])
  /\ UNCHANGED <<tables, tokens, window, upset>>

\* find_by_github_repo_id, for the next of the list.
Look(w) ==
  /\ job[w].pc = "look" /\ job[w].todo # {}
  /\ \E g \in job[w].todo :
       Becomes(w, [job[w] EXCEPT !.pc = IF repos[g] = None THEN "insert" ELSE "update",
                                 !.todo = @ \ {g}, !.repo = g])
  /\ UNCHANGED <<tables, tokens, window, upset>>

Row(w) == [acct |-> job[w].id, owner |-> job[w].owner, via |-> job[w].user]

\* The foreign key refuses the rows of an account deleted since.
Insert(w) ==
  /\ job[w].pc = "insert"
  /\ repos[job[w].repo] = None /\ accounts[job[w].id] # None
  /\ repos' = [repos EXCEPT ![job[w].repo] = Row(w)]
  /\ Becomes(w, [job[w] EXCEPT !.pc = "look", !.repo = None])
  /\ UNCHANGED <<accounts, lastId, tokens, window, upset>>

Update(w) ==
  /\ job[w].pc = "update"
  /\ \/ /\ repos[job[w].repo] = None
        /\ UNCHANGED repos
     \/ /\ repos[job[w].repo] # None /\ accounts[job[w].id] # None
        /\ repos' = [repos EXCEPT ![job[w].repo] = Row(w)]
  /\ Becomes(w, [job[w] EXCEPT !.pc = "look", !.repo = None])
  /\ UNCHANGED <<accounts, lastId, tokens, window, upset>>
Refused(w) ==
  LET g == job[w].repo
  IN  \/ job[w].pc = "insert" /\ (repos[g] # None \/ accounts[job[w].id] = None)
      \/ job[w].pc = "update" /\ repos[g] # None /\ accounts[job[w].id] = None

SyncDone(w) ==
  /\ job[w].pc = "look" /\ job[w].todo = {}
  /\ AfterSync(w, TRUE)
  /\ UNCHANGED <<tables, tokens, window, upset>>

SyncFails(w) ==
  /\ \/ job[w].pc = "account" /\ Rows = {} /\ UNCHANGED upset
     \/ job[w].pc = "account" /\ Fault("rows") /\ Faulty
     \/ job[w].pc = "token" /\ cache = None /\ store[job[w].ref] = None /\ UNCHANGED upset
     \/ job[w].pc = "token" /\ cache = None /\ Fault("store") /\ Faulty
     \/ job[w].pc = "fetch" /\ Fault("github") /\ Faulty
     \/ Refused(w) /\ upset' = upset \cup {"partial"}
     \/ job[w].pc \in {"look", "insert", "update"} /\ Fault("rows") /\ Halfway
  /\ AfterSync(w, FALSE)
  /\ UNCHANGED <<tables, tokens, window>>
-----------------------------------------------------------------------------
(* list_repositories and get_session, and the answers.                     *)
ReadRows(w) ==
  /\ job[w].pc \in {"first", "rows"}
  /\ LET next == IF job[w].pc = "first" THEN "see" ELSE "answer"
     IN  \/ Becomes(w, [job[w] EXCEPT !.pc = next, !.todo = Listed]) /\ UNCHANGED upset
         \/ Fault("rows") /\ Fails(w) /\ Halfway
  /\ UNCHANGED <<tables, tokens, window>>

\* An empty first list is synced at once.
See(w) ==
  /\ job[w].pc = "see"
  /\ IF job[w].todo # {}
       THEN /\ Becomes(w, Idle)
            /\ shown' = IF job[w].live THEN job[w].todo ELSE shown
            /\ UNCHANGED syncing
       ELSE /\ Goto(w, "account")
            /\ syncing' = (syncing \/ job[w].live)
            /\ UNCHANGED shown
  /\ UNCHANGED <<tables, tokens, screen, section, signing, account, upset>>

Listing(w) ==
  /\ job[w].op \in {"load", "sync"} /\ job[w].pc = "answer"
  /\ Becomes(w, Idle)
  /\ shown' = IF job[w].live /\ job[w].ok THEN job[w].todo ELSE shown
  /\ syncing' = (syncing /\ ~job[w].live)
  /\ UNCHANGED <<tables, tokens, screen, section, signing, account, upset>>

\* An account set while the list is mounted loads it.
Shows(w, u) ==
  /\ account' = u
  /\ Becomes(w, IF screen = "main" /\ section = "repos" THEN Call("load", "first") ELSE Idle)

CurrentUser == IF Rows = {} THEN {None} ELSE {accounts[i].user : i \in Latest}

ReadSession(w) ==
  /\ At(w, "boot", "session")
  /\ \/ /\ \E u \in CurrentUser : Becomes(w, [job[w] EXCEPT !.pc = "answer", !.owner = u])
        /\ UNCHANGED upset
     \/ Fault("rows") /\ Fails(w) /\ Halfway
  /\ UNCHANGED <<tables, tokens, window>>

Booted(w) ==
  /\ At(w, "boot", "answer")
  /\ IF job[w].owner = None
       THEN Becomes(w, Idle) /\ UNCHANGED account
       ELSE Shows(w, job[w].owner)
  /\ UNCHANGED <<tables, tokens, screen, section, signing, shown, syncing, upset>>

\* The main screen is mounted anew, the screen it replaces unmounted.
SignedIn(w) ==
  /\ At(w, "signin", "answer") /\ job[w].ok
  /\ screen' = "main"
  /\ account' = job[w].user
  /\ job' = [Unmounted EXCEPT ![w] = IF section = "repos" THEN Call("load", "first") ELSE Idle]
  /\ shown' = {} /\ syncing' = FALSE
  /\ signing' = FALSE
  /\ UNCHANGED <<tables, tokens, section, upset>>

SignInRefused(w) ==
  /\ At(w, "signin", "answer") /\ ~job[w].ok
  /\ Becomes(w, Idle)
  /\ signing' = FALSE
  /\ UNCHANGED <<tables, tokens, screen, section, account, shown, syncing, upset>>

\* Mutant of SignedOut: the list does not watch the account.
SignedOutKeepsRows(w) ==
  /\ At(w, "signout", "answer")
  /\ Becomes(w, Idle)
  /\ account' = None
  /\ UNCHANGED <<tables, tokens, screen, section, signing, shown, syncing, upset>>

\* Whatever the call answered.
SignedOut(w) ==
  /\ At(w, "signout", "answer")
  /\ Becomes(w, Idle)
  /\ account' = None
  /\ shown' = {}
  /\ UNCHANGED <<tables, tokens, screen, section, signing, syncing, upset>>
-----------------------------------------------------------------------------
\* The application ends at any step and starts again from the database and
\* the saved tokens.
Restart ==
  /\ Fault("crash")
  /\ \E w \in Workers : job' = [v \in Workers |-> IF v = w THEN Call("boot", "session") ELSE Idle]
  /\ store' = saved
  /\ cache' = None
  /\ screen' = "main" /\ section' = "repos"
  /\ signing' = FALSE
  /\ account' = None
  /\ shown' = {}
  /\ syncing' = FALSE
  /\ IF Quiet /\ saved = store THEN Faulty ELSE Halfway
  /\ UNCHANGED <<tables, saved, lastRef>>

SignInStep(w) == \/ GetUser(w) \/ StoreToken(w) \/ FindAccount(w) \/ UpdateAccount(w)
                 \/ InsertAccount(w) \/ SignInFails(w) \/ CacheToken(w) \/ CheckEmpty(w)
                 \/ SignedIn(w) \/ SignInRefused(w)
SignOutStep(w) == \/ ListAccounts(w) \/ WipeToken(w) \/ DropAccount(w) \/ ClearCache(w)
                  \/ SignOutFails(w) \/ SignedOut(w)
SyncStep(w) == \/ FindSession(w) \/ UseCached(w) \/ ReadToken(w) \/ KeepToken(w) \/ Fetch(w)
               \/ Look(w) \/ Insert(w) \/ Update(w) \/ SyncDone(w) \/ SyncFails(w)
ListStep(w) == \/ ReadRows(w) \/ See(w) \/ Listing(w) \/ ReadSession(w) \/ Booted(w)

Step(w) == SignInStep(w) \/ SignOutStep(w) \/ SyncStep(w) \/ ListStep(w)

Next ==
  \/ OpenSignIn \/ LeaveRepos \/ Restart
  \/ \E w \in Workers : \/ CancelSignIn(w) \/ ReturnToRepos(w) \/ SubmitToken(w)
                        \/ ClickSignOut(w) \/ ClickSync(w)
                        \/ Step(w)

Spec == Init /\ [][Next]_vars
-----------------------------------------------------------------------------
(* Properties.                                                             *)

\* The rows and the jobs keep their shapes; references are drawn once.
TypeOK ==
  /\ accounts \in [Ids -> Account \cup {None}]
  /\ repos \in [Repos -> Repo \cup {None}]
  /\ lastId \in 0..MaxSignIns /\ lastRef \in 0..MaxSignIns
  /\ store \in [Refs -> Users \cup {None}] /\ saved \in [Refs -> Users \cup {None}]
  /\ cache \in Users \cup {None}
  /\ \A w \in Workers :
       /\ job[w].op \in {"idle", "boot", "load", "sync", "signin", "signout"}
       /\ job[w].id \in {0} \cup Ids /\ job[w].ref \in {0} \cup Refs
       /\ job[w].repo \in Repos \cup {None}
  /\ screen \in {"main", "signin"} /\ section \in {"repos", "other"}
  /\ signing \in BOOLEAN /\ syncing \in BOOLEAN
  /\ account \in Users \cup {None} /\ shown \subseteq Repos
  /\ upset \subseteq {"overlap", "fault", "partial"}

\* A repository row belongs to an account that exists, and to the account of
\* the user whose sync wrote it: a sync overtaken by a sign-out and another
\* user's sign-in writes nothing into the new user's list.
RowsStayWithTheirUser ==
  \A g \in Listed : LET i == repos[g].acct
                    IN  i \in Rows /\ accounts[i].user = repos[g].owner

\* Whichever calls overlapped, the token an account row refers to is in the
\* credential store, and is that user's, unless something failed behind a
\* completed step.
TokenIsThere ==
  Quiet /\ "partial" \notin upset =>
    \A i \in Rows : store[accounts[i].ref] = accounts[i].user

\* Calls made one after the other leave nothing of another user: after a
\* sign-out no token is cached, after a sign-in the new user's, and the rows
\* were listed with their own user's token.
SessionSettles ==
  Quiet /\ upset \subseteq {"fault"} =>
    /\ cache \in {None} \cup {accounts[i].user : i \in Rows}
    /\ \A g \in Listed : repos[g].via = repos[g].owner

\* Calls made one after the other leave the window showing the session of the
\* database and, on the list, the rows of the database.
ScreenSettles ==
  Quiet /\ upset \subseteq {"fault"} =>
    /\ account \in CurrentUser
    /\ screen = "main" /\ section = "repos" => shown = IF account = None THEN {} ELSE Listed
=============================================================================
